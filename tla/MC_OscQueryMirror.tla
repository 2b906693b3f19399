------------------------- MODULE MC_OscQueryMirror -------------------------
(***************************************************************************)
(* Two init() calls (set_device then connect, or set_device twice) and two *)
(* update() calls: enough for a reply to the first HOST_INFO to arrive     *)
(* after the second init(), and for the reply to a timed-out update to    *)
(* arrive while the second update waits.                                   *)
(* The lifecycle run allows three of each.                                 *)
(***************************************************************************)
EXTENDS OscQueryMirror

MC_Transports == {"UDP", "TCP"}
=============================================================================
