---------------------------- MODULE MC_Scenario ----------------------------
(***************************************************************************)
(* A scenario of three syncs in two components:                            *)
(*   s0 --A--> s1    s0, created by the constructor, is a start sync       *)
(*   s2              an isolated sync that is also root-capable            *)
(* A walk from s1 has to go upstream through A to reach s0; s2 is the      *)
(* foreign component of s0 and s1, and they are the foreign component of   *)
(* s2 for reset_all_components_except.                                     *)
(***************************************************************************)
EXTENDS Scenario

CONSTANTS s0, s1, s2, e0, e1, e2, A

MC_Syncs == {s0, s1, s2}
MC_Events == {e0, e1, e2}
MC_Itvs == {A}
MC_SyncOf == (e0 :> s0) @@ (e1 :> s1) @@ (e2 :> s2)
MC_StartEv == A :> e0
MC_EndEv == A :> e1
MC_RootCapable == {s0, s2}
=============================================================================
