-------------------------- MODULE MC_ScenarioFlags --------------------------
(***************************************************************************)
(* A two-sync scenario with every operation enabled: edits, start/stop,   *)
(* requests, ticks, triggers, resets, the write-only flags (pause, mute,   *)
(* exclusive) and the statuses the authoring layer writes before start():  *)
(*   s0 --A--> s1                                                          *)
(* A reset from s1 must walk upstream through A to reach s0; removing A    *)
(* splits the graph into two components.                                   *)
(***************************************************************************)
EXTENDS Scenario

CONSTANTS s0, s1, e0, e1, A

MCF_Syncs == {s0, s1}
MCF_Events == {e0, e1}
MCF_Itvs == {A}
MCF_SyncOf == (e0 :> s0) @@ (e1 :> s1)
MCF_StartEv == A :> e0
MCF_EndEv == A :> e1
=============================================================================
