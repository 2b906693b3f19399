------------------------------ MODULE Scenario ------------------------------
(***************************************************************************)
(* The temporal graph state machine of ossia::scenario                     *)
(* (src/src/ossia/editor/scenario/scenario.cpp).                           *)
(*                                                                         *)
(* A scenario owns time_syncs (m_nodes) and time_intervals (m_intervals).  *)
(* Each time_sync owns time_events; each interval goes from a start event  *)
(* to an end event.  The event-level interval lists (previous/next) are    *)
(* fixed by the authoring layer when the interval is created, so the       *)
(* adjacency below is given by the constants StartEv/EndEv over ALL of     *)
(* Itvs, whether or not an interval is currently a member of m_intervals:  *)
(* remove_time_interval does not touch those lists.                        *)
(*                                                                         *)
(* The tick driver and the trigger evaluator are external collaborators;   *)
(* they appear as environment actions, modelled from the spec.             *)
(***************************************************************************)
EXTENDS Naturals, Sequences, FiniteSets, SequencesExt

CONSTANTS
  Syncs,        \* time_sync objects
  Events,       \* time_event objects
  Itvs,         \* time_interval objects
  SyncOf,       \* [Events -> Syncs]: the time_sync owning each event
  StartEv,      \* [Itvs -> Events]: get_start_event()
  EndEv,        \* [Itvs -> Events]: get_end_event()
  StartSync,    \* the time_sync created by the constructor (m_nodes[0])
  RootCapable,  \* the time_syncs whose is_start() is true
  MaxRequests,  \* bound on the length of each request queue
  Authored,     \* the statuses the authoring layer may write before start()
  FlagOps       \* whether pause/resume, mute_impl and set_exclusive are
                \* explored: they write flags no other operation reads

ASSUME
  /\ SyncOf \in [Events -> Syncs]
  /\ StartEv \in [Itvs -> Events] /\ EndEv \in [Itvs -> Events]
  /\ StartSync \in RootCapable /\ RootCapable \subseteq Syncs
  /\ MaxRequests \in Nat
  /\ FlagOps \in BOOLEAN
  /\ Authored \subseteq {"NONE", "PENDING", "HAPPENED", "DISPOSED"}

Status == {"NONE", "PENDING", "HAPPENED", "DISPOSED"}

VARIABLES
  nodes,        \* m_nodes, as a set: its order is never read
  intervals,    \* m_intervals, a vector: start() walks it in order
  status,       \* time_event::get_status()
  triggered,    \* time_sync::is_being_triggered()
  running,      \* time_interval::running()
  paused,       \* the suspended flag of time_interval::pause()/resume()
  itvMuted,     \* time_interval::muted()
  syncMuted,    \* time_sync::muted()
  scnMuted,     \* node->muted() of the scenario's dataflow node
  exclusive,    \* m_exclusive
  runningItvs,  \* m_runningIntervals
  waiting,      \* m_waitingNodes
  roots,        \* m_rootNodes
  toStart,      \* m_itv_to_start (the ratios are abstracted away)
  toStop,       \* m_itv_to_stop
  lastDate,     \* m_last_date, abstracted to Infinite or a finite date
  playing,      \* environment: between the driver's start() and stop()
  startError    \* start() threw execution_error

vars == <<nodes, intervals, status, triggered, running, paused, itvMuted,
          syncMuted, scnMuted, exclusive, runningItvs, waiting, roots,
          toStart, toStop, lastDate, playing, startError>>

-----------------------------------------------------------------------------
(* Graph structure, as the walks in scenario.cpp read it.                  *)

\* ev->previous_time_intervals() over every event of s
PrevItvs(s) == {i \in Itvs : SyncOf[EndEv[i]] = s}
\* ev->next_time_intervals() over every event of s
NextItvs(s) == {i \in Itvs : SyncOf[StartEv[i]] = s}
AdjItvs(S) == UNION {PrevItvs(s) \cup NextItvs(s) : s \in S}

(* Mutant of ComponentWalk: the walk follows next intervals only *)
RECURSIVE ComponentWalkDownstream(_, _)
ComponentWalkDownstream(stack, cache) ==
  IF stack = <<>> THEN cache
  ELSE LET n   == Last(stack)
           new == {SyncOf[EndEv[i]] : i \in NextItvs(n)} \ cache
       IN  ComponentWalkDownstream(Front(stack) \o SetToSeq(new), cache \cup new)

(* The depth-first walk over m_component_visit_stack/cache: pop the last  *)
(* sync, push every not-yet-cached sync at the other end of a previous or *)
(* next interval.  Returns the final cache.                                *)
RECURSIVE ComponentWalk(_, _)
ComponentWalk(stack, cache) ==
  IF stack = <<>> THEN cache
  ELSE LET n   == Last(stack)
           nb  == {SyncOf[StartEv[i]] : i \in PrevItvs(n)}
                    \cup {SyncOf[EndEv[i]] : i \in NextItvs(n)}
           new == nb \ cache
       IN  ComponentWalk(Front(stack) \o SetToSeq(new), cache \cup new)

\* the walk from each sync; the graph is constant, so it is tabulated once
ComponentTable == [n \in Syncs |-> ComponentWalk(<<n>>, {n})]
Component(n) == ComponentTable[n]

Members == ToSet(intervals)

(* get_roots() over the syncs ns and member intervals its: the           *)
(* root-capable syncs that no member interval makes wait                   *)
GetRoots(ns, its) == {s \in ns \cap RootCapable : PrevItvs(s) \cap its = {}}

(* time_sync::reset() on every sync of S, time_interval::stop() together  *)
(* with erasure from m_runningIntervals (stop_interval) on the intervals I *)
ResetSyncs(S) ==
  /\ status' = [e \in Events |-> IF SyncOf[e] \in S THEN "NONE" ELSE status[e]]
  /\ triggered' = [s \in Syncs |-> IF s \in S THEN FALSE ELSE triggered[s]]

(* Mutant of StopIntervals: stop() without the m_runningIntervals erase *)
StopIntervalsKeepListed(I) ==
  /\ running' = [i \in Itvs |-> IF i \in I THEN FALSE ELSE running[i]]
  /\ runningItvs' = runningItvs

StopIntervals(I) ==
  /\ running' = [i \in Itvs |-> IF i \in I THEN FALSE ELSE running[i]]
  /\ runningItvs' = runningItvs \ I

\* the branch is "live": being triggered, or an adjacent interval runs
Live(m) == triggered[m] \/ \E i \in PrevItvs(m) \cup NextItvs(m) : running[i]

-----------------------------------------------------------------------------
Init ==
  /\ nodes = {StartSync}
  /\ intervals = <<>>
  /\ status = [e \in Events |-> "NONE"]
  /\ triggered = [s \in Syncs |-> FALSE]
  /\ running = [i \in Itvs |-> FALSE]
  /\ paused = [i \in Itvs |-> FALSE]
  /\ itvMuted = [i \in Itvs |-> FALSE]
  /\ syncMuted = [s \in Syncs |-> FALSE]
  /\ scnMuted = FALSE
  /\ exclusive = FALSE
  /\ runningItvs = {}
  /\ waiting = {}
  /\ roots = {}
  /\ toStart = <<>>
  /\ toStop = <<>>
  /\ lastDate = "Infinite"
  /\ playing = FALSE
  /\ startError = FALSE

-----------------------------------------------------------------------------
(* scenario::start(): recompute the roots, seed m_waitingNodes with them, *)
(* reset every node, then classify every interval of m_intervals, in      *)
(* order, by the statuses of its two events as they are after the reset.  *)
(* An unhandled combination throws: the intervals before it stay started. *)
Handled == {<<"HAPPENED", "HAPPENED">>, <<"PENDING", "NONE">>,
            <<"HAPPENED", "NONE">>, <<"NONE", "HAPPENED">>,
            <<"HAPPENED", "PENDING">>, <<"NONE", "NONE">>,
            <<"DISPOSED", "DISPOSED">>}
RunsNow == {<<"HAPPENED", "NONE">>, <<"HAPPENED", "PENDING">>}

Start ==
  LET st     == [e \in Events |-> IF SyncOf[e] \in nodes THEN "NONE" ELSE status[e]]
      cls(k) == <<st[StartEv[intervals[k]]], st[EndEv[intervals[k]]]>>
      bad    == {k \in 1..Len(intervals) : cls(k) \notin Handled}
      upTo   == IF bad = {} THEN Len(intervals) + 1 ELSE Min(bad)
      run    == {intervals[k] : k \in {j \in 1..(upTo - 1) : cls(j) \in RunsNow}}
  IN  /\ ~playing
      /\ roots' = GetRoots(nodes, Members)
      /\ waiting' = waiting \cup GetRoots(nodes, Members)
      /\ ResetSyncs(nodes)
      /\ running' = [i \in Itvs |-> running[i] \/ i \in run]
      /\ runningItvs' = runningItvs \cup run
      /\ startError' = (bad # {})
      /\ playing' = TRUE
      /\ UNCHANGED <<nodes, intervals, paused, itvMuted, syncMuted, scnMuted,
                     exclusive, toStart, toStop, lastDate>>

(* scenario::stop(): stop every member interval, reset every node, clear  *)
(* the derived sets and the queues; m_rootNodes is left as it is.         *)
Stop ==
  /\ running' = [i \in Itvs |-> IF i \in Members THEN FALSE ELSE running[i]]
  /\ ResetSyncs(nodes)
  /\ runningItvs' = {}
  /\ toStart' = <<>>
  /\ toStop' = <<>>
  /\ waiting' = {}
  /\ lastDate' = "Infinite"
  /\ playing' = FALSE
  /\ UNCHANGED <<nodes, intervals, paused, itvMuted, syncMuted, scnMuted,
                 exclusive, roots, startError>>

(* scenario::pause() / resume(): forwarded to every member interval *)
SetPaused(b) ==
  /\ paused' = [i \in Itvs |-> IF i \in Members THEN b ELSE paused[i]]
  /\ UNCHANGED <<nodes, intervals, status, triggered, running, itvMuted,
                 syncMuted, scnMuted, exclusive, runningItvs, waiting, roots,
                 toStart, toStop, lastDate, playing, startError>>
Pause == SetPaused(TRUE)
Resume == SetPaused(FALSE)

(* Mutants of AddTimeInterval: without the contains() guard, and        *)
(* without the propagation of the node's muted flag                       *)
AddTimeIntervalNoContains(i) ==
  LET t == SyncOf[EndEv[i]]
  IN  /\ intervals' = Append(intervals, i)
      /\ itvMuted' = IF scnMuted THEN [itvMuted EXCEPT ![i] = TRUE] ELSE itvMuted
      /\ IF lastDate # "Infinite" /\ t \in RootCapable
           THEN /\ waiting' = waiting \ {t}
                /\ roots' = GetRoots(nodes, Members \cup {i})
           ELSE UNCHANGED <<waiting, roots>>
      /\ UNCHANGED <<nodes, status, triggered, running, paused, syncMuted,
                     scnMuted, exclusive, runningItvs, toStart, toStop,
                     lastDate, playing, startError>>

AddTimeIntervalNoMute(i) ==
  LET t == SyncOf[EndEv[i]]
  IN  /\ i \notin Members
      /\ intervals' = Append(intervals, i)
      /\ IF lastDate # "Infinite" /\ t \in RootCapable
           THEN /\ waiting' = waiting \ {t}
                /\ roots' = GetRoots(nodes, Members \cup {i})
           ELSE UNCHANGED <<waiting, roots>>
      /\ UNCHANGED <<nodes, status, triggered, running, paused, itvMuted,
                     syncMuted, scnMuted, exclusive, runningItvs, toStart,
                     toStop, lastDate, playing, startError>>

(* scenario::add_time_interval(): a no-op for a member; once a date has   *)
(* been reached, an interval ending on a start sync takes that sync out   *)
(* of m_waitingNodes and the roots are recomputed with the new interval.  *)
AddTimeInterval(i) ==
  LET t == SyncOf[EndEv[i]]
  IN  /\ i \notin Members
      /\ intervals' = Append(intervals, i)
      /\ itvMuted' = IF scnMuted THEN [itvMuted EXCEPT ![i] = TRUE] ELSE itvMuted
      /\ IF lastDate # "Infinite" /\ t \in RootCapable
           THEN /\ waiting' = waiting \ {t}
                /\ roots' = GetRoots(nodes, Members \cup {i})
           ELSE UNCHANGED <<waiting, roots>>
      /\ UNCHANGED <<nodes, status, triggered, running, paused, syncMuted,
                     scnMuted, exclusive, runningItvs, toStart, toStop,
                     lastDate, playing, startError>>

(* scenario::remove_time_interval(): once a date has been reached, a start *)
(* sync at its end goes back to m_waitingNodes and the roots are           *)
(* recomputed, while the interval is still in m_intervals; then the first  *)
(* matching entry of each queue and the m_runningIntervals entry are       *)
(* erased and the interval removed.  The interval itself is not stopped.  *)
RemoveTimeInterval(i) ==
  LET t == SyncOf[EndEv[i]]
  IN  /\ i \in Members
      /\ IF lastDate # "Infinite"
           THEN /\ waiting' = IF t \in RootCapable THEN waiting \cup {t} ELSE waiting
                /\ roots' = GetRoots(nodes, Members)
           ELSE UNCHANGED <<waiting, roots>>
      /\ runningItvs' = runningItvs \ {i}
      /\ toStart' = RemoveFirst(toStart, i)
      /\ toStop' = RemoveFirst(toStop, i)
      /\ intervals' = RemoveFirst(intervals, i)
      /\ UNCHANGED <<nodes, status, triggered, running, paused, itvMuted,
                     syncMuted, scnMuted, exclusive, lastDate, playing,
                     startError>>

(* scenario::add_time_sync(): once a date has been reached, a start sync *)
(* joins m_waitingNodes and the roots are recomputed.                     *)
AddTimeSync(s) ==
  /\ s \notin nodes
  /\ nodes' = nodes \cup {s}
  /\ syncMuted' = IF scnMuted THEN [syncMuted EXCEPT ![s] = TRUE] ELSE syncMuted
  /\ IF lastDate # "Infinite" /\ s \in RootCapable
       THEN /\ waiting' = waiting \cup {s}
            /\ roots' = GetRoots(nodes \cup {s}, Members)
       ELSE UNCHANGED <<waiting, roots>>
  /\ UNCHANGED <<intervals, status, triggered, running, paused, itvMuted,
                 scnMuted, exclusive, runningItvs, toStart, toStop, lastDate,
                 playing, startError>>

(* scenario::remove_time_sync(): purge the sync from the derived sets.   *)
(* The authoring layer never removes the constructor's start sync.       *)
RemoveTimeSync(s) ==
  /\ s \in nodes \ {StartSync}
  /\ waiting' = waiting \ {s}
  /\ roots' = roots \ {s}
  /\ nodes' = nodes \ {s}
  /\ UNCHANGED <<intervals, status, triggered, running, paused, itvMuted,
                 syncMuted, scnMuted, exclusive, runningItvs, toStart, toStop,
                 lastDate, playing, startError>>

(* scenario::reset_subgraph(): reset the given syncs, stop the given      *)
(* intervals and erase them from m_runningIntervals.                      *)
ResetSubgraph(S, I) ==
  /\ ResetSyncs(S)
  /\ StopIntervals(I)
  /\ UNCHANGED <<nodes, intervals, paused, itvMuted, syncMuted, scnMuted,
                 exclusive, waiting, roots, toStart, toStop, lastDate, playing,
                 startError>>

SetExclusive(b) ==
  /\ exclusive' = b
  /\ UNCHANGED <<nodes, intervals, status, triggered, running, paused,
                 itvMuted, syncMuted, scnMuted, runningItvs, waiting, roots,
                 toStart, toStop, lastDate, playing, startError>>

(* scenario::mute_impl(), called once the node's muted flag is set to m *)
MuteImpl(m) ==
  /\ scnMuted' = m
  /\ itvMuted' = [i \in Itvs |-> IF i \in Members THEN m ELSE itvMuted[i]]
  /\ syncMuted' = [s \in Syncs |-> IF s \in nodes THEN m ELSE syncMuted[s]]
  /\ UNCHANGED <<nodes, intervals, status, triggered, running, paused,
                 exclusive, runningItvs, waiting, roots, toStart, toStop,
                 lastDate, playing, startError>>

(* scenario::request_start_interval() / request_stop_interval(), called  *)
(* by the tick driver with an interval of the scenario                    *)
RequestStartInterval(i) ==
  /\ playing /\ i \in Members /\ Len(toStart) < MaxRequests
  /\ toStart' = Append(toStart, i)
  /\ UNCHANGED <<nodes, intervals, status, triggered, running, paused,
                 itvMuted, syncMuted, scnMuted, exclusive, runningItvs,
                 waiting, roots, toStop, lastDate, playing, startError>>

RequestStopInterval(i) ==
  /\ playing /\ i \in Members /\ Len(toStop) < MaxRequests
  /\ toStop' = Append(toStop, i)
  /\ UNCHANGED <<nodes, intervals, status, triggered, running, paused,
                 itvMuted, syncMuted, scnMuted, exclusive, runningItvs,
                 waiting, roots, toStart, lastDate, playing, startError>>

(* scenario::reset_component(n): reset every sync of n's component and   *)
(* stop (stop_interval) every interval adjacent to one of them.           *)
ResetComponent(n) ==
  /\ playing /\ n \in nodes
  /\ ResetSyncs(Component(n))
  /\ StopIntervals(AdjItvs(Component(n)))
  /\ UNCHANGED <<nodes, intervals, paused, itvMuted, syncMuted, scnMuted,
                 exclusive, waiting, roots, toStart, toStop, lastDate, playing,
                 startError>>

(* scenario::reset_all_components_except(n): every member sync outside   *)
(* n's component that is live has its whole component reset.  The loop   *)
(* resets one component at a time; components are disjoint and a reset   *)
(* one has no live sync left, so the loop resets exactly Doomed(n).       *)
Doomed(n) == UNION {Component(m) : m \in {x \in nodes \ Component(n) : Live(x)}}

ResetAllComponentsExcept(n) ==
  /\ playing /\ n \in nodes
  /\ ResetSyncs(Doomed(n))
  /\ StopIntervals(AdjItvs(Doomed(n)))
  /\ UNCHANGED <<nodes, intervals, paused, itvMuted, syncMuted, scnMuted,
                 exclusive, waiting, roots, toStart, toStop, lastDate, playing,
                 startError>>

-----------------------------------------------------------------------------
(* Environment: the tick driver and the trigger evaluator (spec, sec. 6). *)

(* A tick consumes and clears both request queues, starting then        *)
(* stopping the requested intervals, and records a finite m_last_date.  *)
Tick ==
  LET st == ToSet(toStart)
      sp == ToSet(toStop)
  IN  /\ playing
      /\ running' = [i \in Itvs |-> IF i \in sp THEN FALSE
                                    ELSE IF i \in st THEN TRUE ELSE running[i]]
      /\ runningItvs' = (runningItvs \cup st) \ sp
      /\ toStart' = <<>>
      /\ toStop' = <<>>
      /\ lastDate' = "Finite"
      /\ UNCHANGED <<nodes, intervals, status, triggered, paused, itvMuted,
                     syncMuted, scnMuted, exclusive, waiting, roots, playing,
                     startError>>

(* The status lifecycle written by the trigger evaluator while playing *)
Lifecycle == {<<"NONE", "PENDING">>, <<"PENDING", "HAPPENED">>,
              <<"PENDING", "DISPOSED">>, <<"HAPPENED", "DISPOSED">>}

EvaluateEvent(e, st) ==
  /\ playing /\ SyncOf[e] \in nodes
  /\ <<status[e], st>> \in Lifecycle
  /\ status' = [status EXCEPT ![e] = st]
  /\ UNCHANGED <<nodes, intervals, triggered, running, paused, itvMuted,
                 syncMuted, scnMuted, exclusive, runningItvs, waiting, roots,
                 toStart, toStop, lastDate, playing, startError>>

BeginTrigger(s) ==
  /\ playing /\ s \in nodes /\ ~triggered[s]
  /\ triggered' = [triggered EXCEPT ![s] = TRUE]
  /\ UNCHANGED <<nodes, intervals, status, running, paused, itvMuted,
                 syncMuted, scnMuted, exclusive, runningItvs, waiting, roots,
                 toStart, toStop, lastDate, playing, startError>>

(* Before start(), the authoring or persistence layer may set any status *)
AuthorStatus(e, st) ==
  /\ ~playing
  /\ status' = [status EXCEPT ![e] = st]
  /\ UNCHANGED <<nodes, intervals, triggered, running, paused, itvMuted,
                 syncMuted, scnMuted, exclusive, runningItvs, waiting, roots,
                 toStart, toStop, lastDate, playing, startError>>

-----------------------------------------------------------------------------
Next ==
  \/ Start \/ Stop \/ Tick
  \/ FlagOps /\ (Pause \/ Resume)
  \/ \E i \in Itvs : \/ AddTimeInterval(i) \/ RemoveTimeInterval(i)
                     \/ RequestStartInterval(i) \/ RequestStopInterval(i)
  \/ \E s \in Syncs : \/ AddTimeSync(s) \/ RemoveTimeSync(s)
                      \/ ResetComponent(s) \/ ResetAllComponentsExcept(s)
                      \/ BeginTrigger(s)
  \/ \E S \in SUBSET nodes, I \in SUBSET Members : playing /\ ResetSubgraph(S, I)
  \/ FlagOps /\ \E b \in BOOLEAN : SetExclusive(b) \/ MuteImpl(b)
  \/ \E e \in Events, st \in Status : EvaluateEvent(e, st)
  \/ \E e \in Events, st \in Authored : AuthorStatus(e, st)

Spec == Init /\ [][Next]_vars

-----------------------------------------------------------------------------
TypeOK ==
  /\ nodes \subseteq Syncs /\ StartSync \in nodes
  /\ intervals \in Seq(Itvs) /\ IsInjective(intervals)
  /\ status \in [Events -> Status]
  /\ triggered \in [Syncs -> BOOLEAN]
  /\ running \in [Itvs -> BOOLEAN] /\ paused \in [Itvs -> BOOLEAN]
  /\ itvMuted \in [Itvs -> BOOLEAN] /\ syncMuted \in [Syncs -> BOOLEAN]
  /\ scnMuted \in BOOLEAN /\ exclusive \in BOOLEAN
  /\ runningItvs \subseteq Itvs
  /\ waiting \subseteq Syncs /\ roots \subseteq Syncs
  /\ toStart \in Seq(Itvs) /\ toStop \in Seq(Itvs)
  /\ Len(toStart) <= MaxRequests /\ Len(toStop) <= MaxRequests
  /\ lastDate \in {"Infinite", "Finite"}
  /\ playing \in BOOLEAN /\ startError \in BOOLEAN

-----------------------------------------------------------------------------
(* Reference definitions for the properties: the connected component of  *)
(* a sync in the undirected graph of all intervals, by closure.           *)
LOCAL Rel == INSTANCE Relation

Adjacent == [p \in Syncs \X Syncs |->
               \E i \in Itvs : {SyncOf[StartEv[i]], SyncOf[EndEv[i]]} = {p[1], p[2]}]
Linked == Rel!ReflexiveTransitiveClosure(Adjacent, Syncs)
ComponentOfTable == [n \in Syncs |-> {m \in Syncs : Linked[n, m]}]
ComponentOf(n) == ComponentOfTable[n]

\* spec, sec. 4.4: a sync is active when it is being triggered or one of
\* the intervals before or after it is running
Active(m) == triggered[m] \/ \E i \in Itvs : m \in {SyncOf[StartEv[i]], SyncOf[EndEv[i]]} /\ running[i]

\* the local state of sync s and of the intervals touching it is unchanged
Untouched(s) ==
  /\ triggered'[s] = triggered[s]
  /\ \A e \in Events : SyncOf[e] = s => status'[e] = status[e]
  /\ \A i \in PrevItvs(s) \cup NextItvs(s) : running'[i] = running[i]

(* reset_component(n) tears down the whole component of n, upstream as   *)
(* well as downstream: every event of it is NONE, no sync of it is being *)
(* triggered or has a running interval; nothing outside it changes.      *)
ResetComponentTearsDown ==
  [][\A n \in Syncs :
       ResetComponent(n) =>
         LET C == ComponentOf(n)
         IN  /\ \A e \in Events : SyncOf[e] \in C => status'[e] = "NONE"
             /\ \A s \in C : ~Active(s)'
             /\ \A s \in Syncs \ C : Untouched(s)]_vars

(* m_runningIntervals, what the execution layer treats as active, never  *)
(* lists an interval that has been stopped, whichever of stop(),         *)
(* reset_component, reset_subgraph or a stop request stopped it.          *)
RunningSetSound == \A i \in runningItvs : running[i]


(* While the scenario's node is muted, every member interval and sync is *)
(* muted, including those added after mute_impl ran.                     *)
MutedScenarioSilencesMembers ==
  scnMuted => /\ \A i \in Members : itvMuted[i]
              /\ \A s \in nodes : syncMuted[s]

(* Spec, sec. 4.4: removing an interval evicts it from both request      *)
(* queues, so the tick driver never consumes a request for an interval   *)
(* that is no longer in the scenario.                                     *)
NoDanglingRequest == \A i \in ToSet(toStart) \cup ToSet(toStop) : i \in Members

(* Spec, sec. 3: an interval of the scenario is running only if it is    *)
(* listed in m_runningIntervals.                                          *)
RunningIsListed == \A i \in Members : running[i] => i \in runningItvs
=============================================================================
