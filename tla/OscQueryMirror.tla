--------------------------- MODULE OscQueryMirror ---------------------------
(***************************************************************************)
(* The dense OSCQuery mirror protocol (src/src/ossia/protocols/oscquery/   *)
(* oscquery_mirror_asio_dense.cpp): its lifecycle (construction,          *)
(* set_device/init, connect, stop, destruction), the HTTP requests it      *)
(* sends (HOST_INFO from init, the namespace of a node from update_async) *)
(* and the replies to them, handled on the network context's thread, the  *)
(* blocking update() with its 3 s deadline, and the streaming timer       *)
(* started by a HostInfo reply.                                            *)
(*                                                                         *)
(* The replies are a set of in-flight messages: they arrive in any order,  *)
(* late, or never (a failed connection ends in http_async_error, which    *)
(* does nothing).  The answer object holds m_async_state, which the       *)
(* constructor creates active and stop() deactivates: a reply that        *)
(* arrives while it is inactive is dropped.  The check and the handler    *)
(* are two steps of the network thread, and stop() may run between them.  *)
(***************************************************************************)
EXTENDS Naturals, FiniteSets

CONSTANTS
    MaxInits,       \* bound on init() calls (set_device, connect)
    MaxUpdates,     \* bound on update() calls
    MaxValues,      \* bound on value requests (pull, pull_async)
    Transports      \* osc_transport values a HostInfo reply may carry

ASSUME "UDP" \in Transports

VARIABLES
    alive,          \* the protocol object exists (destructor not yet run)
    hasDevice,      \* m_device is set
    server,         \* m_oscServer: "null" until start_osc, then "open"/"closed"
    worker,         \* m_http->worker is set (start_http), reset by stop()
    active,         \* m_async_state->active
    running,        \* between an init() and the next stop() (history)
    inflight,       \* replies on their way to the mirror
    inits,          \* number of init() calls so far
    toClient,       \* to_client has been emplaced
    timerOn,        \* m_timer has been started
    promise,        \* m_namespacePromise: which update made it, and whether set
    waiting,        \* the update() blocked in wait_for_future, or 0
    updates,        \* number of update() calls so far
    parsed,         \* updates whose Namespace reply has been parsed
    result,         \* what the last update() returned
    fault,          \* "none", or "null_deref" once stop() ran on a null m_oscServer
    lastWrite,      \* when update_function last wrote a packet: "none",
                    \* "running" or "stopped" (history)
    values,         \* number of value requests sent so far
    delivered,      \* value requests whose reply reached the device
    handling        \* replies whose answer passed the active check and whose
                    \* handler has not yet run, on the network thread

vars == <<alive, hasDevice, server, worker, active, running, inflight, inits,
          toClient, timerOn, promise, waiting, updates, parsed, result, fault,
          lastWrite, values, delivered, handling>>

\* a reply: to the HOST_INFO request of init number id, to the namespace
\* request of update number id, or to value request number id
Reply == [kind : {"HostInfo"}, id : 1..MaxInits]
           \cup [kind : {"Namespace"}, id : 1..MaxUpdates]
           \cup [kind : {"Value"}, id : 1..MaxValues]

NoResult == [id |-> 0, ready |-> FALSE]

-----------------------------------------------------------------------------
(* The constructor: the async state is created active, the namespace      *)
(* promise is default-constructed, no server, worker or client exists.    *)
Init ==
    /\ alive = TRUE /\ hasDevice = FALSE
    /\ server = "null" /\ worker = FALSE
    /\ active = TRUE /\ running = FALSE
    /\ inflight = {} /\ inits = 0
    /\ toClient = FALSE /\ timerOn = FALSE
    /\ promise = [id |-> 0, set |-> FALSE]
    /\ waiting = 0 /\ updates = 0 /\ parsed = {}
    /\ result = NoResult /\ fault = "none"
    /\ lastWrite = "none"
    /\ values = 0 /\ delivered = {} /\ handling = {}

(* stop(): deactivate the async state, close m_oscServer (a null pointer  *)
(* is dereferenced if init() never ran: the try/catch does not catch      *)
(* that), query_stop() (a no-op), reset the HTTP worker.  The timer and   *)
(* to_client are left as they are.                                         *)
StopProtocol ==
    /\ active' = FALSE
    /\ IF server = "null"
         THEN fault' = "null_deref" /\ UNCHANGED server
         ELSE server' = "closed" /\ UNCHANGED fault
    /\ worker' = FALSE
    /\ running' = FALSE

\* start_http(): a work guard keeps the network context running
StartHttp == worker' = TRUE

\* start_osc(): a new m_oscServer is created, opened and receiving
StartOsc == server' = "open"

(* init(): start_http, start_osc, then send HOST_INFO.  The async state   *)
(* is not touched.                                                         *)
InitProtocol ==
    /\ inits < MaxInits
    /\ inits' = inits + 1
    /\ StartHttp
    /\ StartOsc
    /\ inflight' = inflight \cup {[kind |-> "HostInfo", id |-> inits + 1]}
    /\ running' = TRUE

(* set_device(dev): stop observing the old device's parameters, store     *)
(* the device, init(), observe the new device's parameters.               *)
SetDevice ==
    /\ alive
    /\ hasDevice' = TRUE
    /\ InitProtocol
    /\ UNCHANGED <<handling, values, delivered, alive, active, toClient, timerOn, promise, waiting,
                   updates, parsed, result, fault, lastWrite>>

(* connect(): stop() then init().                                          *)
Connect ==
    /\ alive
    /\ active' = FALSE
    /\ IF server = "null" THEN fault' = "null_deref" ELSE UNCHANGED fault
    /\ InitProtocol
    /\ UNCHANGED <<handling, values, delivered, alive, hasDevice, toClient, timerOn, promise, waiting,
                   updates, parsed, result, lastWrite>>

Stop ==
    /\ alive
    /\ StopProtocol
    /\ UNCHANGED <<handling, values, delivered, alive, hasDevice, inflight, inits, toClient, timerOn,
                   promise, waiting, updates, parsed, result, lastWrite>>

(* The destructor runs stop(); the members, m_timer included, go with it. *)
Destroy ==
    /\ alive /\ waiting = 0
    /\ StopProtocol
    /\ alive' = FALSE
    /\ timerOn' = FALSE
    /\ UNCHANGED <<handling, values, delivered, hasDevice, inflight, inits, toClient, promise, waiting,
                   updates, parsed, result, lastWrite>>

(* update(node) = update_async then wait_for_future(fut, 3s): a fresh     *)
(* promise replaces m_namespacePromise and the namespace request is sent; *)
(* the caller blocks.                                                      *)
UpdateAsync ==
    /\ alive /\ hasDevice /\ waiting = 0
    /\ updates < MaxUpdates
    /\ updates' = updates + 1
    /\ promise' = [id |-> updates + 1, set |-> FALSE]
    /\ inflight' = inflight \cup {[kind |-> "Namespace", id |-> updates + 1]}
    /\ waiting' = updates + 1
    /\ UNCHANGED <<handling, values, delivered, alive, hasDevice, server, worker, active, running, inits,
                   toClient, timerOn, parsed, result, fault, lastWrite>>

(* Mutant of UpdateReady: a return without an outstanding update().       *)
UpdateReadyUnwaited ==
    /\ promise.set
    /\ result' = [id |-> waiting, ready |-> TRUE]
    /\ waiting' = 0
    /\ UNCHANGED <<handling, values, delivered, alive, hasDevice, server, worker, active, running,
                   inflight, inits, toClient, timerOn, promise, updates,
                   parsed, fault, lastWrite>>

(* wait_for_future returns ready: the future of the caller's promise has  *)
(* been set; update() returns true.                                        *)
UpdateReady ==
    /\ waiting # 0 /\ promise.set
    /\ result' = [id |-> waiting, ready |-> TRUE]
    /\ waiting' = 0
    /\ UNCHANGED <<handling, values, delivered, alive, hasDevice, server, worker, active, running,
                   inflight, inits, toClient, timerOn, promise, updates,
                   parsed, fault, lastWrite>>

(* The 3 s deadline passes first: update() returns false.  The request    *)
(* stays in flight and its reply may still come.                          *)
UpdateTimeout ==
    /\ waiting # 0 /\ ~promise.set
    /\ result' = [id |-> waiting, ready |-> FALSE]
    /\ waiting' = 0
    /\ UNCHANGED <<handling, values, delivered, alive, hasDevice, server, worker, active, running,
                   inflight, inits, toClient, timerOn, promise, updates,
                   parsed, fault, lastWrite>>

(* pull(param) and pull_async(param) call request(param): an HTTP GET of  *)
(* the parameter's address with ?VALUE, whose answer holds m_async_state.  *)
(* pull returns false and pull_async an empty future: nobody waits.       *)
Request ==
    /\ alive /\ hasDevice
    /\ values < MaxValues
    /\ values' = values + 1
    /\ inflight' = inflight \cup {[kind |-> "Value", id |-> values + 1]}
    /\ UNCHANGED <<handling, delivered, alive, hasDevice, server, worker, active, running,
                   inits, toClient, timerOn, promise, waiting, updates, parsed,
                   result, fault, lastWrite>>

-----------------------------------------------------------------------------
(* on_text_ws_message, HostInfo: store the host info; for a UDP transport *)
(* emplace to_client and start m_timer with update_function.              *)
OnHostInfo(t) ==
    /\ toClient' = (toClient \/ t = "UDP")
    /\ timerOn' = (timerOn \/ t = "UDP")
    /\ UNCHANGED <<values, delivered, promise, parsed, lastWrite>>

(* on_text_ws_message, Namespace: parse the namespace into the device,    *)
(* then m_namespacePromise.set_value().  On a promise already set this    *)
(* throws future_error, which the handler's catch turns into a warning.   *)
OnNamespace(m) ==
    /\ parsed' = parsed \cup {m.id}
    /\ promise' = [promise EXCEPT !.set = TRUE]
    /\ UNCHANGED <<values, delivered, toClient, timerOn, lastWrite>>

(* on_value_http_message: parse the reply, find the node of the address   *)
(* in m_device and set its parameter's value (on_message), or report it   *)
(* with on_unhandled_message when there is no such node or parameter, or   *)
(* return false on a parse error.  Which happens depends on the device     *)
(* tree and the reply's text; each ends the request.                       *)
OnValue(m) ==
    /\ delivered' = delivered \cup {m.id}
    /\ UNCHANGED <<toClient, timerOn, promise, parsed, lastWrite>>

(* http_async_answer holds m_async_state: a reply that arrives while the  *)
(* state is active is handed to the protocol, whose handler then runs on  *)
(* the network context's thread.  stop() runs on the caller's thread and  *)
(* takes no lock, so it may clear active between this check and the       *)
(* handler: the two are separate steps.                                    *)
ReceiveReply(m) ==
    /\ m \in inflight /\ active
    /\ inflight' = inflight \ {m}
    /\ handling' = handling \cup {m}
    /\ UNCHANGED <<values, delivered, alive, hasDevice, server, worker, active,
                   running, inits, toClient, timerOn, promise, waiting, updates,
                   parsed, result, fault, lastWrite>>

(* The handler of a reply that passed the check: on_text_ws_message or    *)
(* on_value_http_message.  It reads nothing of the async state.            *)
ApplyReply(m) ==
    /\ m \in handling
    /\ handling' = handling \ {m}
    /\ \/ m.kind = "HostInfo" /\ \E t \in Transports : OnHostInfo(t)
       \/ m.kind = "Namespace" /\ OnNamespace(m)
       \/ m.kind = "Value" /\ OnValue(m)
    /\ UNCHANGED <<values, alive, hasDevice, server, worker, active, running, inits,
                   inflight, waiting, updates, result, fault, lastWrite>>

(* A reply that arrives once the async state is inactive is dropped.      *)
DropReply(m) ==
    /\ m \in inflight /\ ~active
    /\ inflight' = inflight \ {m}
    /\ UNCHANGED <<handling, values, delivered, alive, hasDevice, server, worker, active, running, inits,
                   toClient, timerOn, promise, waiting, updates, parsed,
                   result, fault, lastWrite>>

(* The connection fails: http_async_error does nothing, no retry.         *)
LoseReply(m) ==
    /\ m \in inflight
    /\ inflight' = inflight \ {m}
    /\ UNCHANGED <<handling, values, delivered, alive, hasDevice, server, worker, active, running, inits,
                   toClient, timerOn, promise, waiting, updates, parsed,
                   result, fault, lastWrite>>

(* m_timer fires update_function: return without to_client, else         *)
(* recompute_nodes and write one dense packet to to_client.               *)
TimerFire ==
    /\ timerOn /\ toClient
    /\ lastWrite' = IF running THEN "running" ELSE "stopped"
    /\ UNCHANGED <<handling, values, delivered, alive, hasDevice, server, worker, active, running,
                   inflight, inits, toClient, timerOn, promise, waiting,
                   updates, parsed, result, fault>>

-----------------------------------------------------------------------------
Next ==
    \/ SetDevice \/ Connect \/ Stop \/ Destroy
    \/ UpdateAsync \/ UpdateReady \/ UpdateTimeout \/ Request
    \/ \E m \in inflight : ReceiveReply(m) \/ DropReply(m) \/ LoseReply(m)
    \/ \E m \in handling : ApplyReply(m)
    \/ TimerFire

Spec == Init /\ [][Next]_vars

-----------------------------------------------------------------------------
TypeOK ==
    /\ alive \in BOOLEAN /\ hasDevice \in BOOLEAN
    /\ server \in {"null", "open", "closed"}
    /\ worker \in BOOLEAN /\ active \in BOOLEAN /\ running \in BOOLEAN
    /\ inflight \subseteq Reply
    /\ inits \in 0..MaxInits /\ updates \in 0..MaxUpdates
    /\ toClient \in BOOLEAN /\ timerOn \in BOOLEAN
    /\ promise \in [id : 0..MaxUpdates, set : BOOLEAN]
    /\ waiting \in 0..MaxUpdates
    /\ parsed \subseteq 1..MaxUpdates
    /\ result \in [id : 1..MaxUpdates, ready : BOOLEAN] \cup {NoResult}
    /\ fault \in {"none", "null_deref"}
    /\ lastWrite \in {"none", "running", "stopped"}
    /\ values \in 0..MaxValues /\ delivered \subseteq 1..values
    /\ handling \subseteq Reply

(* A reply is applied to the mirror (host info stored, namespace parsed   *)
(* into the device, promise set, a value written to a parameter) only     *)
(* between an init() and the next stop(): this is what m_async_state is   *)
(* for, deactivated by the first line of stop() and of the destructor.    *)
RepliesOnlyWhileRunning ==
    [][\A m \in Reply : ApplyReply(m) => running]_vars

(* stop() is never run on a null m_oscServer: the destructor and connect() *)
(* call stop() whether or not set_device() ever ran init().               *)
NoNullServerDeref == fault = "none"

(* update(node) returns true only if the namespace reply to its own       *)
(* request has been parsed into the device.                                *)
UpdateReadyMeansAnswered == result.ready => result.id \in parsed

(* Once stop() has run, update_function no longer writes packets to the   *)
(* server: stop() shuts the receiver, the query connection and the HTTP   *)
(* worker, and the sender goes with them.                                  *)
NoStreamAfterStop == lastWrite # "stopped"
=============================================================================
