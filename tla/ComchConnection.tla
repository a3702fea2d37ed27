--------------------------- MODULE ComchConnection ---------------------------
(***************************************************************************)
(* The control path of a DOCA Comch connection: the ConnectionHandle of   *)
(* trans/priv/doca/comch/connection.cxx on both sides, the control half of *)
(* its Endpoints (comch/endpoint.cxx, the EndpointBase status machine of   *)
(* trans/common/endpoint.hxx), and the life cycle ConnectionHolder and      *)
(* Worker::run drive them through (trans/common/connection.hxx,            *)
(* native/worker.hxx).                                                     *)
(*                                                                         *)
(* "A" is the active side (a Comch client, param.passive = false), "P" the *)
(* passive one (a Comch server).  Each side owns one handle progress       *)
(* engine (pe) whose events -- context state changes, connection status,   *)
(* new and expired consumers of the peer -- are modelled as a FIFO queue   *)
(* evq[s]; one doca_pe_progress handles one event.  Each Endpoint has its  *)
(* own pe, progressed by whoever holds it (the handle's progress_all_until *)
(* loops or the TransportGuard poller); its steps are the consumer         *)
(* context's start and stop completions.  The data path (messages, DMA)   *)
(* is in Transport; here an Endpoint's pre-posted receive ring is one      *)
(* flag, posted, because it decides whether stopping the consumer is       *)
(* synchronous.  A consumer's DOCA id is its index in pending_endpoints    *)
(* on both sides (both sides associate and prepare in the same order),    *)
(* which is what the consumer_id == remote_consumer_id matching relies on. *)
(***************************************************************************)
EXTENDS Naturals, Sequences, FiniteSets

LOCAL INSTANCE SequencesExt

CONSTANTS NEndpoints     \* endpoints associated with the handle on each side

Sides == {"A", "P"}
Peer(s) == IF s = "A" THEN "P" ELSE "A"
Endpoints == 1..NEndpoints

\* EndpointBase::s
Status == {"Idle", "Ready", "Running", "Stopping", "Exited"}
\* doca_ctx_states, and "none" before Endpoint::prepare creates the consumer
CtxStates == {"idle", "starting", "running", "stopping"}
ConsumerStates == {"none"} \cup CtxStates

\* Where each side's main (or worker) thread is: the handle constructor, the
\* connect / listen_and_accept of establish_connections, the application
\* under the TransportGuard, terminate_connections (disconnect for A, the
\* daemon join for P), the handle destructor, and done.
Phases == {"ctor", "connect", "app", "disconnect", "join", "dtor", "done"}

\* Events of a handle pe: its own context's state changes, connection status
\* changes (server only) and the peer's consumers appearing or expiring.
Event == [kind : {"running", "idle", "connect", "disconnect"}, id : {0}]
           \cup [kind : {"new", "expired"}, id : Endpoints]

\* How the applications use a Comch handle pair: which side serves (keeps a
\* receive ring posted).  dpu_file_spill and the offload "disk" channel
\* (P calls), and the NaiveSpillWorker / LocalSpillWorker servers run by
\* Worker::run (P serves).  Whether P's TransportGuard is still in scope
\* at terminate_connections makes no difference: its poller is a fiber of
\* the thread that blocks in daemon.join().
AppPatterns == {[serves |-> "A"], [serves |-> "P"]}

VARIABLES
  ph,       \* ph[s]: the phase of side s's thread
  srv,      \* srv[s]: state of the side's comch client (A) or server (P) ctx
  conn,     \* conn[s]: ConnectionHandle::conn is set
  evq,      \* evq[s]: events pending on the handle pe
  st,       \* st[s][e]: EndpointBase status of endpoint e
  con,      \* con[s][e]: state of endpoint e's consumer ctx
  cid,      \* cid[s][e]: Endpoint::consumer_id
  posted,   \* posted[s][e]: receive tasks are posted on e's consumer
  daemon,   \* P's wait_for_disconnect thread: "none", "wait", "done"
  app,      \* the application pattern (fixed)
  fatal     \* an assert of EndpointBase / Endpoint has failed

vars == <<ph, srv, conn, evq, st, con, cid, posted, daemon, app, fatal>>

Ev(k) == [kind |-> k, id |-> 0]

(***************************************************************************)
(* ConnectionHandle predicates                                             *)
(***************************************************************************)
established(s) == srv[s] = "running" /\ (s = "P" => conn[s])
terminated(s) == srv[s] = "idle"
all_running(s) == \A e \in Endpoints : st[s][e] = "Running"
all_exited(s) == \A e \in Endpoints : st[s][e] = "Exited"

\* Some thread is inside a loop that calls doca_pe_progress on the handle
\* pe: the constructor's progress(_all)_until(established), connect /
\* listen_and_accept, disconnect, the destructor, and P's daemon.
HandleProgressed(s) ==
  \/ ph[s] = "ctor" /\ ~established(s)
  \/ ph[s] = "connect" /\ ~all_running(s)
  \/ ph[s] = "disconnect" /\ ~all_exited(s)
  \/ ph[s] = "dtor" /\ ~terminated(s)
  \/ s = "P" /\ daemon = "wait"

\* The TransportGuard's poller fiber progresses every endpoint from
\* establish_connections to the end of the application's scope.  During
\* terminate_connections it cannot run even where the guard is still in
\* scope (Worker::run): std::thread::join blocks every fiber of the thread.
GuardAlive(s) == ph[s] = "app"

\* Some thread calls Endpoint::progress: the guard's poller, or the
\* for_each_endpoint(e.progress()) of progress_all_until.
EndpointProgressed(s) ==
  \/ GuardAlive(s)
  \/ ph[s] = "connect" /\ ~all_running(s)
  \/ ph[s] = "disconnect" /\ ~all_exited(s)

\* Mutant: the expired event reports consumer_id after stop cleared it.
ExpiredEvents_reset(S) == [i \in 1..Cardinality(S) |-> [kind |-> "expired", id |-> 0]]

\* The expired-consumer events a side's peer receives for the consumers in S,
\* in pending_endpoints order.
ExpiredEvents(S) ==
  LET ids == SetToSortSeq(S, <)
  IN [i \in 1..Len(ids) |-> [kind |-> "expired", id |-> ids[i]]]

\* Endpoint::stop on the endpoints S of side s, with q the side's own event
\* queue after this step: EndpointBase::stop (assert running), then the
\* producer, then under con_mu consumer_id = 0 and the consumer ctx stop.
\* A running consumer with nothing posted stops at once: its state callback
\* runs EndpointBase::shutdown (Exited) and the peer learns of the expired
\* consumer.  Posted tasks (or a consumer still starting) make the stop
\* DOCA_ERROR_IN_PROGRESS, finished later by the endpoint pe.
Stop(s, S, q) ==
  LET sync == {e \in S : con[s][e] = "running" /\ ~posted[s][e]}
  IN /\ fatal' = (fatal \/ \E e \in S : st[s][e] # "Running")
     /\ st' = [st EXCEPT ![s] = [e \in Endpoints |->
                 IF e \in sync THEN "Exited"
                 ELSE IF e \in S THEN "Stopping" ELSE st[s][e]]]
     /\ con' = [con EXCEPT ![s] = [e \in Endpoints |->
                 IF e \in sync THEN "idle"
                 ELSE IF e \in S THEN "stopping" ELSE con[s][e]]]
     /\ cid' = [cid EXCEPT ![s] = [e \in Endpoints |->
                 IF e \in S THEN 0 ELSE cid[s][e]]]
     /\ evq' = [evq EXCEPT ![s] = q, ![Peer(s)] = @ \o ExpiredEvents(sync)]

(***************************************************************************)
(* Initial state: both handle constructors have created their pe and ctx. *)
(* The server ctx starts synchronously; the client's start returns         *)
(* DOCA_ERROR_IN_PROGRESS.                                                 *)
(***************************************************************************)
Init ==
  /\ ph = [s \in Sides |-> "ctor"]
  /\ srv = [s \in Sides |-> IF s = "P" THEN "running" ELSE "starting"]
  /\ conn = [s \in Sides |-> FALSE]
  /\ evq = [s \in Sides |-> <<>>]
  /\ st = [s \in Sides |-> [e \in Endpoints |-> "Idle"]]
  /\ con = [s \in Sides |-> [e \in Endpoints |-> "none"]]
  /\ cid = [s \in Sides |-> [e \in Endpoints |-> 0]]
  /\ posted = [s \in Sides |-> [e \in Endpoints |-> FALSE]]
  /\ daemon = "none"
  /\ app \in AppPatterns
  /\ fatal = FALSE

(***************************************************************************)
(* DOCA: the client reaches the server.  The client ctx will report        *)
(* RUNNING on its pe, the server reports the new connection on its pe.     *)
(***************************************************************************)
ClientConnected ==
  /\ srv["A"] = "starting"
  /\ Ev("running") \notin ToSet(evq["A"])
  /\ evq' = [evq EXCEPT !["A"] = Append(@, Ev("running")),
                        !["P"] = Append(@, Ev("connect"))]
  /\ UNCHANGED <<ph, srv, conn, st, con, cid, posted, daemon, app, fatal>>

\* DOCA: a stopping client or server ctx becomes idle; a client's going away
\* is a disconnection on the server.
CtxStopped(s) ==
  /\ srv[s] = "stopping"
  /\ Ev("idle") \notin ToSet(evq[s])
  /\ evq' = [evq EXCEPT ![s] = Append(@, Ev("idle")),
                        ![Peer(s)] = IF s = "A" THEN Append(@, Ev("disconnect")) ELSE @]
  /\ UNCHANGED <<ph, srv, conn, st, con, cid, posted, daemon, app, fatal>>

(***************************************************************************)
(* One doca_pe_progress of the handle pe: the head event's callback.       *)
(***************************************************************************)
Deliver(s, kinds) ==
  /\ HandleProgressed(s)
  /\ evq[s] # <<>>
  /\ Head(evq[s]).kind \in kinds

\* server_state_change_cb / client_state_change_cb (they only log; the ctx
\* state they report is what established() and terminated() read)
ctx_state_change_cb(s) ==
  /\ Deliver(s, {"running", "idle"})
  /\ srv' = [srv EXCEPT ![s] = Head(evq[s]).kind]
  /\ evq' = [evq EXCEPT ![s] = Tail(@)]
  /\ UNCHANGED <<ph, conn, st, con, cid, posted, daemon, app, fatal>>

\* connect_event_cb: keep the first connection, warn about any other
connect_event_cb(s) ==
  /\ Deliver(s, {"connect"})
  /\ conn' = [conn EXCEPT ![s] = TRUE]
  /\ evq' = [evq EXCEPT ![s] = Tail(@)]
  /\ UNCHANGED <<ph, srv, st, con, cid, posted, daemon, app, fatal>>

\* disconnect_event_cb: forget the connection
disconnect_event_cb(s) ==
  /\ Deliver(s, {"disconnect"})
  /\ conn' = [conn EXCEPT ![s] = FALSE]
  /\ evq' = [evq EXCEPT ![s] = Tail(@)]
  /\ UNCHANGED <<ph, srv, st, con, cid, posted, daemon, app, fatal>>

\* The endpoints whose consumer_id equals the event's remote consumer id.
Matching(s, id) == {e \in Endpoints : cid[s][e] = id}

\* Mutant: the new-consumer callback runs every pending endpoint.
new_consumer_event_cb_noid(s) ==
  /\ Deliver(s, {"new"})
  /\ LET run == IF conn[s] THEN Endpoints ELSE {}
     IN /\ fatal' = (fatal \/ \E e \in run : st[s][e] # "Ready")
        /\ st' = [st EXCEPT ![s] = [e \in Endpoints |->
                    IF e \in run THEN "Running" ELSE st[s][e]]]
  /\ evq' = [evq EXCEPT ![s] = Tail(@)]
  /\ UNCHANGED <<ph, srv, conn, con, cid, posted, daemon, app>>

\* server_/client_new_consumer_event_cb: ignored without the connection;
\* otherwise Endpoint::run of every matching endpoint (assert ready).
new_consumer_event_cb(s) ==
  /\ Deliver(s, {"new"})
  /\ LET run == IF conn[s] THEN Matching(s, Head(evq[s]).id) ELSE {}
     IN /\ fatal' = (fatal \/ \E e \in run : st[s][e] # "Ready")
        /\ st' = [st EXCEPT ![s] = [e \in Endpoints |->
                    IF e \in run THEN "Running" ELSE st[s][e]]]
  /\ evq' = [evq EXCEPT ![s] = Tail(@)]
  /\ UNCHANGED <<ph, srv, conn, con, cid, posted, daemon, app>>

\* Mutant: the expired-consumer callback stops every running endpoint.
expired_consumer_event_cb_noid(s) ==
  /\ Deliver(s, {"expired"})
  /\ Stop(s, IF conn[s] THEN {e \in Endpoints : st[s][e] = "Running"} ELSE {}, Tail(evq[s]))
  /\ UNCHANGED <<ph, srv, conn, posted, daemon, app>>

\* server_/client_expired_consumer_event_cb: ignored without the
\* connection; otherwise Endpoint::stop of every matching endpoint.
expired_consumer_event_cb(s) ==
  /\ Deliver(s, {"expired"})
  /\ Stop(s, IF conn[s] THEN Matching(s, Head(evq[s]).id) ELSE {}, Tail(evq[s]))
  /\ UNCHANGED <<ph, srv, conn, posted, daemon, app>>

(***************************************************************************)
(* The side's own thread                                                   *)
(***************************************************************************)
\* Mutant: prepare does not read the consumer's id (consumer_id stays 0).
Connect_noid(s) ==
  /\ ph[s] = "ctor"
  /\ established(s)
  /\ ph' = [ph EXCEPT ![s] = "connect"]
  /\ conn' = [conn EXCEPT ![s] = TRUE]
  /\ fatal' = (fatal \/ \E e \in Endpoints : st[s][e] # "Idle")
  /\ st' = [st EXCEPT ![s] = [e \in Endpoints |-> "Ready"]]
  /\ con' = [con EXCEPT ![s] = [e \in Endpoints |-> "starting"]]
  /\ UNCHANGED <<srv, evq, cid, posted, daemon, app>>

\* The constructor's loop sees established() (the client then fetches its
\* connection), and establish_connections runs connect / listen_and_accept:
\* Endpoint::prepare of every endpoint -- consumer created and started
\* (DOCA_ERROR_IN_PROGRESS), consumer_id read from DOCA, producer and DMA
\* started, EndpointBase::prepare (assert idle, Ready).
Connect(s) ==
  /\ ph[s] = "ctor"
  /\ established(s)
  /\ ph' = [ph EXCEPT ![s] = "connect"]
  /\ conn' = [conn EXCEPT ![s] = TRUE]
  /\ fatal' = (fatal \/ \E e \in Endpoints : st[s][e] # "Idle")
  /\ st' = [st EXCEPT ![s] = [e \in Endpoints |-> "Ready"]]
  /\ con' = [con EXCEPT ![s] = [e \in Endpoints |-> "starting"]]
  /\ cid' = [cid EXCEPT ![s] = [e \in Endpoints |-> e]]
  /\ UNCHANGED <<srv, evq, posted, daemon, app>>

\* progress_all_until(all_running) returns; the passive side spawns the
\* daemon thread running wait_for_disconnect; the TransportGuard is made.
Connected(s) ==
  /\ ph[s] = "connect"
  /\ all_running(s)
  /\ ph' = [ph EXCEPT ![s] = "app"]
  /\ daemon' = IF s = "P" THEN "wait" ELSE daemon
  /\ UNCHANGED <<srv, conn, evq, st, con, cid, posted, app, fatal>>

\* The serving side keeps receive tasks posted (Endpoint::post_recv, which
\* posts only while the consumer runs).
post_recv(s, e) ==
  /\ ph[s] = "app"
  /\ app.serves = s
  /\ con[s][e] = "running"
  /\ ~posted[s][e]
  /\ posted' = [posted EXCEPT ![s][e] = TRUE]
  /\ UNCHANGED <<ph, srv, conn, evq, st, con, cid, daemon, app, fatal>>

\* The application's work ends and terminate_connections starts: the active
\* side's ConnectionHandle::disconnect stops every endpoint; the passive
\* side joins the daemon.  A caller has no receive posted here: every call
\* waited for its response.  A side's application is assumed to end only
\* once its own consumers have started: connect and listen_and_accept return when
\* the peer's consumers do, and what DOCA reports for a consumer stopped
\* while still starting is not documented.
AppDone(s) ==
  /\ ph[s] = "app"
  /\ \A e \in Endpoints : con[s][e] # "starting"
  /\ \/ /\ s = "A"
        /\ ph' = [ph EXCEPT !["A"] = "disconnect"]
        /\ Stop("A", Endpoints, evq["A"])
        /\ UNCHANGED <<srv, conn, posted, daemon, app>>
     \/ /\ s = "P"
        /\ ph' = [ph EXCEPT !["P"] = "join"]
        /\ UNCHANGED <<srv, conn, evq, st, con, cid, posted, daemon, app, fatal>>

\* disconnect's progress_all_until(all_exited) returns; the handle's
\* destructor stops the client ctx (DOCA_ERROR_IN_PROGRESS accepted).
Disconnected ==
  /\ ph["A"] = "disconnect"
  /\ all_exited("A")
  /\ ph' = [ph EXCEPT !["A"] = "dtor"]
  /\ srv' = [srv EXCEPT !["A"] = "stopping"]
  /\ UNCHANGED <<conn, evq, st, con, cid, posted, daemon, app, fatal>>

\* wait_for_disconnect sees all_exited() after its epoll round and returns.
DaemonExit ==
  /\ daemon = "wait"
  /\ all_exited("P")
  /\ daemon' = "done"
  /\ UNCHANGED <<ph, srv, conn, evq, st, con, cid, posted, app, fatal>>

\* daemon.join() returns; the destructor stops the server ctx.
Joined ==
  /\ ph["P"] = "join"
  /\ daemon = "done"
  /\ ph' = [ph EXCEPT !["P"] = "dtor"]
  /\ srv' = [srv EXCEPT !["P"] = "stopping"]
  /\ UNCHANGED <<conn, evq, st, con, cid, posted, daemon, app, fatal>>

\* progress_until(terminated) returns; the ctx, the client or server and
\* the pe are destroyed.
Destroyed(s) ==
  /\ ph[s] = "dtor"
  /\ terminated(s)
  /\ ph' = [ph EXCEPT ![s] = "done"]
  /\ UNCHANGED <<srv, conn, evq, st, con, cid, posted, daemon, app, fatal>>

\* A progress loop finds no event and sleeps (1 ms, 1 s, or the daemon's
\* one-second epoll timeout).
Spin(s) ==
  /\ HandleProgressed(s)
  /\ evq[s] = <<>>
  /\ UNCHANGED vars

\* Both handles are gone.
Terminated ==
  /\ \A s \in Sides : ph[s] = "done"
  /\ UNCHANGED vars

(***************************************************************************)
(* One Endpoint::progress                                                  *)
(***************************************************************************)
\* The consumer ctx reaches RUNNING; the peer's handle hears of the new
\* consumer.
ConsumerStarted(s, e) ==
  /\ EndpointProgressed(s)
  /\ con[s][e] = "starting"
  /\ con' = [con EXCEPT ![s][e] = "running"]
  /\ evq' = [evq EXCEPT ![Peer(s)] = Append(@, [kind |-> "new", id |-> e])]
  /\ UNCHANGED <<ph, srv, conn, st, cid, posted, daemon, app, fatal>>

\* A stopping consumer's posted tasks are flushed (task_cb finds the
\* endpoint not running and frees them) and it reaches IDLE:
\* consumer_state_change_cb runs EndpointBase::shutdown (assert stopping,
\* Exited); the peer's handle hears the consumer expired.
ConsumerStopped(s, e) ==
  /\ EndpointProgressed(s)
  /\ con[s][e] = "stopping"
  /\ con' = [con EXCEPT ![s][e] = "idle"]
  /\ posted' = [posted EXCEPT ![s][e] = FALSE]
  /\ fatal' = (fatal \/ st[s][e] # "Stopping")
  /\ st' = [st EXCEPT ![s][e] = "Exited"]
  /\ evq' = [evq EXCEPT ![Peer(s)] = Append(@, [kind |-> "expired", id |-> e])]
  /\ UNCHANGED <<ph, srv, conn, cid, daemon, app>>

(***************************************************************************)
(* Specification                                                           *)
(***************************************************************************)
HandleStep(s) ==
  \/ ctx_state_change_cb(s)
  \/ connect_event_cb(s)
  \/ disconnect_event_cb(s)
  \/ new_consumer_event_cb(s)
  \/ expired_consumer_event_cb(s)

EndpointStep(s) == \E e \in Endpoints : ConsumerStarted(s, e) \/ ConsumerStopped(s, e)

Next ==
  \/ ClientConnected
  \/ \E s \in Sides :
       \/ CtxStopped(s)
       \/ HandleStep(s)
       \/ EndpointStep(s)
       \/ Connect(s)
       \/ Connected(s)
       \/ \E e \in Endpoints : post_recv(s, e)
       \/ AppDone(s)
       \/ Destroyed(s)
       \/ Spin(s)
  \/ Disconnected
  \/ DaemonExit
  \/ Joined
  \/ Terminated

\* Every loop keeps calling progress and every thread keeps running; only
\* the application decides when its own work ends.
Fairness ==
  /\ WF_vars(ClientConnected)
  /\ \A s \in Sides :
       /\ WF_vars(CtxStopped(s))
       /\ WF_vars(HandleStep(s))
       /\ WF_vars(EndpointStep(s))
       /\ WF_vars(Connect(s))
       /\ WF_vars(Connected(s))
       /\ WF_vars(Destroyed(s))
  /\ WF_vars(Disconnected)
  /\ WF_vars(DaemonExit)
  /\ WF_vars(Joined)

Spec == Init /\ [][Next]_vars /\ Fairness

(***************************************************************************)
(* Properties                                                              *)
(***************************************************************************)
\* Every variable keeps its type; every queued event names a real consumer.
TypeOK ==
  /\ ph \in [Sides -> Phases]
  /\ srv \in [Sides -> CtxStates]
  /\ conn \in [Sides -> BOOLEAN]
  /\ evq \in [Sides -> Seq(Event)]
  /\ st \in [Sides -> [Endpoints -> Status]]
  /\ con \in [Sides -> [Endpoints -> ConsumerStates]]
  /\ cid \in [Sides -> [Endpoints -> 0..NEndpoints]]
  /\ posted \in [Sides -> [Endpoints -> BOOLEAN]]
  /\ daemon \in {"none", "wait", "done"}
  /\ app \in AppPatterns
  /\ fatal \in BOOLEAN

\* No assert of the endpoint status machine fails: new- and expired-consumer
\* callbacks only ever run a Ready endpoint and stop a Running one, however
\* the two sides' events interleave with disconnect and the daemon.
NoFatal == ~fatal

\* The two sides' endpoints are paired by consumer id: an endpoint runs
\* only once the peer's consumer with its id has started, and the passive
\* side stops an endpoint only after the active side's endpoint of the
\* same id has exited (teardown is driven by the active side's disconnect).
EndpointPairing ==
  \A e \in Endpoints :
    /\ \A s \in Sides : st[s][e] = "Running" => con[Peer(s)][e] \notin {"none", "starting"}
    /\ st["P"][e] \in {"Stopping", "Exited"} => st["A"][e] = "Exited"

\* The handle constructors and establish_connections return on both sides:
\* no new-consumer event is lost, so every endpoint reaches Running.
EstablishReturns == <>(\A s \in Sides : ph[s] \notin {"ctor", "connect"})

====
