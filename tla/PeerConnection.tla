--------------------------- MODULE PeerConnection ---------------------------
(***************************************************************************)
(* The TCP and DOCA RDMA ConnectionHandles of src/lib/trans/priv: how an   *)
(* active side (connect, disconnect) and a passive side (listen_and_accept *)
(* and the wait_for_disconnect daemon that ConnectionHolder spawns) set up *)
(* and tear down the paths of their associated endpoints.                  *)
(*                                                                         *)
(* TCP: the passive side listens with a backlog of pending_endpoints + 1   *)
(* and accepts the connection-management socket, then an rpc and a bulk    *)
(* socket per endpoint; the active side connects them in the same order,   *)
(* each through setup_and_bind_and_connect, which retries a refused        *)
(* connect ten times and then dies.  The kernel queues completed           *)
(* connections in arrival order, which is what pairs socket k on one side  *)
(* with socket k on the other.  Teardown is a one-byte handshake on the    *)
(* management socket: the active side writes, the daemon stops its         *)
(* endpoints and answers, the active side stops its own.                   *)
(*                                                                         *)
(* DOCA RDMA: one management socket (listen backlog 0), then per endpoint  *)
(* prepare and an exchange of exported connection descriptors over it, the *)
(* ctrl path's and, with enable_data_path, the data path's: the passive    *)
(* side reads and then writes, the active side writes and then reads.      *)
(* Teardown is one byte with no answer; Endpoint::shutdown is never called.*)
(*                                                                         *)
(* A slot names a path: <<0, "conn">> the management socket, <<k, "ctrl">> *)
(* endpoint k's rpc socket or ctrl path, <<k, "data">> its bulk socket or  *)
(* data path.  link records, per side, which peer slot each local slot got *)
(* connected to: the accepted socket for TCP, the imported descriptor for  *)
(* RDMA.                                                                   *)
(***************************************************************************)
EXTENDS Naturals, Sequences

CONSTANTS NEndpoints     \* endpoints associated with each handle

Sides == {"A", "P"}
Endpoints == 1..NEndpoints
Backends == {"tcp", "rdma"}
Status == {"Idle", "Ready", "Running", "Stopping", "Exited"}
Conn == <<0, "conn">>
Slots == {Conn} \cup (Endpoints \X {"ctrl", "data"})

\* setup_and_bind_and_connect gives up when its count reaches 10.
ConnectTries == 10

VARIABLES
  backend,    \* which ConnectionHandle both sides use
  datapath,   \* rdma::Endpoint::enable_data_path (TCP always has a bulk socket)
  pc,         \* pc.A, pc.P: the two main threads; pc.D: the passive daemon
  pos,        \* pos[s]: index, in SlotAt order, of the slot side s works on
  est,        \* est[s][e]: EndpointBase::s of endpoint e on side s
  listening,  \* the passive side's listen socket: "none", "open", "closed"
  acceptq,    \* connections the kernel completed and accept has not taken
  chan,       \* chan[s]: messages in flight on the management socket to s
  tries,      \* count of the active side's current setup_and_bind_and_connect
  link,       \* <<side, local slot, peer slot>> of every established path
  died        \* the active side died with "Stop trying to connect"

pvars == <<backend, datapath, pc, pos, est, listening, acceptq, chan, tries, link, died>>

\* A data path exists only when the endpoint was built with enable_data_path.
PerEp == IF datapath THEN 2 ELSE 1

NSlots == 1 + NEndpoints * PerEp

\* Both sides walk pending_endpoints in the same order, ctrl (rpc) path
\* before data (bulk) path, after the management socket.
SlotAt(i) ==
  IF i = 1 THEN Conn
  ELSE <<(i - 2) \div PerEp + 1, IF (i - 2) % PerEp = 0 THEN "ctrl" ELSE "data">>

\* SlotAt(i) is the last path of its endpoint: e.run() follows it.
EpDone(i) == i > 1 /\ (i - 1) % PerEp = 0

\* EndpointBase::run of the endpoint whose last path is SlotAt(i).
RunAt(E, s, i) == IF EpDone(i) THEN [E EXCEPT ![s][SlotAt(i)[1]] = "Running"] ELSE E

\* rdma::Endpoint::prepare starts the ctxs and moves Idle -> Ready; it runs
\* before the endpoint's ctrl descriptor is exchanged.
prepare(s, i) ==
  IF SlotAt(i)[2] = "ctrl" THEN [est EXCEPT ![s][SlotAt(i)[1]] = "Ready"] ELSE est

\* write_string(_with_header) puts a whole message on the stream;
\* read_string(_with_header) blocks until one is there and takes it.
Desc(sl) == [kind |-> "desc", slot |-> sl]
Byte == [kind |-> "byte", slot |-> Conn]
Send(C, s, m) == [C EXCEPT ![s] = Append(@, m)]
\* read_string: ::read in a loop until len bytes are in (the reader blocks
\* while side s's stream is empty); the message leaves the stream.
read_string(C, s) == [C EXCEPT ![s] = Tail(@)]

\* Listen backlog: pending_endpoints.size() + 1 for TCP, 0 for the RDMA
\* management socket; the kernel queues one connection past it.
Backlog == IF backend = "tcp" THEN NEndpoints + 1 ELSE 0
AcceptQCap == Backlog + 1

\* tcp::Endpoint::stop closes both sockets and stops; the handle then
\* calls shutdown.
tcp_stop(s) == [est EXCEPT ![s] = [e \in Endpoints |-> "Exited"]]

\* rdma::Endpoint::stop stops the ctxs and the endpoint; nothing calls
\* shutdown.
rdma_stop(s) == [est EXCEPT ![s] = [e \in Endpoints |-> "Stopping"]]

Init ==
  /\ backend \in Backends
  /\ datapath \in IF backend = "tcp" THEN {TRUE} ELSE BOOLEAN
  /\ pc = [A |-> "connect", P |-> "listen", D |-> "none"]
  /\ pos = [s \in Sides |-> 1]
  \* tcp::Endpoint's constructor already calls prepare.
  /\ est = [s \in Sides |-> [e \in Endpoints |-> IF backend = "tcp" THEN "Ready" ELSE "Idle"]]
  /\ listening = "none"
  /\ acceptq = <<>>
  /\ chan = [s \in Sides |-> <<>>]
  /\ tries = 0
  /\ link = {}
  /\ died = FALSE

(***************************************************************************)
(* Active side                                                             *)
(***************************************************************************)
\* One successful connect() of setup_and_bind_and_connect: the kernel
\* completes the handshake and queues the connection for accept.  TCP's
\* connect runs the endpoint after its bulk socket; RDMA's goes on to the
\* descriptor exchange.
connect ==
  /\ pc.A = "connect"
  /\ listening = "open"
  /\ Len(acceptq) < AcceptQCap
  /\ acceptq' = Append(acceptq, SlotAt(pos["A"]))
  /\ tries' = 0
  /\ IF backend = "tcp"
       THEN /\ est' = RunAt(est, "A", pos["A"])
            /\ pos' = [pos EXCEPT !["A"] = @ + 1]
            /\ pc' = [pc EXCEPT !.A = IF pos["A"] = NSlots THEN "app" ELSE "connect"]
       ELSE /\ pos' = [pos EXCEPT !["A"] = 2]
            /\ pc' = [pc EXCEPT !.A = "xchg"]
            /\ UNCHANGED est
  /\ UNCHANGED <<backend, datapath, listening, chan, link, died>>

\* A refused connect(): nobody listens.  The tenth refusal dies.
ConnectRefused ==
  /\ pc.A = "connect"
  /\ listening # "open"
  /\ tries' = tries + 1
  /\ IF tries + 1 = ConnectTries
       THEN died' = TRUE /\ pc' = [pc EXCEPT !.A = "dead"]
       ELSE UNCHANGED <<died, pc>>
  /\ UNCHANGED <<backend, datapath, pos, est, listening, acceptq, chan, link>>

\* exchange_desc(..., passive = false), first half: prepare (for a ctrl
\* path) and write the local descriptor.
ExportDesc ==
  /\ pc.A = "xchg"
  /\ est' = prepare("A", pos["A"])
  /\ chan' = Send(chan, "P", Desc(SlotAt(pos["A"])))
  /\ pc' = [pc EXCEPT !.A = "await"]
  /\ UNCHANGED <<backend, datapath, pos, listening, acceptq, tries, link, died>>

\* Second half: read the peer's descriptor, doca_rdma_connect to it, and
\* run the endpoint after its last path.
ImportDesc ==
  /\ pc.A = "await"
  /\ chan["A"] # <<>>
  /\ link' = link \cup {<<"A", SlotAt(pos["A"]), Head(chan["A"]).slot>>}
  /\ chan' = read_string(chan, "A")
  /\ est' = RunAt(est, "A", pos["A"])
  /\ pos' = [pos EXCEPT !["A"] = @ + 1]
  /\ pc' = [pc EXCEPT !.A = IF pos["A"] = NSlots THEN "app" ELSE "xchg"]
  /\ UNCHANGED <<backend, datapath, listening, acceptq, tries, died>>

\* The application's work ends and terminate_connections calls disconnect:
\* TCP writes "x" and waits for the answer; RDMA writes "0" and stops its
\* endpoints at once.
disconnect ==
  /\ pc.A = "app"
  /\ chan' = Send(chan, "P", Byte)
  /\ IF backend = "tcp"
       THEN pc' = [pc EXCEPT !.A = "read_ack"] /\ UNCHANGED est
       ELSE pc' = [pc EXCEPT !.A = "done"] /\ est' = rdma_stop("A")
  /\ UNCHANGED <<backend, datapath, pos, listening, acceptq, tries, link, died>>

\* TCP disconnect: the answer arrives; stop and shut down every endpoint.
DisconnectAcked ==
  /\ pc.A = "read_ack"
  /\ chan["A"] # <<>>
  /\ chan' = read_string(chan, "A")
  /\ est' = tcp_stop("A")
  /\ pc' = [pc EXCEPT !.A = "done"]
  /\ UNCHANGED <<backend, datapath, pos, listening, acceptq, tries, link, died>>

(***************************************************************************)
(* Passive side                                                            *)
(***************************************************************************)
\* setup_and_bind and listen (TCP), or the listen of
\* setup_and_bind_and_listen_and_accept (RDMA).
Listen ==
  /\ pc.P = "listen"
  /\ listening' = "open"
  /\ pc' = [pc EXCEPT !.P = "accept"]
  /\ UNCHANGED <<backend, datapath, pos, est, acceptq, chan, tries, link, died>>

\* Daemon spawned by establish_connections once listen_and_accept returns.
Serving(at) == [pc EXCEPT !.P = at, !.D = "read"]

\* Mutant: listen_and_accept takes the bulk socket before the rpc socket.
Swapped(sl) == IF sl[2] = "ctrl" THEN <<sl[1], "data">> ELSE IF sl[2] = "data" THEN <<sl[1], "ctrl">> ELSE sl
accept_swapped ==
  /\ pc.P = "accept"
  /\ acceptq # <<>>
  /\ link' = link \cup {<<"P", Swapped(SlotAt(pos["P"])), Head(acceptq)>>}
  /\ acceptq' = Tail(acceptq)
  /\ IF backend = "tcp"
       THEN /\ est' = RunAt(est, "P", pos["P"])
            /\ pos' = [pos EXCEPT !["P"] = @ + 1]
            /\ IF pos["P"] = NSlots
                 THEN listening' = "closed" /\ pc' = Serving("serve")
                 ELSE UNCHANGED <<listening, pc>>
       ELSE /\ listening' = "closed"
            /\ pos' = [pos EXCEPT !["P"] = 2]
            /\ pc' = [pc EXCEPT !.P = "xchg"]
            /\ UNCHANGED est
  /\ UNCHANGED <<backend, datapath, chan, tries, died>>

\* One accept(): the socket takes the slot the loop is at.  TCP runs the
\* endpoint after its bulk socket and closes the listen socket after the
\* last; RDMA closes it after the single management socket.
accept ==
  /\ pc.P = "accept"
  /\ acceptq # <<>>
  /\ link' = link \cup {<<"P", SlotAt(pos["P"]), Head(acceptq)>>}
  /\ acceptq' = Tail(acceptq)
  /\ IF backend = "tcp"
       THEN /\ est' = RunAt(est, "P", pos["P"])
            /\ pos' = [pos EXCEPT !["P"] = @ + 1]
            /\ IF pos["P"] = NSlots
                 THEN listening' = "closed" /\ pc' = Serving("serve")
                 ELSE UNCHANGED <<listening, pc>>
       ELSE /\ listening' = "closed"
            /\ pos' = [pos EXCEPT !["P"] = 2]
            /\ pc' = [pc EXCEPT !.P = "xchg"]
            /\ UNCHANGED est
  /\ UNCHANGED <<backend, datapath, chan, tries, died>>

\* exchange_desc(..., passive = true) after prepare: read the peer's
\* descriptor, then write the local one; run the endpoint after its last
\* path and spawn the daemon after the last endpoint.
AnswerDesc ==
  /\ pc.P = "xchg"
  /\ chan["P"] # <<>>
  /\ link' = link \cup {<<"P", SlotAt(pos["P"]), Head(chan["P"]).slot>>}
  /\ chan' = Send(read_string(chan, "P"), "A", Desc(SlotAt(pos["P"])))
  /\ est' = RunAt(prepare("P", pos["P"]), "P", pos["P"])
  /\ pos' = [pos EXCEPT !["P"] = @ + 1]
  /\ pc' = IF pos["P"] = NSlots THEN Serving("serve") ELSE pc
  /\ UNCHANGED <<backend, datapath, listening, acceptq, tries, died>>

\* Mutant: the TCP daemon stops its endpoints but never writes the answer.
wait_for_disconnect_noack ==
  /\ pc.D = "read"
  /\ chan["P"] # <<>>
  /\ chan' = read_string(chan, "P")
  /\ est' = IF backend = "tcp" THEN tcp_stop("P") ELSE rdma_stop("P")
  /\ pc' = [pc EXCEPT !.D = "exit"]
  /\ UNCHANGED <<backend, datapath, pos, listening, acceptq, tries, link, died>>

\* wait_for_disconnect: read one byte, stop the endpoints; TCP also shuts
\* them down and answers "x".
wait_for_disconnect ==
  /\ pc.D = "read"
  /\ chan["P"] # <<>>
  /\ chan' = IF backend = "tcp"
               THEN Send(read_string(chan, "P"), "A", Byte)
               ELSE read_string(chan, "P")
  /\ est' = IF backend = "tcp" THEN tcp_stop("P") ELSE rdma_stop("P")
  /\ pc' = [pc EXCEPT !.D = "exit"]
  /\ UNCHANGED <<backend, datapath, pos, listening, acceptq, tries, link, died>>

\* The passive application's serve loop ends once its endpoints stop, and
\* terminate_connections joins the daemon.
Joined ==
  /\ pc.P = "serve"
  /\ pc.D = "exit"
  /\ pc' = [pc EXCEPT !.P = "done"]
  /\ UNCHANGED <<backend, datapath, pos, est, listening, acceptq, chan, tries, link, died>>

\* Both programs have finished, or the active one died.
Halted == died \/ (pc.A = "done" /\ pc.P = "done")

Terminated == Halted /\ UNCHANGED pvars

ActiveStep == connect \/ ConnectRefused \/ ExportDesc \/ ImportDesc \/ disconnect \/ DisconnectAcked
PassiveStep == Listen \/ accept \/ AnswerDesc \/ Joined

Next == ActiveStep \/ PassiveStep \/ wait_for_disconnect \/ Terminated

\* Every thread keeps running; the applications' work is finite (every
\* user of ConnectionHolder calls terminate_connections after it).
Fairness ==
  /\ WF_pvars(ActiveStep)
  /\ WF_pvars(PassiveStep)
  /\ WF_pvars(wait_for_disconnect)

Spec == Init /\ [][Next]_pvars /\ Fairness

(***************************************************************************)
(* Properties                                                              *)
(***************************************************************************)
\* Every variable keeps its type.
TypeOK ==
  /\ backend \in Backends
  /\ datapath \in BOOLEAN
  /\ pc.A \in {"connect", "xchg", "await", "app", "read_ack", "done", "dead"}
  /\ pc.P \in {"listen", "accept", "xchg", "serve", "done"}
  /\ pc.D \in {"none", "read", "exit"}
  /\ pos \in [Sides -> 1..NSlots + 1]
  /\ est \in [Sides -> [Endpoints -> Status]]
  /\ listening \in {"none", "open", "closed"}
  /\ acceptq \in Seq(Slots)
  /\ tries \in 0..ConnectTries
  /\ link \subseteq Sides \X Slots \X Slots
  /\ died \in BOOLEAN

\* Paths pair up: every socket the passive side accepts, and every RDMA
\* path either side connects, is joined to the peer's socket or descriptor
\* of the same endpoint and the same path (listen_and_accept and connect
\* rely on the kernel's accept order and on both loops walking the same
\* order; exchange_desc on the stream keeping the descriptors in order).
PathsPaired == \A l \in link : l[2] = l[3]

\* Both handles get through setup and teardown: no exchange or handshake
\* leaves a side blocked in a read, unless the active side has given up
\* connecting.
PeerCompletes == <>Halted

====
