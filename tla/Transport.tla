------------------------------ MODULE Transport ------------------------------
(***************************************************************************)
(* The RPC engine of src/lib/trans/transport.hxx, as it is used by every   *)
(* application of the repository: one process is the caller (its fibers   *)
(* run Transport::call and Transport::oneway) and the peer process serves  *)
(* (Transport::serve_until runs QueueDepth worker fibers, each looping     *)
(* serve_once).  Each side owns a send and a receive BufferPool of as     *)
(* many pieces as its queue depth and one Endpoint; the caller owns the    *)
(* outstanding-call table keyed by sequence number.                        *)
(*                                                                         *)
(* The two endpoints are joined by a reliable FIFO control channel in each *)
(* direction (an RC queue pair, a Comch producer/consumer pair or a TCP    *)
(* stream).  A posted receive is completed by Endpoint::progress with the  *)
(* frame at the head of the channel, receives completing in the order they *)
(* were posted.  Teardown follows the ConnectionHandle of the Backend:     *)
(* the caller disconnects once its fibers are done, the serving side's     *)
(* daemon thread stops its endpoint, and receives still posted on a        *)
(* stopped endpoint are either resolved with 0 (TCP: the peer closed the   *)
(* socket) or dropped by the DOCA task callbacks (Comch, RDMA).            *)
(*                                                                         *)
(* Fibers are cooperative: a step of a fiber runs from one suspension      *)
(* point (a future's get/wait_for or a yield in a buffer acquire loop) to  *)
(* the next, so each action below is one such atomic stretch.             *)
(***************************************************************************)
EXTENDS Naturals, Sequences, FiniteSets, Functions

CONSTANTS
    Callers,         \* caller fibers of the calling process
    CallerQueueDepth, \* Config::queue_depth of the calling process
    QueueDepth,      \* Config::queue_depth of the serving process: its pool
                     \* pieces and its serve workers
    CallsPerCaller,  \* bound on the RPCs each caller fiber issues
    SeqMod,          \* 2^(bits of rpc_seq_t); a smaller power keeps TLC finite
    Backend,         \* "TCP", "Comch" or "RDMA"
    StopAllowed,     \* whether the serving side's stop predicate may flip
    BulkCallers      \* caller fibers that may issue bulk() (TCP only)

ASSUME /\ Callers # {}
       /\ CallerQueueDepth \in Nat \ {0}
       /\ QueueDepth \in Nat \ {0}
       /\ CallsPerCaller \in Nat \ {0}
       /\ SeqMod \in Nat \ {0}
       /\ Backend \in {"TCP", "Comch", "RDMA"}
       /\ StopAllowed \in BOOLEAN
       /\ BulkCallers \subseteq Callers
       /\ BulkCallers # {} => Backend = "TCP"

Workers == 1..QueueDepth           \* serve_until's fibers
CBufs   == 1..CallerQueueDepth     \* the pieces of a caller-side BufferPool
SBufs   == 1..QueueDepth           \* the pieces of a serving-side BufferPool
NoBuf   == 0
NoCaller == "none"
Seqs    == 0..(SeqMod - 1)
Kinds   == {"call", "oneway", "bulk"}
\* The RPC id of a header: the private Bulk RPC or the application's own.
RpcIds  == {"App", "Bulk"}
\* The ids of the oneway RPCs a serving side registers handlers for.
OnewayRpcIds == {"App"}
Frame   == [kind : {"req", "oneway", "resp"}, seq : Seqs, id : RpcIds,
            payload : Callers]
Status  == {"Running", "Stopping", "Exited"}
NoFrame == [kind |-> "req", seq |-> 0, id |-> "App",
            payload |-> CHOOSE c \in Callers : TRUE]
\* The kinds a caller fiber issues: bulk() only from the bulk callers.
KindsOf(c) == IF c \in BulkCallers THEN Kinds ELSE Kinds \ {"bulk"}
\* bulk() is call<Bulk>: both wait for a response.
IsCall(kind) == kind \in {"call", "bulk"}

VARIABLES
    \* --- calling process ---
    cpc,           \* program counter of each caller fiber
    ckind,         \* the RPC kind the caller is issuing
    ncalls,        \* RPCs issued so far by each caller
    cseq,          \* the sequence number of the caller's current RPC
    csbuf,         \* send buffer held by the caller
    cresp,         \* value set into the caller's response promise
    current_seq,   \* Transport::current_seq
    outstanding,   \* Transport::outstanding_rpcs: seq -> caller
    c_send_bufs,   \* free list of the caller's send BufferPool
    c_recv_bufs,   \* free list of the caller's recv BufferPool
    c_recvq,       \* receives posted by post_recv_resp, oldest first
    c_status,      \* the caller's endpoint status
    \* --- serving process ---
    wpc,           \* program counter of each serve worker
    wrbuf,         \* recv buffer held by each worker
    wsbuf,         \* send buffer held by each worker
    wframe,        \* the frame a worker's receive completed with
    wrres,         \* the worker's recv future: "pending", "ok", "err"
    wsres,         \* the worker's send future: "pending", "ok", "err"
    s_send_bufs,
    s_recv_bufs,
    s_recvq,       \* receives posted by serve_once, oldest first
    s_status,
    stop,          \* the serve_until predicate fn()
    b_recvq,       \* TCP: bulk reads posted by Bulk handlers, oldest first
    wbulk,         \* the buffer a worker's bulk read received, or NoCaller
    \* --- shared ---
    wire_c2s,      \* frames in flight towards the serving process
    wire_s2c,      \* frames in flight towards the caller
    wire_bulk,     \* TCP: buffers on the bulk socket (each its writer)
    ctrl,          \* the out-of-band disconnect handshake
    fatal          \* the reason a process called die(), or "none"

cvars == <<cpc, ckind, ncalls, cseq, csbuf, cresp, current_seq, outstanding,
           c_send_bufs, c_recv_bufs, c_recvq, c_status>>
svars == <<wpc, wrbuf, wsbuf, wframe, wrres, wsres, s_send_bufs, s_recv_bufs,
           s_recvq, s_status, stop, b_recvq, wbulk>>
vars  == <<cvars, svars, wire_c2s, wire_s2c, wire_bulk, ctrl, fatal>>

-----------------------------------------------------------------------------
(* BufferPool (src/lib/memory/simple_buffer_pool.hxx): the free list is a *)
(* std::list of pieces; acquire_one pops the front, release_one appends.  *)

PoolInit(n) == [i \in 1..n |-> i]

acquire_one(pool) == Head(pool)

release_one(pool, b) == Append(pool, b)

-----------------------------------------------------------------------------
(* The calling process.                                                    *)

\* The request header: a normal request or a oneway one (as_oneway_req),
\* the sequence number and the RPC's id.
ReqFrame(c, kind, s) ==
    [kind |-> IF IsCall(kind) THEN "req" ELSE "oneway", seq |-> s,
     id |-> IF kind = "bulk" THEN "Bulk" ELSE "App", payload |-> c]

\* The loop of a caller fiber of the benchmark: n_req RPCs, one after the
\* other, each waited for with get() before the next.
MoreRequests(c) == ncalls[c] < CallsPerCaller

\* Mutants: a header built with ++current_seq while the call is recorded
\* under the old value, and current_seq not advanced at all.
SendRequest_preinc(c, kind) ==
    LET b == acquire_one(c_send_bufs)
        s == current_seq
    IN /\ c_send_bufs' = Tail(c_send_bufs)
       /\ csbuf' = [csbuf EXCEPT ![c] = b]
       /\ cseq' = [cseq EXCEPT ![c] = s]
       /\ current_seq' = (current_seq + 1) % SeqMod
       /\ wire_c2s' = Append(wire_c2s, ReqFrame(c, kind, (s + 1) % SeqMod))
       /\ IF IsCall(kind) /\ outstanding[s] = NoCaller
            THEN outstanding' = [outstanding EXCEPT ![s] = c]
            ELSE UNCHANGED outstanding
       /\ fatal' = IF IsCall(kind) /\ outstanding[s] # NoCaller
                      THEN "outstanding seq reused" ELSE fatal
       /\ cpc' = [cpc EXCEPT ![c] = "wait_send"]

SendRequest_noinc(c, kind) ==
    LET b == acquire_one(c_send_bufs)
        s == current_seq
    IN /\ c_send_bufs' = Tail(c_send_bufs)
       /\ csbuf' = [csbuf EXCEPT ![c] = b]
       /\ cseq' = [cseq EXCEPT ![c] = s]
       /\ UNCHANGED current_seq
       /\ wire_c2s' = Append(wire_c2s, ReqFrame(c, kind, s))
       /\ IF IsCall(kind) /\ outstanding[s] = NoCaller
            THEN outstanding' = [outstanding EXCEPT ![s] = c]
            ELSE UNCHANGED outstanding
       /\ fatal' = IF IsCall(kind) /\ outstanding[s] # NoCaller
                      THEN "outstanding seq reused" ELSE fatal
       /\ cpc' = [cpc EXCEPT ![c] = "wait_send"]

\* Serialize PayloadHeader{seq = current_seq++} ++ request, post_send it and,
\* for a normal RPC, emplace the call into outstanding_rpcs (whose
\* assert(ok) aborts when the sequence number is still in flight).  The
\* request's payload is the caller itself, so a response can be checked
\* against the call it answers.
SendRequest(c, kind) ==
    LET b == acquire_one(c_send_bufs)
        s == current_seq
    IN /\ c_send_bufs' = Tail(c_send_bufs)
       /\ csbuf' = [csbuf EXCEPT ![c] = b]
       /\ cseq' = [cseq EXCEPT ![c] = s]
       /\ current_seq' = (current_seq + 1) % SeqMod
       /\ wire_c2s' = Append(wire_c2s, ReqFrame(c, kind, s))
       /\ IF IsCall(kind)
            THEN IF outstanding[s] = NoCaller
                   THEN /\ outstanding' = [outstanding EXCEPT ![s] = c]
                        /\ UNCHANGED fatal
                   ELSE /\ fatal' = "outstanding seq reused"
                        /\ UNCHANGED outstanding
            ELSE UNCHANGED <<outstanding, fatal>>
       /\ cpc' = [cpc EXCEPT ![c] = "wait_send"]

\* Mutant: the bound on issued RPCs is not checked.
CallBegin_unbounded(c, kind) ==
    /\ fatal = "none"
    /\ cpc[c] = "idle"
    /\ ncalls' = [ncalls EXCEPT ![c] = @ + 1]
    /\ ckind' = [ckind EXCEPT ![c] = kind]
    /\ kind = "oneway"
    /\ c_send_bufs # <<>>
    /\ SendRequest(c, kind)
    /\ UNCHANGED <<c_recv_bufs, c_recvq, cresp, c_status, svars, wire_s2c,
                   wire_bulk, ctrl>>

\* call<Rpc> begins with post_recv_resp: acquire a recv buffer (yielding
\* while the pool is empty) and post a receive for the response; then it
\* acquires a send buffer and sends.  oneway<Rpc> only sends.  bulk() on
\* TCP begins with call<Bulk>.
CallBegin(c, kind) ==
    /\ fatal = "none"
    /\ cpc[c] = "idle"
    /\ MoreRequests(c)
    /\ ncalls' = [ncalls EXCEPT ![c] = @ + 1]
    /\ ckind' = [ckind EXCEPT ![c] = kind]
    /\ \/ /\ IsCall(kind)
          /\ c_recv_bufs # <<>>
          /\ c_recv_bufs' = Tail(c_recv_bufs)
          /\ c_recvq' = Append(c_recvq, acquire_one(c_recv_bufs))
          /\ IF c_send_bufs # <<>>
               THEN SendRequest(c, kind)
               ELSE /\ cpc' = [cpc EXCEPT ![c] = "acq_send"]
                    /\ UNCHANGED <<csbuf, cseq, current_seq, c_send_bufs,
                                   wire_c2s, outstanding, fatal>>
       \/ /\ kind = "oneway"
          /\ c_send_bufs # <<>>
          /\ SendRequest(c, kind)
          /\ UNCHANGED <<c_recv_bufs, c_recvq>>
    /\ UNCHANGED <<cresp, c_status, svars, wire_s2c, wire_bulk, ctrl>>

\* acquire_send_buffer's yield loop ends when a send buffer is free.
CallAcquireSend(c) ==
    /\ fatal = "none"
    /\ cpc[c] = "acq_send"
    /\ c_send_bufs # <<>>
    /\ SendRequest(c, ckind[c])
    /\ UNCHANGED <<ckind, ncalls, cresp, c_recv_bufs, c_recvq, c_status,
                   svars, wire_s2c, wire_bulk, ctrl>>

\* After the send: call returns the response future and oneway returns;
\* bulk() on TCP goes on with bulk_write, which posts the whole buffer on
\* the bulk socket (progress() resubmits a partial write's remainder).
AfterSend(c) ==
    IF ckind[c] = "bulk"
      THEN /\ wire_bulk' = Append(wire_bulk, c)
           /\ cpc' = [cpc EXCEPT ![c] = "wait_write"]
      ELSE /\ cpc' = [cpc EXCEPT ![c] = IF ckind[c] = "call" THEN "wait_resp" ELSE "idle"]
           /\ UNCHANGED wire_bulk

\* Mutant: the send buffer is released but the caller keeps its handle.
CallSendDone_noreset(c) ==
    /\ fatal = "none"
    /\ cpc[c] = "wait_send"
    /\ c_status = "Running"
    /\ c_send_bufs' = release_one(c_send_bufs, csbuf[c])
    /\ AfterSend(c)
    /\ UNCHANGED <<ckind, ncalls, cseq, csbuf, cresp, current_seq, outstanding,
                   c_recv_bufs, c_recvq, c_status, svars, wire_c2s, wire_s2c,
                   ctrl, fatal>>

\* n_send_f.get() returns once progress() completed the send; the send
\* buffer goes back to the pool.
CallSendDone(c) ==
    /\ fatal = "none"
    /\ cpc[c] = "wait_send"
    /\ c_status = "Running"
    /\ c_send_bufs' = release_one(c_send_bufs, csbuf[c])
    /\ csbuf' = [csbuf EXCEPT ![c] = NoBuf]
    /\ AfterSend(c)
    /\ UNCHANGED <<ckind, ncalls, cseq, cresp, current_seq, outstanding,
                   c_recv_bufs, c_recvq, c_status, svars, wire_c2s, wire_s2c,
                   ctrl, fatal>>

\* bulk_write's post_write(ctx).get(): progress() reaps the write once the
\* whole buffer is on the socket; bulk() then returns the Bulk call's
\* response future.
BulkWriteDone(c) ==
    /\ fatal = "none"
    /\ cpc[c] = "wait_write"
    /\ c_status = "Running"
    /\ cpc' = [cpc EXCEPT ![c] = "wait_resp"]
    /\ UNCHANGED <<ckind, ncalls, cseq, csbuf, cresp, current_seq, outstanding,
                   c_send_bufs, c_recv_bufs, c_recvq, c_status, svars,
                   wire_c2s, wire_s2c, wire_bulk, ctrl, fatal>>

\* The application's .get() on the response future.
CallGetResponse(c) ==
    /\ fatal = "none"
    /\ cpc[c] = "wait_resp"
    /\ cresp[c] # NoCaller
    /\ cpc' = [cpc EXCEPT ![c] = "idle"]
    /\ cresp' = [cresp EXCEPT ![c] = NoCaller]
    /\ cseq' = [cseq EXCEPT ![c] = 0]
    /\ UNCHANGED <<ckind, ncalls, csbuf, current_seq, outstanding,
                   c_send_bufs, c_recv_bufs, c_recvq, c_status, svars,
                   wire_c2s, wire_bulk, wire_s2c, ctrl, fatal>>

\* progress() completes the oldest posted receive with the head frame and
\* the detached fiber of post_recv_resp runs dispatch_resp: the frame must
\* be a response, the call is looked up by seq, its promise is set, the
\* entry erased and the recv buffer released.
RecvResponse ==
    /\ fatal = "none"
    /\ c_status = "Running"
    /\ c_recvq # <<>>
    /\ wire_s2c # <<>>
    /\ LET f == Head(wire_s2c)
           b == Head(c_recvq)
       IN /\ wire_s2c' = Tail(wire_s2c)
          /\ c_recvq' = Tail(c_recvq)
          /\ IF f.kind # "resp"
               THEN /\ fatal' = "payload is not response"
                    /\ UNCHANGED <<cresp, outstanding, c_recv_bufs>>
             ELSE IF outstanding[f.seq] = NoCaller
               THEN /\ fatal' = "no outstanding call for seq"
                    /\ UNCHANGED <<cresp, outstanding, c_recv_bufs>>
             ELSE /\ cresp' = [cresp EXCEPT ![outstanding[f.seq]] = f.payload]
                  /\ outstanding' = [outstanding EXCEPT ![f.seq] = NoCaller]
                  /\ c_recv_bufs' = release_one(c_recv_bufs, b)
                  /\ UNCHANGED fatal
    /\ UNCHANGED <<cpc, ckind, ncalls, cseq, csbuf, current_seq, c_send_bufs,
                   c_status, svars, wire_c2s, wire_bulk, ctrl>>

CallersDone == \A c \in Callers : cpc[c] = "idle" /\ ncalls[c] = CallsPerCaller

\* ConnectionHolder::terminate_connections on the active side, once the
\* caller fibers are done: TCP writes the disconnect byte and waits for the
\* peer's answer before closing its sockets; Comch stops its endpoint and
\* its contexts; RDMA writes "0" and stops its endpoint.
Disconnect ==
    /\ fatal = "none"
    /\ CallersDone
    /\ ctrl = "up"
    /\ ctrl' = "fin"
    /\ c_status' = IF Backend = "TCP" THEN c_status ELSE "Stopping"
    /\ UNCHANGED <<cpc, ckind, ncalls, cseq, csbuf, cresp, current_seq,
                   outstanding, c_send_bufs, c_recv_bufs, c_recvq, svars,
                   wire_c2s, wire_bulk, wire_s2c, fatal>>

\* TCP: the peer's answer arrives; stop() closes the sockets and shutdown()
\* moves the endpoint on to Exited.
DisconnectAcked ==
    /\ Backend = "TCP"
    /\ ctrl = "acked"
    /\ c_status = "Running"
    /\ c_status' = "Exited"
    /\ UNCHANGED <<cpc, ckind, ncalls, cseq, csbuf, cresp, current_seq,
                   outstanding, c_send_bufs, c_recv_bufs, c_recvq, svars,
                   wire_c2s, wire_bulk, wire_s2c, ctrl, fatal>>

-----------------------------------------------------------------------------
(* The serving process: serve_until's workers.                             *)

\* Mutant: the recv buffer is never handed back to the pool.
release_recv_buffer_skip(w) ==
    /\ s_recv_bufs' = s_recv_bufs
    /\ wrbuf' = wrbuf

\* Transport::release_recv_buffer: the worker's piece goes back to the
\* recv pool.
release_recv_buffer(w) ==
    /\ s_recv_bufs' = release_one(s_recv_bufs, wrbuf[w])
    /\ wrbuf' = [wrbuf EXCEPT ![w] = NoBuf]

\* Transport::acquire_recv_buffer: take a piece of the recv pool, yielding
\* while it is empty.
acquire_recv_buffer(w) ==
    /\ s_recv_bufs # <<>>
    /\ s_recv_bufs' = Tail(s_recv_bufs)
    /\ wrbuf' = [wrbuf EXCEPT ![w] = acquire_one(s_recv_bufs)]

\* dispatch_reqs<OnewayRpcs>: the oneway RPC whose id matches runs its
\* handler (the application's handler changes no state of this model);
\* none matching dies with "Mismatch rpc id".
dispatch_oneway_req(w) == wframe[w].id \in OnewayRpcIds

\* One turn of serve_until's loop: while (e.running() && !fn()) the worker
\* runs serve_once, which acquires a recv buffer, posts a receive into it
\* and waits; otherwise the worker ends.  The OpContexts of the previous
\* serve_once are gone (they lived on its stack).  The recv pool holds a
\* piece for every worker and a worker holds at most one, so the acquire
\* loop never yields here.
WorkerLoop(w) ==
    /\ fatal = "none"
    /\ wpc[w] = "loop"
    /\ wframe' = [wframe EXCEPT ![w] = NoFrame]
    /\ wsres' = [wsres EXCEPT ![w] = "ok"]
    /\ \/ /\ s_status = "Running" /\ ~stop
          /\ acquire_recv_buffer(w)
          /\ s_recvq' = Append(s_recvq, [w |-> w,
              buf |-> acquire_one(s_recv_bufs)])
          /\ wrres' = [wrres EXCEPT ![w] = "pending"]
          /\ wpc' = [wpc EXCEPT ![w] = "wait_recv"]
       \/ /\ s_status # "Running" \/ stop
          /\ wrres' = [wrres EXCEPT ![w] = "ok"]
          /\ wpc' = [wpc EXCEPT ![w] = "exited"]
          /\ UNCHANGED <<s_recv_bufs, wrbuf, s_recvq>>
    /\ UNCHANGED <<cvars, wsbuf, s_send_bufs, s_status, stop, b_recvq, wbulk,
                   wire_c2s, wire_bulk,
                   wire_s2c, ctrl, fatal>>

\* dispatch_normal_req: the handler's response is serialized behind
\* PayloadHeader().as_resp().with_seq(seq).with_id(id) of the request.  The
\* handler answers the request it was given: an App handler echoes it,
\* the Bulk handler returns the length it read.
dispatch_normal_req(w) ==
    [kind |-> "resp", seq |-> wframe[w].seq, id |-> wframe[w].id,
     payload |-> wframe[w].payload]

\* Mutants: the response is never posted; the response header lacks the
\* response flag.
Reply_nosend(w) ==
    /\ s_send_bufs' = Tail(s_send_bufs)
    /\ wsbuf' = [wsbuf EXCEPT ![w] = acquire_one(s_send_bufs)]
    /\ release_recv_buffer(w)
    /\ wsres' = [wsres EXCEPT ![w] = "pending"]
    /\ UNCHANGED wire_s2c
    /\ wpc' = [wpc EXCEPT ![w] = "wait_send"]

Reply_noflag(w) ==
    /\ s_send_bufs' = Tail(s_send_bufs)
    /\ wsbuf' = [wsbuf EXCEPT ![w] = acquire_one(s_send_bufs)]
    /\ release_recv_buffer(w)
    /\ wire_s2c' = Append(wire_s2c,
        [dispatch_normal_req(w) EXCEPT !.kind = "req"])
    /\ wsres' = [wsres EXCEPT ![w] = "pending"]
    /\ wpc' = [wpc EXCEPT ![w] = "wait_send"]

\* Once the handler has returned: release the recv buffer and post_send
\* the response (a stopped endpoint resolves the send with 0 at once).
PostResponse(w) ==
    /\ release_recv_buffer(w)
    /\ IF s_status = "Running"
         THEN /\ wire_s2c' = Append(wire_s2c, dispatch_normal_req(w))
              /\ wsres' = [wsres EXCEPT ![w] = "pending"]
         ELSE /\ wsres' = [wsres EXCEPT ![w] = "err"]
              /\ UNCHANGED wire_s2c
    /\ wpc' = [wpc EXCEPT ![w] = "wait_send"]

\* An App request: acquire a send buffer, run the handler (which does not
\* suspend) and post the response.
Reply(w) ==
    /\ s_send_bufs' = Tail(s_send_bufs)
    /\ wsbuf' = [wsbuf EXCEPT ![w] = acquire_one(s_send_bufs)]
    /\ PostResponse(w)

\* A Bulk request on TCP: acquire a send buffer and run the Bulk handler,
\* whose bulk_read posts a receive of its local buffer's size on the bulk
\* socket and suspends on it.
BulkHandler(w) ==
    /\ s_send_bufs' = Tail(s_send_bufs)
    /\ wsbuf' = [wsbuf EXCEPT ![w] = acquire_one(s_send_bufs)]
    /\ b_recvq' = Append(b_recvq, w)
    /\ wpc' = [wpc EXCEPT ![w] = "wait_read"]
    /\ UNCHANGED <<wrbuf, s_recv_bufs, wsres, wire_s2c>>

\* The wait loop on the recv future ends when it is ready or fn() holds.
\* If fn() holds the worker returns false at once: the request, if any, is
\* dropped, the recv buffer is not released and the receive stays posted.
\* A failed receive releases the buffer and ends the worker.  A oneway
\* request is dispatched to its handler and the buffer released; a normal
\* request goes on to acquire a send buffer (yielding while none is free)
\* and is dispatched by its id: Reply for the application's RPC, the Bulk
\* handler for Bulk.
WorkerRecvWake(w) ==
    /\ fatal = "none"
    /\ wpc[w] = "wait_recv"
    /\ wrres[w] # "pending" \/ stop
    /\ \/ /\ stop
          /\ wpc' = [wpc EXCEPT ![w] = "exited"]
          /\ UNCHANGED <<wrbuf, wsbuf, wsres, s_send_bufs, s_recv_bufs,
                         wire_s2c, fatal, b_recvq>>
       \/ /\ ~stop
          /\ wrres[w] = "err"
          /\ release_recv_buffer(w)
          /\ wpc' = [wpc EXCEPT ![w] = "exited"]
          /\ UNCHANGED <<wsbuf, wsres, s_send_bufs, wire_s2c, fatal, b_recvq>>
       \/ /\ ~stop
          /\ wrres[w] = "ok"
          /\ wframe[w].kind = "resp"
          /\ fatal' = "payload is not request"
          /\ UNCHANGED <<wpc, wrbuf, wsbuf, wsres, s_send_bufs, s_recv_bufs,
                         wire_s2c, b_recvq>>
       \/ /\ ~stop
          /\ wrres[w] = "ok"
          /\ wframe[w].kind = "oneway"
          /\ IF dispatch_oneway_req(w)
               THEN /\ release_recv_buffer(w)
                    /\ wpc' = [wpc EXCEPT ![w] = "loop"]
                    /\ UNCHANGED fatal
               ELSE /\ fatal' = "Mismatch rpc id"
                    /\ UNCHANGED <<wpc, wrbuf, s_recv_bufs>>
          /\ UNCHANGED <<wsbuf, wsres, s_send_bufs, wire_s2c, b_recvq>>
       \/ /\ ~stop
          /\ wrres[w] = "ok"
          /\ wframe[w].kind = "req"
          /\ s_send_bufs # <<>>
          /\ IF wframe[w].id = "Bulk"
               THEN BulkHandler(w)
               ELSE Reply(w) /\ UNCHANGED b_recvq
          /\ UNCHANGED fatal
    /\ UNCHANGED <<cvars, wframe, wrres, s_recvq, s_status, stop, wbulk,
                   wire_c2s, wire_bulk, ctrl>>

\* The wait loop on the send future: as for the receive, fn() ends the
\* worker without releasing the send buffer; a failed send releases it and
\* ends the worker; a completed one releases it and loops.
WorkerSendWake(w) ==
    /\ fatal = "none"
    /\ wpc[w] = "wait_send"
    /\ wsres[w] # "pending" \/ stop
    /\ IF stop
         THEN /\ wpc' = [wpc EXCEPT ![w] = "exited"]
              /\ UNCHANGED <<wsbuf, s_send_bufs>>
         ELSE /\ s_send_bufs' = release_one(s_send_bufs, wsbuf[w])
              /\ wsbuf' = [wsbuf EXCEPT ![w] = NoBuf]
              /\ wpc' = [wpc EXCEPT ![w] = IF wsres[w] = "ok" THEN "loop" ELSE "exited"]
    /\ UNCHANGED <<cvars, wrbuf, wframe, wrres, wsres, s_recv_bufs, s_recvq,
                   s_status, stop, b_recvq, wbulk, wire_c2s, wire_bulk,
                       wire_s2c, ctrl, fatal>>

\* Endpoint::progress on the serving side: the oldest bulk read posted on
\* the bulk socket completes (MSG_WAITALL) with the buffer at the head of
\* the stream.
BulkRecv ==
    /\ fatal = "none"
    /\ s_status = "Running"
    /\ b_recvq # <<>>
    /\ wire_bulk # <<>>
    /\ wbulk' = [wbulk EXCEPT ![Head(b_recvq)] = Head(wire_bulk)]
    /\ b_recvq' = Tail(b_recvq)
    /\ wire_bulk' = Tail(wire_bulk)
    /\ UNCHANGED <<cvars, wpc, wrbuf, wsbuf, wframe, wrres, wsres, s_send_bufs,
                   s_recv_bufs, s_recvq, s_status, stop, wire_c2s, wire_s2c,
                   ctrl, fatal>>

\* bulk_read's post_read(ctx).get() returns n_read > 0; the Bulk handler
\* returns it and serve_once posts the response.
BulkReadDone(w) ==
    /\ fatal = "none"
    /\ wpc[w] = "wait_read"
    /\ wbulk[w] # NoCaller
    /\ wbulk' = [wbulk EXCEPT ![w] = NoCaller]
    /\ PostResponse(w)
    /\ UNCHANGED <<cvars, wsbuf, wframe, wrres, s_send_bufs, s_recvq, s_status,
                   stop, b_recvq, wire_c2s, wire_bulk, ctrl, fatal>>

\* Endpoint::progress on the serving side: the oldest posted receive is
\* completed with the head frame, its OpContext's promise set.
RecvRequest ==
    /\ fatal = "none"
    /\ s_status = "Running"
    /\ s_recvq # <<>>
    /\ wire_c2s # <<>>
    /\ LET r == Head(s_recvq)
       IN /\ wframe' = [wframe EXCEPT ![r.w] = Head(wire_c2s)]
          /\ wrres' = [wrres EXCEPT ![r.w] = "ok"]
    /\ s_recvq' = Tail(s_recvq)
    /\ wire_c2s' = Tail(wire_c2s)
    /\ UNCHANGED <<cvars, wpc, wrbuf, wsbuf, wsres, s_send_bufs, s_recv_bufs,
                   s_status, stop, b_recvq, wbulk, wire_s2c, wire_bulk, ctrl,
                   fatal>>

\* comch Endpoint::task_cb frees a task completing on an endpoint that is
\* no longer running and returns without setting its promise; the TCP
\* endpoint has no such check.
TaskDelivered == Backend = "TCP" \/ s_status = "Running"

\* tcp Endpoint::progress: the write's cqe (res > 0) sets the send's
\* promise to tx_size.  A TCP write already on the socket is still reaped
\* after stop(); a DOCA task is delivered only as TaskDelivered says.
SendComplete(w) ==
    /\ fatal = "none"
    /\ TaskDelivered
    /\ wsres[w] = "pending"
    /\ wsres' = [wsres EXCEPT ![w] = "ok"]
    /\ UNCHANGED <<cvars, wpc, wrbuf, wsbuf, wframe, wrres, s_send_bufs,
                   s_recv_bufs, s_recvq, s_status, stop, b_recvq, wbulk,
                       wire_c2s, wire_bulk, wire_s2c,
                   ctrl, fatal>>

\* Mutant: the TCP endpoint drops a receive flushed by the closed socket.
FlushRecv_drop ==
    /\ fatal = "none"
    /\ s_status # "Running"
    /\ s_recvq # <<>>
    /\ Backend = "TCP" => c_status # "Running"
    /\ s_recvq' = Tail(s_recvq)
    /\ UNCHANGED <<cvars, wpc, wrbuf, wsbuf, wframe, wrres, wsres, s_send_bufs,
                   s_recv_bufs, s_status, stop, b_recvq, wbulk, wire_c2s,
                       wire_bulk, wire_s2c, ctrl, fatal>>

\* A receive still posted when the endpoint has stopped.  TCP: once the
\* peer has closed its socket the recv completes with 0 and progress()
\* sets the promise.  Comch and RDMA: the context flushes the task and
\* task_cb returns early because the endpoint is not running, so the
\* promise is never set.
FlushRecv ==
    /\ fatal = "none"
    /\ s_status # "Running"
    /\ s_recvq # <<>>
    /\ Backend = "TCP" => c_status # "Running"
    /\ s_recvq' = Tail(s_recvq)
    /\ wrres' = IF Backend = "TCP"
                  THEN [wrres EXCEPT ![Head(s_recvq).w] = "err"]
                  ELSE wrres
    /\ UNCHANGED <<cvars, wpc, wrbuf, wsbuf, wframe, wsres, s_send_bufs,
                   s_recv_bufs, s_status, stop, b_recvq, wbulk, wire_c2s,
                       wire_bulk, wire_s2c, ctrl, fatal>>

\* The daemon thread's wait_for_disconnect: on the peer's disconnect the
\* endpoint is stopped (TCP also shuts it down and answers the peer).
PeerDisconnected ==
    /\ fatal = "none"
    /\ ctrl = "fin"
    /\ s_status = "Running"
    /\ s_status' = IF Backend = "TCP" THEN "Exited" ELSE "Stopping"
    /\ ctrl' = "acked"
    /\ UNCHANGED <<cvars, wpc, wrbuf, wsbuf, wframe, wrres, wsres, s_send_bufs,
                   s_recv_bufs, s_recvq, stop, b_recvq, wbulk, wire_c2s,
                       wire_bulk, wire_s2c, fatal>>

\* The application flips serve_until's predicate (e.g. running = false).
StopServing ==
    /\ StopAllowed
    /\ ~stop
    /\ stop' = TRUE
    /\ UNCHANGED <<cvars, wpc, wrbuf, wsbuf, wframe, wrres, wsres, s_send_bufs,
                   s_recv_bufs, s_recvq, s_status, b_recvq, wbulk, wire_c2s,
                       wire_bulk, wire_s2c, ctrl, fatal>>

-----------------------------------------------------------------------------

Init ==
    /\ cpc = [c \in Callers |-> "idle"]
    /\ ckind = [c \in Callers |-> "call"]
    /\ ncalls = [c \in Callers |-> 0]
    /\ cseq = [c \in Callers |-> 0]
    /\ csbuf = [c \in Callers |-> NoBuf]
    /\ cresp = [c \in Callers |-> NoCaller]
    /\ current_seq = 1
    /\ outstanding = [s \in Seqs |-> NoCaller]
    /\ c_send_bufs = PoolInit(CallerQueueDepth)
    /\ c_recv_bufs = PoolInit(CallerQueueDepth)
    /\ c_recvq = <<>>
    /\ c_status = "Running"
    /\ wpc = [w \in Workers |-> "loop"]
    /\ wrbuf = [w \in Workers |-> NoBuf]
    /\ wsbuf = [w \in Workers |-> NoBuf]
    /\ wframe = [w \in Workers |-> NoFrame]
    /\ wrres = [w \in Workers |-> "ok"]
    /\ wsres = [w \in Workers |-> "ok"]
    /\ s_send_bufs = PoolInit(QueueDepth)
    /\ s_recv_bufs = PoolInit(QueueDepth)
    /\ s_recvq = <<>>
    /\ s_status = "Running"
    /\ stop = FALSE
    /\ b_recvq = <<>>
    /\ wbulk = [w \in Workers |-> NoCaller]
    /\ wire_c2s = <<>>
    /\ wire_s2c = <<>>
    /\ wire_bulk = <<>>
    /\ ctrl = "up"
    /\ fatal = "none"

\* Both processes have exited: the caller disconnected and every serve
\* worker returned.
Terminated ==
    /\ ctrl = "acked"
    /\ \A w \in Workers : wpc[w] = "exited"
    /\ UNCHANGED vars

Next ==
    \/ \E c \in Callers, k \in Kinds : k \in KindsOf(c) /\ CallBegin(c, k)
    \/ \E c \in Callers : CallAcquireSend(c)
    \/ \E c \in Callers : CallSendDone(c)
    \/ \E c \in Callers : BulkWriteDone(c)
    \/ \E c \in Callers : CallGetResponse(c)
    \/ RecvResponse
    \/ Disconnect
    \/ DisconnectAcked
    \/ \E w \in Workers : WorkerLoop(w)
    \/ \E w \in Workers : WorkerRecvWake(w)
    \/ \E w \in Workers : WorkerSendWake(w)
    \/ \E w \in Workers : BulkReadDone(w)
    \/ RecvRequest
    \/ BulkRecv
    \/ \E w \in Workers : SendComplete(w)
    \/ FlushRecv
    \/ PeerDisconnected
    \/ StopServing
    \/ Terminated

\* Every fiber is eventually resumed by boost's round-robin scheduler once
\* it is ready, the poller fiber calls progress() continuously, and the
\* daemon thread blocks on the control socket: weak fairness for all of
\* them.  The application's stop flag is not fair: it may never flip.
Fairness ==
    /\ \A c \in Callers : /\ WF_vars(\E k \in KindsOf(c) : CallBegin(c, k))
                          /\ WF_vars(CallAcquireSend(c))
                          /\ WF_vars(CallSendDone(c))
                          /\ WF_vars(BulkWriteDone(c))
                          /\ WF_vars(CallGetResponse(c))
    /\ \A w \in Workers : /\ WF_vars(WorkerLoop(w))
                          /\ WF_vars(WorkerRecvWake(w))
                          /\ WF_vars(WorkerSendWake(w))
                          /\ WF_vars(BulkReadDone(w))
                          /\ WF_vars(SendComplete(w))
    /\ WF_vars(RecvResponse)
    /\ WF_vars(RecvRequest)
    /\ WF_vars(BulkRecv)
    /\ WF_vars(FlushRecv)
    /\ WF_vars(Disconnect)
    /\ WF_vars(DisconnectAcked)
    /\ WF_vars(PeerDisconnected)

Spec == Init /\ [][Next]_vars /\ Fairness

-----------------------------------------------------------------------------
(* Properties.                                                             *)

TypeOK ==
    /\ cpc \in [Callers -> {"idle", "acq_send", "wait_send", "wait_write",
        "wait_resp"}]
    /\ ckind \in [Callers -> Kinds]
    /\ ncalls \in [Callers -> 0..CallsPerCaller]
    /\ cseq \in [Callers -> Seqs]
    /\ csbuf \in [Callers -> CBufs \cup {NoBuf}]
    /\ cresp \in [Callers -> Callers \cup {NoCaller}]
    /\ current_seq \in Seqs
    /\ outstanding \in [Seqs -> Callers \cup {NoCaller}]
    /\ c_send_bufs \in Seq(CBufs) /\ c_recv_bufs \in Seq(CBufs)
    /\ c_recvq \in Seq(CBufs)
    /\ {c_status, s_status} \subseteq Status
    /\ wpc \in [Workers -> {"loop", "wait_recv", "wait_read", "wait_send",
        "exited"}]
    /\ wrbuf \in [Workers -> SBufs \cup {NoBuf}]
    /\ wsbuf \in [Workers -> SBufs \cup {NoBuf}]
    /\ wframe \in [Workers -> Frame]
    /\ wrres \in [Workers -> {"pending", "ok", "err"}]
    /\ wsres \in [Workers -> {"pending", "ok", "err"}]
    /\ s_send_bufs \in Seq(SBufs) /\ s_recv_bufs \in Seq(SBufs)
    /\ s_recvq \in Seq([w : Workers, buf : SBufs])
    /\ stop \in BOOLEAN
    /\ b_recvq \in Seq(Workers) /\ wbulk \in [Workers -> Callers \cup {NoCaller}]
    /\ wire_bulk \in Seq(BulkCallers)
    /\ wire_c2s \in Seq(Frame) /\ wire_s2c \in Seq(Frame)
    /\ ctrl \in {"up", "fin", "acked"}
    /\ fatal \in STRING

\* A caller's response promise only ever holds the response to its own
\* request: dispatch_normal_resp finds the context by the header's seq,
\* which the server copies from the request (dispatch_normal_req).
NoCrossTalk == \A c \in Callers : cresp[c] \in {NoCaller, c}

\* outstanding_rpcs holds exactly the calls whose request was sent and
\* whose response has not been dispatched, each under its own seq: every
\* entry names a caller waiting under that seq, and a caller waiting for
\* its response is found under its seq.
OutstandingMatchesCaller ==
    /\ \A s \in Seqs : outstanding[s] # NoCaller =>
          /\ cpc[outstanding[s]] \in {"wait_send", "wait_write", "wait_resp"}
          /\ IsCall(ckind[outstanding[s]])
          /\ cseq[outstanding[s]] = s
    /\ \A c \in Callers :
          (cpc[c] \in {"wait_send", "wait_write", "wait_resp"} /\ IsCall(ckind[c])
             /\ cresp[c] = NoCaller) => outstanding[cseq[c]] = c

\* Each BufferPool piece is either in the free list, exactly once, or held
\* by exactly one user: a caller fiber sending, a receive posted for a
\* response, or a serve worker (whose posted receive uses its own piece).
Occurrences(sq, b) == Cardinality({i \in DOMAIN sq : sq[i] = b})
Holders(f, b) == Cardinality({d \in DOMAIN f : f[d] = b})

BufferConservation ==
    /\ \A b \in CBufs :
          /\ Occurrences(c_send_bufs, b) + Holders(csbuf, b) = 1
          /\ Occurrences(c_recv_bufs, b) + Occurrences(c_recvq, b) = 1
    /\ \A b \in SBufs :
          /\ Occurrences(s_send_bufs, b) + Holders(wsbuf, b) = 1
          /\ Occurrences(s_recv_bufs, b) + Holders(wrbuf, b) = 1
    /\ \A i \in DOMAIN s_recvq : wrbuf[s_recvq[i].w] = s_recvq[i].buf

\* When serve() has returned after the peer's disconnect (every worker
\* fiber ended on the 0-byte receive that the closed socket completes),
\* every piece of the serving side's pools is back in its free list: the
\* n_recv <= 0 return of serve_once releases the receive it acquired, and
\* no worker leaves with a send still held.
NoLeakOnDisconnect ==
    (\A w \in Workers : wpc[w] = "exited") =>
        /\ Len(s_recv_bufs) = QueueDepth
        /\ Len(s_send_bufs) = QueueDepth

\* No process calls die(): every frame a receive completes with is of the
\* kind that side expects, and every response finds its outstanding call.
NoFatal == fatal = "none"

\* Once a receive's OpContext is gone (its serve worker returned), no
\* completion writes into it: Endpoint::progress never sets the promise
\* of a receive whose fiber has left serve_once.
CompletionTargetsLiveContext ==
    [][\A w \in Workers : wpc[w] = "exited" =>
          /\ wframe'[w] = wframe[w]
          /\ wrres'[w] = wrres[w]]_vars

\* Every RPC a caller fiber issues returns: call's response future is
\* set and oneway's send completes.
CallsComplete == \A c \in Callers : cpc[c] # "idle" ~> cpc[c] = "idle"

\* Once the calling side disconnects, serve() returns: every worker of
\* serve_until ends, so TransportGuard and the application can exit.
ServeReturns == (ctrl # "up") ~> (\A w \in Workers : wpc[w] = "exited")

\* The refinement mapping to RPC: a caller is idle, has a call pending (from
\* its first step in call until the application's get() returns) or has a
\* oneway pending; the value set into its promise is the call's result;
\* serve() runs until the last serve worker has returned.
AbsSt(c) == IF cpc[c] = "idle" THEN "idle"
            ELSE IF IsCall(ckind[c]) THEN "calling" ELSE "sending"

Abs == INSTANCE RPC WITH st <- [c \in Callers |-> AbsSt(c)], result <- cresp,
                         issued <- ncalls,
                         serving <- ~(\A w \in Workers : wpc[w] = "exited")

\* Transport implements RPC: every call is answered once with its own
\* response and returns, every oneway returns, and serve_until does not
\* return before the callers are done.
RefinesRPC == Abs!Spec

====
