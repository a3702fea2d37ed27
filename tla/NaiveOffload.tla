---------------------------- MODULE NaiveOffload ----------------------------
(***************************************************************************)
(* The naive offload path: two hosts, each with a DPU running             *)
(* naive_offload_server (dpu20_server_main / dpu21_server_main), and the  *)
(* two DPUs connected by RDMA.                                             *)
(*                                                                         *)
(* Host, naive_trans_native.cxx: a JVM thread's Spill pushes a            *)
(*   NaiveSpillTask onto q (under mu) and waits on its promise; the       *)
(*   NaiveSpillAgent's do_spill fibers pop q, take a bp buffer (spinning   *)
(*   with yield while none is free), bulk() the data to the DPU and        *)
(*   fulfil the promise when the bulk is answered.  The host's             *)
(*   HostSpillWorker ("disk") queues what its DPU bulk()s to it on io_q;   *)
(*   a spiller fiber writes it through io_uring once TriggerSpillStart     *)
(*   has created the files, and a poller fiber completes the write.        *)
(*   The JVM ends a round with WaitForSpillDone (poll is_spilling, then    *)
(*   close_partition_files) and may then Destroy the agent and the worker. *)
(* DPU: the NaiveSpillWorker<Comch> "spill" handler bulk_read()s a spill   *)
(*   into lntq and waits for the result; NaiveSpillWorker<RDMA> does the   *)
(*   same for a partition the peer DPU sends, into rntq.  The main loop    *)
(*   moves lntq (first) and rntq into NaiveShuffleWorkerPool::submit_task. *)
(*   do_shuffle threads: the first n_worker/2 serve ldq (partition the     *)
(*   spill with pfn, bulk the local partitions to the host under io_mu,    *)
(*   then bulk partitions to the peer under rdma_mu), the others serve     *)
(*   rdq (bulk the received partition to the host under io_mu).            *)
(*                                                                         *)
(* Data is abstracted to spill ids and partition ids; every partition      *)
(* jvm_partition produces holds a PartitionDataHeader, so it is one length *)
(* unit here and a spill's scatter buffer is NPartition units.             *)
(* All threads run forever: dpx::running is never cleared on the DPU.      *)
(***************************************************************************)
EXTENDS Integers, Sequences, FiniteSets

CONSTANTS
  NPartition,     \* n_partition, the server's command-line argument
  Spills,         \* the JVM Spill calls: <<node, k>> is the k-th on a host
  NFibers,        \* do_spill fibers of a NaiveSpillAgent (16 in the code)
  NAgentBufs,     \* buffers of the agent's BufferPool bp (16 in the code)
  NWorker,        \* n_shuffle_worker of NaiveShuffleWorkerPool (12)
  NRdma           \* n_rmdas, the RDMA transports to the peer: 1 in
                  \* naive_offload_server, 4 in naive_offload_serde_server

ASSUME /\ NPartition \in Nat \ {0} /\ Spills \subseteq {20, 21} \X Nat
       /\ NFibers \in Nat \ {0} /\ NAgentBufs \in Nat \ {0}
       \* the pool's constructor dies with "n worker >= 4" below that
       /\ NWorker \in Nat /\ NWorker >= 4
       \* active_rdma_idx is a uint64 counter: kept modulo NRdma, which is
       \* exact when NRdma divides 2^64
       /\ NRdma \in {1, 2, 4}

Nodes == {20, 21}
Peer(n) == IF n = 20 THEN 21 ELSE 20
Partitions == 0 .. NPartition - 1
Origin(s) == s[1]
\* The buffer of partition p of spill s (a triple, so that it never equals a
\* spill).
Item(s, p) == <<s[1], s[2], p>>
Items == {Item(s, p) : s \in Spills, p \in Partitions}
ItemNode(i) == i[1]
Fibers == 1 .. NFibers
Workers == 0 .. NWorker - 1
\* do_shuffle(false, ...) for i < n_worker / 2, do_shuffle(true, ...) above
IsLocalWorker(w) == w < NWorker \div 2
NoTask == <<0, 0>>
NoWorker == -1
NoItem == <<0, 0, 0>>
NoRdma == -1
\* The transports rdmas[0 .. n_rmdas - 1] to the peer DPU, each served there
\* by its own passive NaiveSpillWorker<DOCA_RDMA>.
RdmaIdx == 0 .. NRdma - 1
\* The serving endpoints a do_shuffle thread registers memory at: the
\* Comch endpoint of the host's HostSpillWorker behind io, and the RDMA
\* endpoint of the peer's NaiveSpillWorker behind each rdmas[i].
IoEp(n) == <<"io", n>>
RdmaEp(n, i) == <<"rdma", n, i>>
Endpoints == {IoEp(n) : n \in Nodes} \cup {RdmaEp(n, i) : n \in Nodes, i \in RdmaIdx}
\* r_mmap == nullptr: no region registered.
NoRegion == <<>>
\* HostSpillWorker's io_q is an SPSCQueue(64); push spins while it is full.
IoQCap == 64
\* lntq and rntq are OffloadSpillTaskQueue(64), SPSCQueues as well.
NtqCap == 64
\* rntq is kept as the rigtorp SPSCQueue it is: its slots, indexed by the
\* number of pushes before (each partition is pushed at most once, so the
\* 65 slots never wrap), writeIdx_ and readIdx_.
MaxPush == Cardinality(Items)
PushIdx == 0 .. MaxPush - 1
\* A NaiveSpillWorker<DOCA_RDMA> thread that is not inside rntq.push.
NoPush == [t |-> NoItem, k |-> 0]
\* The DispatchFn of each server: TRUE sends the partition to the peer.
RemoteFn(n, p) == IF n = 21 THEN p % 2 = 0 ELSE p % 2 = 1
\* jvm_partition: each partition carries a header; the scatter buffer mr
\* concatenates all NPartition of them.
PartLen == 1
ScatterLen == NPartition * PartLen
Stages == {"none", "sent", "queued", "replied", "done"}

VARIABLES
  jpc,      \* JVM thread of a spill: "idle" | "waiting" | "returned"
  q,        \* NaiveSpillTaskQueue q of each host
  apc,      \* do_spill fiber: "poll" | "acquire" | "bulk"
  atask,    \* spill a do_spill fiber holds
  bfree,    \* free buffers of each agent's bp
  stage,    \* bulk of a spill or a partition: "none" | "sent" (on the
            \* channel) | "queued" (handler waits on the task) | "replied"
            \* | "done" (the agent fulfilled the JVM's NaiveSpillTask)
  res,      \* OffloadSpillTask res of a spill or partition is set
  lntq,     \* OffloadSpillTaskQueue of local spills on each DPU
  rntq,     \* OffloadSpillTaskQueue of partitions from the peer:
            \* [slots, writeIdx, readIdx]
  rpush,    \* the rntq.push of each RDMA NaiveSpillWorker thread: the
            \* partition and the writeIdx_ it loaded, or NoPush
  ldq,      \* NaiveShuffleWorkerPool::ldq
  rdq,      \* NaiveShuffleWorkerPool::rdq
  wpc,      \* do_shuffle thread: "idle" | "lock_io" | "io" | "pick_rdma" |
            \* "lock_rdma" | "rdma"
  wtask,    \* spill (local worker) or partition (remote worker) it serves
  wpend,    \* bulks of the worker's current batch not yet answered
  io_mu,    \* holder of the pool's io_mu, or NoWorker
  rdma_mu,  \* holder of each of rdma_mus, or NoWorker
  ridx,     \* the rdmas index a local worker picked, or NoRdma
  active_rdma_idx, \* NaiveShuffleWorkerPool::active_rdma_idx % NRdma
  r_mmap,   \* the region registered at each serving endpoint, or NoRegion
  disk,     \* partition buffers each host's disk worker has written
  tohost,   \* partition buffers bulk()ed to each host so far (history)
  fatal,    \* message of the die() that ended a process, or "none"
  ioq,      \* HostSpillWorker::io_q of each host
  spc,      \* its submit_direct_spill fiber: "poll" | "wait" (on c)
  stask,    \* the task that fiber popped from io_q
  ring,     \* writes submitted to the io_uring, not yet completed
  files,    \* files.size() == max_n_partition: the partition files exist
  spilling, \* HostSpillWorker::spilling, which is_spilling returns
  jdone     \* the JVM's WaitForSpillDone on each host: "spill" (not
            \* called) | "poll" (sleeping on is_spilling) | "close" |
            \* "done" (returned) | "destroying" (Destroy cleared running
            \* and joins the threads) | "destroyed"

host == <<jpc, q, apc, atask, bfree>>
dpu == <<stage, res, lntq, rntq, rpush, ldq, rdq>>
pool == <<wpc, wtask, wpend, io_mu, rdma_mu, ridx, active_rdma_idx, r_mmap>>
hostw == <<ioq, spc, stask, ring, files, spilling, jdone>>
vars == <<host, dpu, pool, disk, tohost, fatal, hostw>>

Tasks == Spills \cup Items
\* The partitions a local worker keeps (local_ps) or sends (remote_ps).
LocalPs(n) == {p \in Partitions : ~RemoteFn(n, p)}
RemotePs(n) == {p \in Partitions : RemoteFn(n, p)}

\* The host's dpx::running, which only Destroy clears.
HostRunning(n) == jdone[n] \notin {"destroying", "destroyed"}

Init ==
  /\ jpc = [s \in Spills |-> "idle"]
  /\ q = [n \in Nodes |-> <<>>]
  /\ apc = [n \in Nodes |-> [f \in Fibers |-> "poll"]]
  /\ atask = [n \in Nodes |-> [f \in Fibers |-> NoTask]]
  /\ bfree = [n \in Nodes |-> NAgentBufs]
  /\ stage = [t \in Tasks |-> "none"]
  /\ res = [t \in Tasks |-> FALSE]
  /\ lntq = [n \in Nodes |-> <<>>]
  /\ rntq = [n \in Nodes |-> [slots |-> [k \in PushIdx |-> NoItem],
                               writeIdx |-> 0, readIdx |-> 0]]
  /\ rpush = [n \in Nodes |-> [i \in RdmaIdx |-> NoPush]]
  /\ ldq = [n \in Nodes |-> <<>>]
  /\ rdq = [n \in Nodes |-> <<>>]
  /\ wpc = [n \in Nodes |-> [w \in Workers |-> "idle"]]
  /\ wtask = [n \in Nodes |-> [w \in Workers |-> NoTask]]
  /\ wpend = [n \in Nodes |-> [w \in Workers |-> {}]]
  /\ io_mu = [n \in Nodes |-> NoWorker]
  /\ rdma_mu = [n \in Nodes |-> [i \in RdmaIdx |-> NoWorker]]
  /\ ridx = [n \in Nodes |-> [w \in Workers |-> NoRdma]]
  /\ active_rdma_idx = [n \in Nodes |-> 0]
  /\ r_mmap = [ep \in Endpoints |-> NoRegion]
  /\ disk = [n \in Nodes |-> {}]
  /\ tohost = [n \in Nodes |-> {}]
  /\ fatal = "none"
  /\ ioq = [n \in Nodes |-> <<>>]
  /\ spc = [n \in Nodes |-> "poll"]
  /\ stask = [n \in Nodes |-> NoItem]
  /\ ring = [n \in Nodes |-> {}]
  /\ files = [n \in Nodes |-> FALSE]
  /\ spilling = [n \in Nodes |-> FALSE]   \* std::atomic_bool, value-initialised
  /\ jdone = [n \in Nodes |-> "spill"]

----------------------------------------------------------------------------
(* Host: the JVM and the NaiveSpillAgent.                                  *)

\* Java_pdsl_dpx_NaiveTransEnv_Spill: push &t onto q under mu, then block
\* on the promise.  q is an SPSCQueue(16) whose push spins while it is full.
Spill(s) ==
  /\ jpc[s] = "idle"
  /\ Len(q[Origin(s)]) < 16
  /\ jpc' = [jpc EXCEPT ![s] = "waiting"]
  /\ q' = [q EXCEPT ![Origin(s)] = Append(@, s)]
  /\ UNCHANGED <<hostw, apc, atask, bfree, dpu, pool, disk, tohost, fatal>>

\* The promise is set: n_spill is data.size_bytes() and Spill returns.
SpillReturn(s) ==
  /\ jpc[s] = "waiting"
  /\ stage[s] = "done"
  /\ jpc' = [jpc EXCEPT ![s] = "returned"]
  /\ UNCHANGED <<hostw, q, apc, atask, bfree, dpu, pool, disk, tohost, fatal>>

\* do_spill, top of the loop: q is not empty, take its front and pop it.
AgentPop(n, f) ==
  /\ HostRunning(n)
  /\ apc[n][f] = "poll"
  /\ q[n] # <<>>
  /\ atask' = [atask EXCEPT ![n][f] = Head(q[n])]
  /\ q' = [q EXCEPT ![n] = Tail(@)]
  /\ apc' = [apc EXCEPT ![n][f] = "acquire"]
  /\ UNCHANGED <<hostw, jpc, bfree, dpu, pool, disk, tohost, fatal>>

\* Mutant: the data is copied into a buffer that was never acquired from bp.
AgentBulk_noacquire(n, f) ==
  /\ apc[n][f] = "acquire"
  /\ stage' = [stage EXCEPT ![atask[n][f]] = "sent"]
  /\ apc' = [apc EXCEPT ![n][f] = "bulk"]
  /\ UNCHANGED <<hostw, jpc, q, atask, bfree, res, lntq, rntq, rpush, ldq, rdq, pool, disk, tohost, fatal>>

\* bp.acquire_one() has a buffer (the fiber yields until it has): memcpy
\* the data into it and bulk() it to the DPU's "spill" worker.
AgentBulk(n, f) ==
  /\ apc[n][f] = "acquire"
  /\ bfree[n] > 0
  /\ bfree' = [bfree EXCEPT ![n] = @ - 1]
  /\ stage' = [stage EXCEPT ![atask[n][f]] = "sent"]
  /\ apc' = [apc EXCEPT ![n][f] = "bulk"]
  /\ UNCHANGED <<hostw, jpc, q, atask, res, lntq, rntq, rpush, ldq, rdq, pool, disk, tohost, fatal>>

\* The bulk future resolves with trans_size == size: release the buffer and
\* fulfil the NaiveSpillTask's promise.
AgentDone(n, f) ==
  /\ apc[n][f] = "bulk"
  /\ stage[atask[n][f]] = "replied"
  /\ bfree' = [bfree EXCEPT ![n] = @ + 1]
  /\ stage' = [stage EXCEPT ![atask[n][f]] = "done"]
  /\ apc' = [apc EXCEPT ![n][f] = "poll"]
  /\ atask' = [atask EXCEPT ![n][f] = NoTask]
  /\ UNCHANGED <<hostw, jpc, q, res, lntq, rntq, rpush, ldq, rdq, pool, disk, tohost, fatal>>

----------------------------------------------------------------------------
(* DPU: the NaiveSpillWorker handlers and the main loop of server_main.    *)

\* The partitions in rntq, from readIdx_ up to writeIdx_.
RntqLen(n) == rntq[n].writeIdx - rntq[n].readIdx

\* The RDMA NaiveSpillWorker of the receiving DPU that serves a partition:
\* the one behind rdmas[i], i the index the sending do_shuffle thread took.
RdmaThread(t) ==
  CHOOSE i \in RdmaIdx : \E w \in Workers :
    t \in wpend[ItemNode(t)][w] /\ ridx[ItemNode(t)][w] = i

\* NaiveSpillWorker::handle_spill_request, first half: a bulk request of a
\* spill (on the Comch "spill" worker) or of a partition (on the RDMA
\* worker of the receiving DPU) is bulk_read into a buffer and pushed, as an
\* OffloadSpillTask, onto lntq or rntq (push spins while the queue is
\* full); the handler fiber then waits.  lntq has one producer and its push
\* is one step.  rntq is shared by the n_rmdas RDMA threads, and push is
\* SPSCQueue's: load writeIdx_, then write the slot and store writeIdx_ + 1
\* (RntqStore); here the thread loads writeIdx_.  No other fiber of the
\* thread runs in between: push does not yield.
HandleSpillRequest(t) ==
  /\ stage[t] = "sent"
  /\ stage' = [stage EXCEPT ![t] = "queued"]
  /\ IF t \in Spills
       THEN /\ Len(lntq[Origin(t)]) < NtqCap
            /\ lntq' = [lntq EXCEPT ![Origin(t)] = Append(@, t)]
            /\ UNCHANGED <<rntq, rpush>>
       ELSE LET n == Peer(ItemNode(t))
                i == RdmaThread(t)
            IN /\ rpush[n][i] = NoPush
               /\ RntqLen(n) < NtqCap
               /\ rpush' = [rpush EXCEPT ![n][i] = [t |-> t, k |-> rntq[n].writeIdx]]
               /\ UNCHANGED <<lntq, rntq>>
  /\ UNCHANGED <<hostw, host, res, ldq, rdq, pool, disk, tohost, fatal>>

\* The rest of rntq.push: construct the task in slots_[writeIdx] and store
\* writeIdx + 1, with the index loaded before.  Two threads that loaded the
\* same index write the same slot.
RntqStore(n, i) ==
  /\ rpush[n][i] # NoPush
  /\ rntq' = [rntq EXCEPT ![n].slots[rpush[n][i].k] = rpush[n][i].t,
                          ![n].writeIdx = rpush[n][i].k + 1]
  /\ rpush' = [rpush EXCEPT ![n][i] = NoPush]
  /\ UNCHANGED <<hostw, host, stage, res, lntq, ldq, rdq, pool, disk, tohost, fatal>>

\* Mutant: the handler returns without waiting on the task's future.
HandleSpillReply_nowait(t) ==
  /\ stage[t] = "queued"
  /\ IF t \in Spills THEN TRUE ELSE rpush[Peer(ItemNode(t))][RdmaThread(t)] = NoPush
  /\ stage' = [stage EXCEPT ![t] = "replied"]
  /\ UNCHANGED <<hostw, host, res, lntq, rntq, rpush, ldq, rdq, pool, disk, tohost, fatal>>

\* Second half: the task's res is set (to buf.size(), so the check passes);
\* the handler returns n_read and the bulk future of the sender resolves.
HandleSpillReply(t) ==
  /\ stage[t] = "queued"
  /\ res[t]
  \* the fibers of an RDMA thread inside rntq.push do not run
  /\ IF t \in Spills THEN TRUE ELSE rpush[Peer(ItemNode(t))][RdmaThread(t)] = NoPush
  /\ stage' = [stage EXCEPT ![t] = "replied"]
  /\ UNCHANGED <<hostw, host, res, lntq, rntq, rpush, ldq, rdq, pool, disk, tohost, fatal>>

\* Mutant: the task is read with front() but lntq is never popped.
DispatchLocal_nopop(n) ==
  /\ lntq[n] # <<>>
  /\ ldq' = [ldq EXCEPT ![n] = Append(@, Head(lntq[n]))]
  /\ UNCHANGED <<hostw, host, stage, res, lntq, rntq, rpush, rdq, pool, disk, tohost, fatal>>

\* NaiveShuffleWorkerPool::submit_task: push t onto rdq under rmu when it
\* came from the peer, else onto ldq under lmu, then notify one worker (a
\* waiting do_shuffle thread is enabled by the non-empty queue).
submit_task(n, t, from_remote) ==
  IF from_remote
    THEN rdq' = [rdq EXCEPT ![n] = Append(@, t)] /\ UNCHANGED ldq
    ELSE ldq' = [ldq EXCEPT ![n] = Append(@, t)] /\ UNCHANGED rdq

\* Endpoint::register_remote_memory (Comch and RDMA alike): r_mmap holds
\* one region ("only support one active bulk transfer"); registering the
\* same region again returns, and an empty r_mmap takes the new one.
register_remote_memory(m, r) == IF m = NoRegion THEN r ELSE m

\* ... and registering any other region while one is held dies with
\* "Duplicated registration".
DuplicatedRegistration(m, r) == m \notin {NoRegion, r}

\* Endpoint::unregister_remote_memory: stop and destroy r_mmap, if any.
unregister_remote_memory == NoRegion

\* Transport::register_memory: a oneway RegisterMemory to the serving side,
\* whose handler (reigster_related_bulk_handlers) runs the endpoint's
\* register_remote_memory; the die ends the serving process.  The oneway
\* goes out on the connection ahead of the bulk() calls, and the serving
\* side's fibers are woken in the order their receives complete, so the
\* handler has run when the first bulk request is dispatched.
register_memory(ep, r) ==
  /\ r_mmap' = [r_mmap EXCEPT ![ep] = register_remote_memory(@, r)]
  /\ fatal' = IF DuplicatedRegistration(r_mmap[ep], r)
               THEN "Duplicated registration" ELSE fatal

\* Transport::unregister_memory: a oneway UnregisterMemory, whose handler
\* runs the endpoint's unregister_remote_memory.
unregister_memory(ep) ==
  r_mmap' = [r_mmap EXCEPT ![ep] = unregister_remote_memory]

\* server_main's loop: lntq first, else rntq, into submit_task.
DispatchLocal(n) ==
  /\ lntq[n] # <<>>
  /\ submit_task(n, Head(lntq[n]), FALSE)
  /\ lntq' = [lntq EXCEPT ![n] = Tail(@)]
  /\ UNCHANGED <<hostw, host, stage, res, rntq, rpush, pool, disk, tohost, fatal>>

\* rntq.front() is not null while readIdx_ differs from writeIdx_; the task
\* is the slot at readIdx_, and pop() advances it.  (writeIdx_ only falls
\* below readIdx_ after two pushes raced, which has already lost a task.)
DispatchRemote(n) ==
  /\ lntq[n] = <<>>
  /\ rntq[n].readIdx < rntq[n].writeIdx
  /\ submit_task(n, rntq[n].slots[rntq[n].readIdx], TRUE)
  /\ rntq' = [rntq EXCEPT ![n].readIdx = @ + 1]
  /\ UNCHANGED <<hostw, host, stage, res, lntq, rpush, pool, disk, tohost, fatal>>

----------------------------------------------------------------------------
(* DPU: the do_shuffle threads of NaiveShuffleWorkerPool.                  *)

\* c.wait under lmu or rmu until the worker's queue is not empty; take and
\* pop its front.  A local worker then partitions the spill with pfn.
ShufflePop(n, w) ==
  LET dq == IF IsLocalWorker(w) THEN ldq[n] ELSE rdq[n]
  IN /\ wpc[n][w] = "idle"
     /\ dq # <<>>
     /\ wtask' = [wtask EXCEPT ![n][w] = Head(dq)]
     /\ IF IsLocalWorker(w)
          THEN /\ ldq' = [ldq EXCEPT ![n] = Tail(@)] /\ UNCHANGED rdq
          ELSE /\ rdq' = [rdq EXCEPT ![n] = Tail(@)] /\ UNCHANGED ldq
     /\ wpc' = [wpc EXCEPT ![n][w] = "lock_io"]
     /\ UNCHANGED <<hostw, host, stage, res, lntq, rntq, rpush, wpend, io_mu, rdma_mu, ridx,
                    active_rdma_idx, r_mmap, disk, tohost, fatal>>

\* The batch a worker bulk()s to its host under io_mu: every partition of
\* local_ps, or the whole received partition buffer.
IoBatch(n, w) ==
  IF IsLocalWorker(w) THEN {Item(wtask[n][w], p) : p \in LocalPs(n)}
                      ELSE {wtask[n][w]}

\* Mutant: the bulks to the host are issued without taking io_mu.
LockIo_nolock(n, w) ==
  /\ wpc[n][w] = "lock_io"
  /\ io_mu' = [io_mu EXCEPT ![n] = w]
  /\ register_memory(IoEp(n), wtask[n][w])
  /\ wpend' = [wpend EXCEPT ![n][w] = IoBatch(n, w)]
  /\ tohost' = [tohost EXCEPT ![n] = @ \cup IoBatch(n, w)]
  /\ wpc' = [wpc EXCEPT ![n][w] = "io"]
  /\ UNCHANGED <<hostw, host, dpu, wtask, rdma_mu, ridx, active_rdma_idx, disk>>

\* lock_guard l(io_mu), register the scatter region (or the buffer) and
\* issue the bulk() calls to the host's "disk" worker.
LockIo(n, w) ==
  /\ wpc[n][w] = "lock_io"
  /\ io_mu[n] = NoWorker
  /\ io_mu' = [io_mu EXCEPT ![n] = w]
  /\ register_memory(IoEp(n), wtask[n][w])
  /\ wpend' = [wpend EXCEPT ![n][w] = IoBatch(n, w)]
  /\ tohost' = [tohost EXCEPT ![n] = @ \cup IoBatch(n, w)]
  /\ wpc' = [wpc EXCEPT ![n][w] = "io"]
  /\ UNCHANGED <<hostw, host, dpu, wtask, rdma_mu, ridx, active_rdma_idx, disk>>

\* The host's HostSpillWorker runs its serve loop, its progress_io fiber
\* and its submit_direct_spill fiber on one thread.  The spiller waits for
\* the files on a std::condition_variable, which blocks that thread and so
\* every fiber of the worker until create_partition_files notifies it.
ThreadRuns(n) == spc[n] # "wait" \/ files[n]

\* The partition buffers a host's worker holds: in io_q, in the spiller's
\* hands or written through the ring.
HostHeld(n) == {ioq[n][k] : k \in DOMAIN ioq[n]} \cup ring[n] \cup ({stask[n]} \ {NoItem})

\* Java_pdsl_dpx_NaiveTransEnv_TriggerSpillStart: create_partition_files
\* opens the max_n_partition files (returning at once if they exist) and
\* notifies c; an open() that fails dies.
create_partition_files(n) ==
  /\ ~files[n]
  /\ \/ files' = [files EXCEPT ![n] = TRUE] /\ UNCHANGED fatal
     \/ fatal' = "Fail to create partition file" /\ UNCHANGED files
  /\ UNCHANGED <<host, dpu, pool, disk, tohost, ioq, spc, stask, ring, spilling, jdone>>

\* HostSpillWorker::handle_spill_request for one bulk of a do_shuffle
\* batch: bulk_read the partition buffer and push a FileIOTask onto io_q;
\* the handler fiber then waits on the task's promise.
HostHandleRequest(n, w, i) ==
  /\ wpc[n][w] = "io"
  /\ i \in wpend[n][w] \ (disk[n] \cup HostHeld(n))
  /\ ThreadRuns(n) /\ HostRunning(n)
  /\ Len(ioq[n]) < IoQCap
  /\ ioq' = [ioq EXCEPT ![n] = Append(@, i)]
  /\ UNCHANGED <<host, dpu, pool, disk, tohost, fatal, spc, stask, ring, files, spilling, jdone>>

\* submit_direct_spill: io_q is not empty; take its front and pop it, then
\* c.wait under mu until the files exist.
SpillerPop(n) ==
  /\ HostRunning(n)
  /\ spc[n] = "poll"
  /\ ioq[n] # <<>>
  /\ stask' = [stask EXCEPT ![n] = Head(ioq[n])]
  /\ ioq' = [ioq EXCEPT ![n] = Tail(@)]
  /\ spc' = [spc EXCEPT ![n] = "wait"]
  /\ UNCHANGED <<host, dpu, pool, disk, tohost, fatal, ring, files, spilling, jdone>>

\* The files exist: prepare the write at the partition file's offset,
\* advance the offset and io_uring_submit the sqe.
SpillerSubmit(n) ==
  /\ HostRunning(n)
  /\ spc[n] = "wait"
  /\ files[n]
  /\ ring' = [ring EXCEPT ![n] = @ \cup {stask[n]}]
  /\ stask' = [stask EXCEPT ![n] = NoItem]
  /\ spc' = [spc EXCEPT ![n] = "poll"]
  /\ UNCHANGED <<host, dpu, pool, disk, tohost, fatal, ioq, files, spilling, jdone>>

\* progress_io finds the cqe of a write and sets spilling; the task's
\* promise gets buffer->size() when the write succeeded (res > 0), and the
\* handler fiber compares it with the size and returns n_read to the DPU.
\* A failed write (res <= 0) sets the promise to res, and the handler dies.
IoComplete(n, i) ==
  /\ ThreadRuns(n) /\ HostRunning(n)
  /\ i \in ring[n]
  /\ ring' = [ring EXCEPT ![n] = @ \ {i}]
  /\ spilling' = [spilling EXCEPT ![n] = TRUE]
  /\ \/ disk' = [disk EXCEPT ![n] = @ \cup {i}] /\ UNCHANGED fatal
     \/ fatal' = "Fail to spill partition buffer" /\ UNCHANGED disk
  /\ UNCHANGED <<host, dpu, pool, tohost, ioq, spc, stask, files, jdone>>

\* progress_io counts its empty peeks of the completion queue (a write still
\* in flight counts too): the 10000th sets spilling = false.
SpillingIdle(n) ==
  /\ ThreadRuns(n) /\ HostRunning(n)
  /\ spilling[n]
  /\ spilling' = [spilling EXCEPT ![n] = FALSE]
  /\ UNCHANGED <<host, dpu, pool, disk, tohost, fatal, ioq, spc, stask, ring, files, jdone>>

\* Java_pdsl_dpx_NaiveTransEnv_WaitForSpillDone, called by the JVM once its
\* Spill calls on this host have returned.
WaitForSpillDone(n) ==
  /\ jdone[n] = "spill"
  /\ \E s \in Spills : Origin(s) = n
  /\ \A s \in Spills : Origin(s) = n => jpc[s] = "returned"
  /\ jdone' = [jdone EXCEPT ![n] = "poll"]
  /\ UNCHANGED <<host, dpu, pool, disk, tohost, fatal, ioq, spc, stask, ring, files, spilling>>

\* while (sw->is_spilling()) sleep_for(1s): the loop ends on a read of false.
WaitPoll(n) ==
  /\ jdone[n] = "poll"
  /\ ~spilling[n]
  /\ jdone' = [jdone EXCEPT ![n] = "close"]
  /\ UNCHANGED <<host, dpu, pool, disk, tohost, fatal, ioq, spc, stask, ring, files, spilling>>

\* HostSpillWorker::close_partition_files under mu: return if there are no
\* files, else close every fd and files.resize(0).  A write already in the
\* ring keeps its file; a task the spiller takes later waits on c again.
close_partition_files(n) ==
  /\ jdone[n] = "close"
  /\ files' = [files EXCEPT ![n] = FALSE]
  /\ jdone' = [jdone EXCEPT ![n] = "done"]
  /\ UNCHANGED <<host, dpu, pool, disk, tohost, fatal, ioq, spc, stask, ring, spilling>>

\* Java_pdsl_dpx_NaiveTransEnv_Destroy: running = false (the flag the
\* agent's fibers and the worker's fibers loop on), then delete sa and
\* delete sw, each joining its thread.  The JVM calls it after
\* WaitForSpillDone.
Destroy(n) ==
  /\ jdone[n] = "done"
  /\ jdone' = [jdone EXCEPT ![n] = "destroying"]
  /\ UNCHANGED <<host, dpu, pool, disk, tohost, fatal, ioq, spc, stask, ring, files, spilling>>

\* The joins return: every do_spill fiber is at the top of its loop (one
\* in the middle of a spill finishes it first), and the worker's thread
\* gets out of serve_until and its fibers.  A spiller blocked on c (no
\* files; Destroy does not notify) never leaves, nor does a serve fiber
\* waiting on the promise of a task in io_q, in the spiller's hands or in
\* the ring, since the fibers that would set it have left their loops.
DestroyReturn(n) ==
  /\ jdone[n] = "destroying"
  /\ \A f \in Fibers : apc[n][f] = "poll"
  /\ spc[n] = "poll" \/ files[n]
  /\ HostHeld(n) = {}
  /\ jdone' = [jdone EXCEPT ![n] = "destroyed"]
  /\ UNCHANGED <<host, dpu, pool, disk, tohost, fatal, ioq, spc, stask, ring, files, spilling>>

\* Mutant: a remote worker leaves io_mu locked after its bulk.
IoDone_keeplock(n, w) ==
  /\ wpc[n][w] = "io"
  /\ wpend[n][w] \subseteq disk[n]
  /\ IF IsLocalWorker(w)
       THEN IF wpend[n][w] # {} /\ PartLen # ScatterLen
              THEN /\ fatal' = "Fail to trans data"
                   /\ UNCHANGED <<res, pool>>
              ELSE /\ unregister_memory(IoEp(n))
                   /\ io_mu' = [io_mu EXCEPT ![n] = NoWorker]
                   /\ wpc' = [wpc EXCEPT ![n][w] = "pick_rdma"]
                   /\ UNCHANGED <<res, wtask, wpend, rdma_mu, ridx, active_rdma_idx, fatal>>
       ELSE /\ unregister_memory(IoEp(n))
            /\ res' = [res EXCEPT ![wtask[n][w]] = TRUE]
            /\ wpc' = [wpc EXCEPT ![n][w] = "idle"]
            /\ wtask' = [wtask EXCEPT ![n][w] = NoTask]
            /\ wpend' = [wpend EXCEPT ![n][w] = {}]
            /\ UNCHANGED <<io_mu, rdma_mu, ridx, active_rdma_idx, fatal>>
  /\ UNCHANGED <<hostw, host, stage, lntq, rntq, rpush, ldq, rdq, disk, tohost>>

\* Every bulk future of the batch is answered with PartLen, the length of
\* the partition.  A local worker compares it with mr.size(), the whole
\* scatter buffer, and dies; a remote worker compares it with b->size(),
\* releases io_mu and sets the task's res.
IoDone(n, w) ==
  /\ wpc[n][w] = "io"
  /\ wpend[n][w] \subseteq disk[n]
  /\ IF IsLocalWorker(w)
       THEN IF wpend[n][w] # {} /\ PartLen # ScatterLen
              THEN /\ fatal' = "Fail to trans data"
                   /\ UNCHANGED <<res, pool>>
              ELSE /\ unregister_memory(IoEp(n))
                   /\ io_mu' = [io_mu EXCEPT ![n] = NoWorker]
                   /\ wpc' = [wpc EXCEPT ![n][w] = "pick_rdma"]
                   /\ UNCHANGED <<res, wtask, wpend, rdma_mu, ridx, active_rdma_idx, fatal>>
       ELSE /\ unregister_memory(IoEp(n))
            /\ io_mu' = [io_mu EXCEPT ![n] = NoWorker]
            /\ res' = [res EXCEPT ![wtask[n][w]] = TRUE]
            /\ wpc' = [wpc EXCEPT ![n][w] = "idle"]
            /\ wtask' = [wtask EXCEPT ![n][w] = NoTask]
            /\ wpend' = [wpend EXCEPT ![n][w] = {}]
            /\ UNCHANGED <<rdma_mu, ridx, active_rdma_idx, fatal>>
  /\ UNCHANGED <<hostw, host, stage, lntq, rntq, rpush, ldq, rdq, disk, tohost>>

\* The partitions a local worker bulk()s to the peer: the loop at line 268
\* iterates local_ps.
RdmaBatch(n, w) == {Item(wtask[n][w], p) : p \in LocalPs(n)}

\* Mutant: active_rdma_idx.fetch_add(1) used as the index without the
\* % rdmas.size().
PickRdma_nomod(n, w) ==
  /\ wpc[n][w] = "pick_rdma"
  /\ ridx' = [ridx EXCEPT ![n][w] = IF NRdma > 1 THEN active_rdma_idx[n] ELSE 0]
  /\ active_rdma_idx' = IF NRdma > 1
                          THEN [active_rdma_idx EXCEPT ![n] = @ + 1]
                          ELSE active_rdma_idx
  /\ wpc' = [wpc EXCEPT ![n][w] = "lock_rdma"]
  /\ UNCHANGED <<hostw, host, dpu, wtask, wpend, io_mu, rdma_mu, r_mmap, disk, tohost, fatal>>

\* The transport a local worker bulk()s through: rdmas.size() > 1 ?
\* active_rdma_idx.fetch_add(1) % rdmas.size() : 0, taken before the lock.
PickRdma(n, w) ==
  /\ wpc[n][w] = "pick_rdma"
  /\ ridx' = [ridx EXCEPT ![n][w] = IF NRdma > 1 THEN active_rdma_idx[n] ELSE 0]
  /\ active_rdma_idx' = IF NRdma > 1
                          THEN [active_rdma_idx EXCEPT ![n] = (@ + 1) % NRdma]
                          ELSE active_rdma_idx
  /\ wpc' = [wpc EXCEPT ![n][w] = "lock_rdma"]
  /\ UNCHANGED <<hostw, host, dpu, wtask, wpend, io_mu, rdma_mu, r_mmap, disk, tohost, fatal>>

\* lock_guard l(rdma_mus[idx]), register mr and issue the bulk()s to the
\* peer DPU's NaiveSpillWorker<RDMA> of rdmas[idx].
LockRdma(n, w) ==
  /\ wpc[n][w] = "lock_rdma"
  /\ rdma_mu[n][ridx[n][w]] = NoWorker
  /\ rdma_mu' = [rdma_mu EXCEPT ![n][ridx[n][w]] = w]
  /\ register_memory(RdmaEp(n, ridx[n][w]), wtask[n][w])
  /\ wpend' = [wpend EXCEPT ![n][w] = RdmaBatch(n, w)]
  /\ stage' = [t \in Tasks |-> IF t \in RdmaBatch(n, w) THEN "sent"
                                                         ELSE stage[t]]
  /\ wpc' = [wpc EXCEPT ![n][w] = "rdma"]
  /\ UNCHANGED <<hostw, host, res, lntq, rntq, rpush, ldq, rdq, wtask, io_mu, ridx,
                 active_rdma_idx, disk, tohost>>

\* The worker leaves the block: rdma_mus[idx] is unlocked and idx is gone.
ReleaseRdma(n, w) ==
  /\ rdma_mu' = [rdma_mu EXCEPT ![n][ridx[n][w]] = NoWorker]
  /\ ridx' = [ridx EXCEPT ![n][w] = NoRdma]

\* Every RDMA bulk is answered with PartLen and compared with mr.size();
\* then the spill's res is set to b->size().
RdmaDone(n, w) ==
  /\ wpc[n][w] = "rdma"
  /\ \A i \in wpend[n][w] : stage[i] = "replied"
  /\ IF wpend[n][w] # {} /\ PartLen # ScatterLen
       THEN /\ fatal' = "Fail to trans data"
            /\ UNCHANGED <<res, pool>>
       ELSE /\ unregister_memory(RdmaEp(n, ridx[n][w]))
            /\ ReleaseRdma(n, w)
            /\ res' = [res EXCEPT ![wtask[n][w]] = TRUE]
            /\ wpc' = [wpc EXCEPT ![n][w] = "idle"]
            /\ wtask' = [wtask EXCEPT ![n][w] = NoTask]
            /\ wpend' = [wpend EXCEPT ![n][w] = {}]
            /\ UNCHANGED <<io_mu, active_rdma_idx, fatal>>
  /\ UNCHANGED <<hostw, host, stage, lntq, rntq, rpush, ldq, rdq, disk, tohost>>

----------------------------------------------------------------------------
\* Every JVM Spill call has returned, or a process died: nothing is left to
\* do (the server loops stay idle).
Quiescent ==
  /\ (\A s \in Spills : jpc[s] = "returned") \/ fatal # "none"
  /\ UNCHANGED vars

Step ==
  \/ \E n \in Nodes :
       \/ DispatchLocal(n) \/ DispatchRemote(n)
       \/ \E i \in RdmaIdx : RntqStore(n, i)
       \/ \E f \in Fibers : AgentPop(n, f) \/ AgentBulk(n, f) \/ AgentDone(n, f)
       \/ \E w \in Workers :
            \/ ShufflePop(n, w) \/ LockIo(n, w) \/ IoDone(n, w)
            \/ PickRdma(n, w) \/ LockRdma(n, w) \/ RdmaDone(n, w)
            \/ \E i \in Items : HostHandleRequest(n, w, i)
       \/ create_partition_files(n) \/ SpillerPop(n) \/ SpillerSubmit(n)
       \/ \E i \in Items : IoComplete(n, i)
       \/ SpillingIdle(n) \/ WaitPoll(n) \/ close_partition_files(n)
       \/ DestroyReturn(n)
  \/ \E t \in Tasks : HandleSpillRequest(t) \/ HandleSpillReply(t)
  \/ \E s \in Spills : SpillReturn(s)

Next ==
  \/ fatal = "none" /\ \E s \in Spills : Spill(s)
  \/ fatal = "none" /\ \E n \in Nodes : WaitForSpillDone(n) \/ Destroy(n)
  \/ fatal = "none" /\ Step
  \/ Quiescent

\* The threads and fibers of the system run when they can; the JVM is not
\* obliged to call Spill.  Weak fairness of Step as a whole is weaker than
\* weak fairness of each thread, and enough here: every step moves a task
\* forward, the tasks are finite, so a step of any one thread that stays
\* enabled is eventually taken.
Fairness == WF_vars(fatal = "none" /\ Step)

Spec == Init /\ [][Next]_vars /\ Fairness

----------------------------------------------------------------------------
(* Properties.                                                             *)

TypeOK ==
  /\ jpc \in [Spills -> {"idle", "waiting", "returned"}]
  /\ q \in [Nodes -> Seq(Spills)]
  /\ apc \in [Nodes -> [Fibers -> {"poll", "acquire", "bulk"}]]
  /\ atask \in [Nodes -> [Fibers -> Spills \cup {NoTask}]]
  /\ bfree \in [Nodes -> 0 .. NAgentBufs]
  /\ stage \in [Tasks -> Stages]
  /\ res \in [Tasks -> BOOLEAN]
  /\ \A n \in Nodes : lntq[n] \in Seq(Spills) /\ ldq[n] \in Seq(Spills)
                      /\ rdq[n] \in Seq(Items)
  /\ rntq \in [Nodes -> [slots : [PushIdx -> Items \cup {NoItem}],
                         writeIdx : 0 .. MaxPush, readIdx : 0 .. MaxPush]]
  /\ rpush \in [Nodes -> [RdmaIdx -> {NoPush} \cup [t : Items, k : PushIdx]]]
  /\ wpc \in [Nodes -> [Workers -> {"idle", "lock_io", "io", "pick_rdma", "lock_rdma", "rdma"}]]
  /\ wtask \in [Nodes -> [Workers -> Tasks \cup {NoTask}]]
  /\ wpend \in [Nodes -> [Workers -> SUBSET Items]]
  /\ io_mu \in [Nodes -> Workers \cup {NoWorker}]
  /\ rdma_mu \in [Nodes -> [RdmaIdx -> Workers \cup {NoWorker}]]
  /\ ridx \in [Nodes -> [Workers -> RdmaIdx \cup {NoRdma}]]
  /\ active_rdma_idx \in [Nodes -> RdmaIdx]
  /\ r_mmap \in [Endpoints -> Tasks \cup {NoRegion}]
  /\ disk \in [Nodes -> SUBSET Items]
  /\ tohost \in [Nodes -> SUBSET Items]
  /\ ioq \in [Nodes -> Seq(Items)]
  /\ spc \in [Nodes -> {"poll", "wait"}]
  /\ stask \in [Nodes -> Items \cup {NoItem}]
  /\ ring \in [Nodes -> SUBSET Items]
  /\ files \in [Nodes -> BOOLEAN]
  /\ spilling \in [Nodes -> BOOLEAN]
  /\ jdone \in [Nodes -> {"spill", "poll", "close", "done", "destroying", "destroyed"}]

Occ(sq, t) == Cardinality({k \in DOMAIN sq : sq[k] = t})

\* The copies of a task in the places that hold one: a host's q, a do_spill
\* fiber still acquiring a buffer, a DPU's lntq, rntq, ldq and rdq, and the
\* do_shuffle threads.
Copies(t) ==
  LET AtNode(n) ==
        Occ(q[n], t) + Occ(lntq[n], t)
        + Cardinality({k \in rntq[n].readIdx .. rntq[n].writeIdx - 1 :
                         rntq[n].slots[k] = t})
        + Cardinality({i \in RdmaIdx : rpush[n][i].t = t})
        + Occ(ldq[n], t) + Occ(rdq[n], t)
        + Cardinality({f \in Fibers : apc[n][f] = "acquire" /\ atask[n][f] = t})
        + Cardinality({w \in Workers : wtask[n][w] = t})
  IN AtNode(20) + AtNode(21)

\* A spill the JVM pushed that no fiber has bulk()ed yet, or a spill or
\* partition a NaiveSpillWorker handler queued and whose res is not set.
Pending(t) ==
  \/ t \in Spills /\ jpc[t] = "waiting" /\ stage[t] = "none"
  \/ stage[t] = "queued" /\ ~res[t]

\* Every task between Spill's q.push and the do_shuffle thread that sets
\* its res sits in exactly one queue or thread: the SPSC pops of do_spill
\* and server_main, submit_task and do_shuffle's pop neither lose nor copy it.
NoTaskLostOrDuplicated ==
  \A t \in Tasks : Copies(t) = IF Pending(t) THEN 1 ELSE 0

\* When a JVM Spill call returns, none of the spill's partition buffers is
\* still on its way: every one a DPU bulk()ed to a host is on that host's
\* disk, and every one sent to the peer DPU has been answered.  The chain is
\* do_spill -> handle_spill_request -> do_shuffle (io, then rdma) -> the
\* peer's handle_spill_request -> its do_shuffle -> its host.
SpillSettledOnReturn ==
  \A s \in Spills : jpc[s] = "returned" =>
    \A p \in Partitions :
      /\ stage[Item(s, p)] \in {"none", "replied"}
      /\ \A n \in Nodes : Item(s, p) \in tohost[n] => Item(s, p) \in disk[n]

\* Every Spill call of the JVM returns, unless a process dies.
SpillReturns ==
  \A s \in Spills : jpc[s] = "waiting" ~> (jpc[s] = "returned" \/ fatal # "none")

\* The host a partition belongs to: the DispatchFn of the spilling DPU keeps
\* it (FALSE) or hands it to the peer (TRUE).
Home(s, p) == IF RemoteFn(Origin(s), p) THEN Peer(Origin(s)) ELSE Origin(s)

\* When a Spill returns, each partition of the spill is on the disk of its
\* home host and on no other: the split of do_shuffle into local_ps and
\* remote_ps routes every partition to exactly one host.
PartitionsAtHome ==
  \A s \in Spills : jpc[s] = "returned" =>
    \A p \in Partitions : \A n \in Nodes :
      (Item(s, p) \in disk[n]) <=> (n = Home(s, p))

\* No process dies.
\* The "only support one active bulk transfer" of the Comch and RDMA
\* endpoints (their single r_mmap), which io_mu and rdma_mus are there to
\* keep: while a do_shuffle thread's bulk() calls through io or rdmas[i]
\* are outstanding, the serving endpoint has that thread's region
\* registered, so the bulk_read of each of its requests finds the remote
\* buffer; and no RegisterMemory handler has died on another region.
OneActiveBulk ==
  /\ fatal # "Duplicated registration"
  /\ \A n \in Nodes, w \in Workers :
       /\ wpc[n][w] = "io" => r_mmap[IoEp(n)] = wtask[n][w]
       /\ wpc[n][w] = "rdma" => r_mmap[RdmaEp(n, ridx[n][w])] = wtask[n][w]

NoFatal == fatal = "none"

====
