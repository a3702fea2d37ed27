----------------------------- MODULE DiskSpill -----------------------------
(***************************************************************************)
(* The host-to-DPU disk spill pipeline of the offload server.              *)
(*                                                                         *)
(* Host (trans_native.cxx, one JVM thread):                                *)
(*   SpillAgent   append_or_spill / force_spill fill one PartitionBuffer   *)
(*                per partition from dma_buffer_pool and push full ones    *)
(*                to spill_q; the issue_spill thread bulk()s each batch to *)
(*                the DPU and releases every buffer once its answer is in. *)
(*   DiskAgent    mount_on_dpu / umount_on_dpu hand the disk to the DPU    *)
(*                with the Mount and Umount RPCs and take it back.         *)
(* DPU (offload_server.cxx):                                               *)
(*   LocalSpillWorker / RemoteSpillWorker producers: handle_spill_request  *)
(*                takes a spill_bp buffer, bulk_reads the partition buffer,*)
(*                queues a SpillTask and waits for its result.             *)
(*   PipelineShuffleWorkerPool::do_dispatch moves local tasks to the peer  *)
(*                DPU (trsq) or to the disk (dsq), remote tasks to dsq.    *)
(*   RemoteSpillWorker consumer do_transfer bulk()s a trsq task to the     *)
(*                peer.                                                    *)
(*   DirectSpillWorker: submit_direct_spill writes a dsq task to the file  *)
(*                of its partition with io_uring, progress_io completes    *)
(*                it, do_mount / do_umount serve the Mount and Umount RPCs.*)
(*                                                                         *)
(* The RPCs and bulk transfers themselves are the Transport module's       *)
(* subject; here a request is an entry of a FIFO and its answer a value.   *)
(* Payload bytes are abstracted to records <<partition, n>>; the header of *)
(* a PartitionBuffer counts as one unit of length.                         *)
(***************************************************************************)
EXTENDS Naturals, Integers, Sequences, FiniteSets, SequencesExt

CONSTANTS
  NParts,        \* max_n_partition: partitions 1..NParts, file i is p(i-1)
  RemoteParts,   \* partitions for which the DispatchFn fn(pid) is TRUE
  NHostBufs,     \* buffers of the SpillAgent's dma_buffer_pool
  NDpuBufs,      \* buffers of the DPU's shared spill_bp
  QueueDepth,    \* serve_until workers of the LocalSpillWorker
  RemoteDepth,   \* serve_until workers of the RemoteSpillWorker producer
  BufCap,        \* records that fit in one PartitionBuffer after its header
  MaxAppends,    \* bound on Append calls
  MaxRounds,     \* bound on TriggerSpillStart calls that mount on the DPU
  RemoteIn,      \* bound on spill requests arriving from the peer DPU
  EmptyAppends   \* whether Append may pass an empty key and value

Partitions == 1 .. NParts
HostBufs == 1 .. NHostBufs
DpuBufs == 1 .. NDpuBufs
LocalHandlers == 1 .. QueueDepth
RemoteHandlers == QueueDepth + 1 .. QueueDepth + RemoteDepth
Handlers == LocalHandlers \cup RemoteHandlers
NoBuf == 0
NoRes == -2
Records == Partitions \X (1 .. MaxAppends + RemoteIn)
Fates == {"ok", "ebadf", "reused"}
Fatals == {"none", "too_fast", "read_fail", "spill_fail", "trans_fail",
           "already_mounted", "not_mounted", "create_fail", "host_umount_fail",
           "mount_fail", "umount_fail", "host_mount_fail"}

ASSUME /\ NParts \in Nat \ {0} /\ RemoteParts \subseteq Partitions
       /\ NHostBufs \in Nat \ {0} /\ NDpuBufs \in Nat \ {0}
       /\ QueueDepth \in Nat \ {0} /\ RemoteDepth \in Nat
       /\ BufCap \in Nat \ {0} /\ EmptyAppends \in BOOLEAN

VARIABLES
  \* JVM thread and SpillAgent
  jpc,        \* "ready" | "acq_append" | "acq_force" | "mounting" | "umounting"
              \* | "destroying" (joining issue_spill) | "destroyed"
  jp,         \* partition of the Append in progress
  jrec,       \* record still to append once a buffer is acquired ({} or one)
  jlast,      \* is_last of the Append in progress
  nappends,   \* Append calls so far
  rounds,     \* TriggerSpillStart calls that mounted the disk on the DPU
  hmounted,   \* DiskAgent::mounted (the host holds the disk)
  active,     \* SpillAgent::active_buffers
  hbuf,       \* PartitionBuffer header and payload of each host buffer
  hfree,      \* free list of dma_buffer_pool
  hspill_q,   \* SpillAgent::spill_q
  ibatch,     \* buffers swapped out by issue_spill, answers awaited in order
  running,    \* the global running flag the SpillAgent shares
  ipc,        \* issue_spill thread: "run" | "exited"
  \* requests and answers between host and DPU
  breq,       \* Bulk requests on their way to the LocalSpillWorker
  bresp,      \* answer (n_read) of the Bulk call of each host buffer
  rin,        \* spill requests received from the peer DPU so far
  drpc,       \* Mount/Umount RPC: "none" | "mount" | "umount" | "umount_wait"
              \* | "reply" (rc 0) | "reply_fail" (rc != 0)
  \* DPU
  hpc,        \* each handle_spill_request fiber: "idle" | "wait"
  hreq,       \* host buffer a local handler serves
  hdbuf,      \* spill_bp buffer a handler holds
  task,       \* SpillTask of each handler: partition, records, promise value
  dfree,      \* free list of spill_bp
  lsq, rsq,   \* producer task queues (lsqs[0], rsqs[0])
  trsq,       \* consumer task queue trsqs[0]
  dsq,        \* DirectSpillWorker::spill_q
  spc,        \* spiller fiber: "poll" | "wait_files"
  stask,      \* task the spiller holds while it waits for the files
  files,      \* DirectSpillWorker::files: partition and whether fd is open
  dmounted,   \* DirectSpillWorker::mounted
  ring,       \* submitted io_uring writes: task and what the fd referred to
  issued_io,  \* DirectSpillWorker::issued_io
  disk,       \* contents of each partition file on the spill device
  subm,       \* records submitted to spill_q since the last mount on the DPU
  fatal       \* reason of the die() that ended the process, or "none"

jvm == <<jpc, jp, jrec, jlast, nappends, rounds, hmounted>>
agent == <<active, hbuf, hfree, hspill_q, ibatch, running, ipc>>
chan == <<breq, bresp, rin, drpc>>
dpu == <<hpc, hreq, hdbuf, task, dfree, lsq, rsq, trsq, dsq, spc, stask,
         files, dmounted, ring, issued_io, disk>>
vars == <<jvm, agent, chan, dpu, subm, fatal>>

PoolInit(n) == [i \in 1 .. n |-> i]

\* PartitionBuffer::total_size(): header plus payload
TotalSize(data) == 1 + Cardinality(data)

\* PartitionBuffer::need_spill(expected_size)
NeedSpill(b, n) == 1 + Cardinality(hbuf[b].data) + n > 1 + BufCap

Init ==
  /\ jpc = "ready" /\ jp = 1 /\ jrec = {} /\ jlast = FALSE
  /\ nappends = 0 /\ rounds = 0 /\ hmounted = TRUE
  /\ active = [p \in Partitions |-> NoBuf]
  /\ hbuf = [b \in HostBufs |-> [part |-> 1, data |-> {}]]
  /\ hfree = PoolInit(NHostBufs) /\ hspill_q = <<>> /\ ibatch = <<>>
  /\ running = TRUE /\ ipc = "run"
  /\ breq = <<>> /\ bresp = [b \in HostBufs |-> NoRes] /\ rin = 0
  /\ drpc = "none"
  /\ hpc = [h \in Handlers |-> "idle"] /\ hreq = [h \in Handlers |-> NoBuf]
  /\ hdbuf = [h \in Handlers |-> NoBuf]
  /\ task = [h \in Handlers |-> [part |-> 1, data |-> {}, res |-> NoRes]]
  /\ dfree = PoolInit(NDpuBufs)
  /\ lsq = <<>> /\ rsq = <<>> /\ trsq = <<>> /\ dsq = <<>>
  /\ spc = "poll" /\ stask = 0 /\ files = <<>> /\ dmounted = FALSE
  /\ ring = {} /\ issued_io = 0 /\ disk = [p \in Partitions |-> {}]
  /\ subm = {} /\ fatal = "none"

(***************************************************************************)
(* Host: the JVM thread (trans_native.cxx) and the SpillAgent.             *)
(***************************************************************************)

\* SpillAgent::submit_spill_buffer: push b to spill_q and notify issue_spill
submit_spill_buffer(b) ==
  /\ hspill_q' = Append(hspill_q, b)
  /\ subm' = subm \cup hbuf'[b].data

\* TransEnv.TriggerSpillStart -> DiskAgent::mount_on_dpu: the host umounts
\* the disk (die when umount fails) and calls Mount.  When the DPU already
\* holds the disk the call returns at once and changes nothing, so it is no
\* step.
TriggerSpillStart ==
  /\ fatal = "none" /\ jpc = "ready" /\ hmounted /\ rounds < MaxRounds
  /\ \/ /\ hmounted' = FALSE /\ drpc' = "mount" /\ jpc' = "mounting"
        /\ rounds' = rounds + 1 /\ subm' = {}
        /\ UNCHANGED fatal
     \/ /\ fatal' = "host_umount_fail"
        /\ UNCHANGED <<jpc, rounds, hmounted, drpc, subm>>
  /\ UNCHANGED <<jp, jrec, jlast, nappends, agent, breq, bresp, rin, dpu>>

\* mount_on_dpu returns when the Mount RPC has answered rc 0, and dies on
\* any other rc.
MountReturn ==
  /\ fatal = "none" /\ jpc = "mounting" /\ drpc \in {"reply", "reply_fail"}
  /\ IF drpc = "reply"
       THEN jpc' = "ready" /\ drpc' = "none" /\ UNCHANGED fatal
       ELSE fatal' = "mount_fail" /\ UNCHANGED <<jpc, drpc>>
  /\ UNCHANGED <<jp, jrec, jlast, nappends, rounds, hmounted, agent, breq,
                 bresp, rin, dpu, subm>>

\* TransEnv.Append -> SpillAgent::append_or_spill, then force_spill when
\* is_last.  Where the code calls acquire_one the step ends in acq_append
\* or acq_force: acquire_one sleeps until the pool has a buffer.  The JVM
\* appends between TriggerSpillStart and WaitForSpillDone, while the DPU
\* holds the disk.
JniAppend(p, last, empty) ==
  LET r == IF empty THEN {} ELSE {<<p, nappends + 1>>}
      b == active[p]
  IN
  /\ fatal = "none" /\ jpc = "ready" /\ ~hmounted /\ nappends < MaxAppends
  /\ nappends' = nappends + 1 /\ jp' = p /\ jlast' = last
  /\ \/ /\ b = NoBuf
        /\ jrec' = r /\ jpc' = "acq_append"
        /\ UNCHANGED <<hbuf, hspill_q, subm>>
     \/ /\ b # NoBuf /\ NeedSpill(b, Cardinality(r))
        /\ UNCHANGED hbuf
        /\ submit_spill_buffer(b)
        /\ jrec' = r /\ jpc' = "acq_append"
     \/ /\ b # NoBuf /\ ~NeedSpill(b, Cardinality(r))
        /\ hbuf' = [hbuf EXCEPT ![b].data = @ \cup r]
        /\ jrec' = {}
        /\ IF last THEN submit_spill_buffer(b) /\ jpc' = "acq_force"
                   ELSE jpc' = "ready" /\ UNCHANGED <<hspill_q, subm>>
  /\ UNCHANGED <<rounds, hmounted, active, hfree, ibatch, running, ipc, chan, dpu,
                 fatal>>

\* acquire_one returns a buffer, new PartitionBuffer(buf, pid) writes its
\* header, and append_or_spill (append, then force_spill if is_last) or
\* force_spill (active_buffers[pid] = the new buffer) goes on.
AcquireBuffer ==
  /\ fatal = "none" /\ jpc \in {"acq_append", "acq_force"} /\ hfree # <<>>
  /\ LET nb == Head(hfree) IN
     /\ hfree' = Tail(hfree)
     /\ active' = [active EXCEPT ![jp] = nb]
     /\ hbuf' = [hbuf EXCEPT ![nb] = [part |-> jp,
                      data |-> IF jpc = "acq_append" THEN jrec ELSE {}]]
     /\ IF jpc = "acq_append" /\ jlast
          THEN submit_spill_buffer(nb) /\ jpc' = "acq_force"
          ELSE jpc' = "ready" /\ UNCHANGED <<hspill_q, subm>>
  /\ jrec' = {}
  /\ UNCHANGED <<jp, jlast, nappends, rounds, hmounted, ibatch, running, ipc, chan,
                 dpu, fatal>>

\* SpillAgent::issue_spill: swap spill_q out and bulk() every buffer of it.
IssueSpill ==
  /\ fatal = "none" /\ ipc = "run" /\ ibatch = <<>> /\ hspill_q # <<>>
  /\ ibatch' = hspill_q /\ hspill_q' = <<>>
  /\ breq' = breq \o hspill_q
  /\ UNCHANGED <<jvm, active, hbuf, hfree, running, ipc, bresp, rin, drpc, dpu, subm,
                 fatal>>

\* Mutant: the buffer is dropped from the batch but release_one is missing.
IssueReap_norelease ==
  /\ fatal = "none" /\ ibatch # <<>>
  /\ bresp[Head(ibatch)] = TotalSize(hbuf[Head(ibatch)].data)
  /\ bresp' = [bresp EXCEPT ![Head(ibatch)] = NoRes]
  /\ ibatch' = Tail(ibatch)
  /\ UNCHANGED <<jvm, active, hbuf, hfree, hspill_q, running, ipc, breq, rin, drpc,
                 dpu, subm, fatal>>

\* issue_spill takes the answers in batch order: a size other than the
\* buffer's total_size() dies, otherwise release_one returns the buffer.
IssueReap ==
  /\ fatal = "none" /\ ibatch # <<>>
  /\ LET b == Head(ibatch) IN
     /\ bresp[b] # NoRes
     /\ bresp' = [bresp EXCEPT ![b] = NoRes]
     /\ IF bresp[b] # TotalSize(hbuf[b].data)
          THEN fatal' = "trans_fail" /\ UNCHANGED <<ibatch, hfree>>
          ELSE /\ ibatch' = Tail(ibatch) /\ hfree' = Append(hfree, b)
               /\ UNCHANGED fatal
  /\ UNCHANGED <<jvm, active, hbuf, hspill_q, running, ipc, breq, rin, drpc, dpu,
                 subm>>

\* TransEnv.WaitForSpillDone -> DiskAgent::umount_on_dpu: call Umount.  When
\* the host already holds the disk the call returns at once.
WaitForSpillDone ==
  /\ fatal = "none" /\ jpc = "ready" /\ ~hmounted
  /\ drpc' = "umount" /\ jpc' = "umounting"
  /\ UNCHANGED <<jp, jrec, jlast, nappends, rounds, hmounted, agent, breq,
                 bresp, rin, dpu, subm, fatal>>

\* umount_on_dpu: after an Umount answer of rc 0 the host mounts the disk
\* again; it dies on any other rc, and when its own mount fails.
UmountReturn ==
  /\ fatal = "none" /\ jpc = "umounting" /\ drpc \in {"reply", "reply_fail"}
  /\ \/ /\ drpc = "reply"
        /\ jpc' = "ready" /\ drpc' = "none" /\ hmounted' = TRUE
        /\ UNCHANGED fatal
     \/ /\ drpc = "reply"
        /\ fatal' = "host_mount_fail"
        /\ UNCHANGED <<jpc, drpc, hmounted>>
     \/ /\ drpc = "reply_fail"
        /\ fatal' = "umount_fail"
        /\ UNCHANGED <<jpc, drpc, hmounted>>
  /\ UNCHANGED <<jp, jrec, jlast, nappends, rounds, agent, breq, bresp, rin,
                 dpu, subm>>

\* TransEnv.Destroy: running = false, then delete sa, whose destructor sets
\* running = false again under q_mu, notify_all()s q_c and joins every
\* issue_spill thread; the JVM thread blocks in the join.
Destroy ==
  /\ fatal = "none" /\ jpc = "ready"
  /\ running' = FALSE /\ jpc' = "destroying"
  /\ UNCHANGED <<jp, jrec, jlast, nappends, rounds, hmounted, active, hbuf, hfree,
                 hspill_q, ibatch, ipc, chan, dpu, subm, fatal>>

\* issue_spill wakes from q_c.wait with !running and breaks out of its loop
\* only when spill_q is empty; a batch it holds is reaped first.
IssuerExit ==
  /\ fatal = "none" /\ ipc = "run" /\ ibatch = <<>>
  /\ ~running /\ hspill_q = <<>>
  /\ ipc' = "exited"
  /\ UNCHANGED <<jvm, active, hbuf, hfree, hspill_q, ibatch, running, chan, dpu,
                 subm, fatal>>

\* The joins of ~SpillAgent return, Destroy deletes da (terminating its
\* Comch connection) and the device, and returns.
DestroyReturn ==
  /\ fatal = "none" /\ jpc = "destroying" /\ ipc = "exited"
  /\ jpc' = "destroyed"
  /\ UNCHANGED <<jp, jrec, jlast, nappends, rounds, hmounted, agent, chan, dpu,
                 subm, fatal>>

(***************************************************************************)
(* DPU: spill producers, dispatcher, remote consumer, DirectSpillWorker.   *)
(***************************************************************************)

\* The head of a queue as a sequence, and the queue without it; both empty
\* when the queue is (do_dispatch skips an empty queue).
Front1(q) == IF q = <<>> THEN <<>> ELSE <<Head(q)>>
Pop(q) == IF q = <<>> THEN q ELSE Tail(q)

\* SpillWorker::handle_spill_request up to the wait: acquire_one from spill_bp
\* (die "Too fast!" when it is empty), bulk_read (die when n_read is not
\* total_size(), as after a failed DMA), and push the SpillTask on the
\* producer's task queue (lsq for local handlers, rsq for remote ones).
handle_spill_request(h, p, data) ==
  IF dfree = <<>>
    THEN fatal' = "too_fast" /\ UNCHANGED <<hpc, hdbuf, task, dfree, lsq, rsq>>
    ELSE \/ /\ fatal' = "read_fail"
            /\ UNCHANGED <<hpc, hdbuf, task, dfree, lsq, rsq>>
         \/ /\ hdbuf' = [hdbuf EXCEPT ![h] = Head(dfree)]
            /\ dfree' = Tail(dfree)
            /\ task' = [task EXCEPT ![h] = [part |-> p, data |-> data, res |-> NoRes]]
            /\ hpc' = [hpc EXCEPT ![h] = "wait"]
            /\ IF h \in LocalHandlers
                 THEN lsq' = Append(lsq, h) /\ UNCHANGED rsq
                 ELSE rsq' = Append(rsq, h) /\ UNCHANGED lsq
            /\ UNCHANGED fatal

\* A LocalSpillWorker serve fiber takes the host's next Bulk request.
LocalSpillRequest(h) ==
  /\ fatal = "none" /\ hpc[h] = "idle" /\ breq # <<>>
  /\ breq' = Tail(breq)
  /\ hreq' = [hreq EXCEPT ![h] = Head(breq)]
  /\ handle_spill_request(h, hbuf[Head(breq)].part, hbuf[Head(breq)].data)
  /\ UNCHANGED <<jvm, agent, bresp, rin, drpc, trsq, dsq, spc, stask, files,
                 dmounted, ring, issued_io, disk, subm>>

\* A RemoteSpillWorker (producer) serve fiber takes a spill of partition p
\* sent by the peer DPU's do_transfer.
RemoteSpillRequest(h, p) ==
  /\ fatal = "none" /\ hpc[h] = "idle" /\ rin < RemoteIn
  /\ rin' = rin + 1
  /\ handle_spill_request(h, p, {<<p, MaxAppends + rin + 1>>})
  /\ UNCHANGED <<jvm, agent, breq, bresp, drpc, hreq, trsq, dsq, spc, stask,
                 files, dmounted, ring, issued_io, disk, subm>>

\* Mutant: the handler answers without spill_bp.release_one(buf).
HandlerFinish_norelease(h) ==
  /\ fatal = "none" /\ hpc[h] = "wait" /\ task[h].res = TotalSize(task[h].data)
  /\ hdbuf' = [hdbuf EXCEPT ![h] = NoBuf]
  /\ hpc' = [hpc EXCEPT ![h] = "idle"]
  /\ hreq' = [hreq EXCEPT ![h] = NoBuf]
  /\ bresp' = IF h \in LocalHandlers
                THEN [bresp EXCEPT ![hreq[h]] = TotalSize(task[h].data)] ELSE bresp
  /\ UNCHANGED <<jvm, agent, breq, rin, drpc, task, dfree, lsq, rsq, trsq, dsq,
                 spc, stask, files, dmounted, ring, issued_io, disk, subm, fatal>>

\* Mutant: the handler answers n_read without waiting for the task result.
HandlerFinish_nowait(h) ==
  /\ fatal = "none" /\ hpc[h] = "wait"
  /\ dfree' = Append(dfree, hdbuf[h])
  /\ hdbuf' = [hdbuf EXCEPT ![h] = NoBuf]
  /\ hpc' = [hpc EXCEPT ![h] = "idle"]
  /\ hreq' = [hreq EXCEPT ![h] = NoBuf]
  /\ bresp' = IF h \in LocalHandlers
                THEN [bresp EXCEPT ![hreq[h]] = TotalSize(task[h].data)] ELSE bresp
  /\ UNCHANGED <<jvm, agent, breq, rin, drpc, task, lsq, rsq, trsq, dsq,
                 spc, stask, files, dmounted, ring, issued_io, disk, subm, fatal>>

\* handle_spill_request after res.get_future().get(): a result other than
\* total_size() dies, otherwise release_one and answer n_read.
HandlerFinish(h) ==
  /\ fatal = "none" /\ hpc[h] = "wait" /\ task[h].res # NoRes
  /\ IF task[h].res # TotalSize(task[h].data)
       THEN /\ fatal' = "spill_fail"
            /\ UNCHANGED <<hpc, hreq, hdbuf, dfree, bresp>>
       ELSE /\ dfree' = Append(dfree, hdbuf[h])
            /\ hdbuf' = [hdbuf EXCEPT ![h] = NoBuf]
            /\ hpc' = [hpc EXCEPT ![h] = "idle"]
            /\ hreq' = [hreq EXCEPT ![h] = NoBuf]
            /\ bresp' = IF h \in LocalHandlers
                          THEN [bresp EXCEPT ![hreq[h]] = TotalSize(task[h].data)]
                          ELSE bresp
            /\ UNCHANGED fatal
  /\ UNCHANGED <<jvm, agent, breq, rin, drpc, task, lsq, rsq, trsq, dsq, spc,
                 stask, files, dmounted, ring, issued_io, disk, subm>>

\* PipelineShuffleWorkerPool::do_dispatch, one pass of its loop: the head of
\* lsqs[0] goes to choose_one_trsq() when fn(pid), else to dsq; then the
\* head of rsqs[0] goes to dsq.
do_dispatch ==
  /\ fatal = "none" /\ (lsq # <<>> \/ rsq # <<>>)
  /\ LET l == Front1(lsq)
         r == Front1(rsq)
         toPeer == l # <<>> /\ task[l[1]].part \in RemoteParts
     IN /\ lsq' = Pop(lsq) /\ rsq' = Pop(rsq)
        /\ trsq' = IF toPeer THEN trsq \o l ELSE trsq
        /\ dsq' = IF toPeer THEN dsq \o r ELSE dsq \o l \o r
  /\ UNCHANGED <<jvm, agent, chan, hpc, hreq, hdbuf, task, dfree, spc, stask,
                 files, dmounted, ring, issued_io, disk, subm, fatal>>

\* RemoteSpillWorker::do_transfer: bulk() the task to the peer DPU, whose
\* producer answers n_read = total_size(), and set the task's result.
do_transfer ==
  /\ fatal = "none" /\ trsq # <<>>
  /\ trsq' = Tail(trsq)
  /\ task' = [task EXCEPT ![Head(trsq)].res = TotalSize(task[Head(trsq)].data)]
  /\ UNCHANGED <<jvm, agent, chan, hpc, hreq, hdbuf, dfree, lsq, rsq, dsq, spc,
                 stask, files, dmounted, ring, issued_io, disk, subm, fatal>>

\* Mutant: the wait predicate compares with one file too many.
FilesReady_off == Len(files) = NParts + 1

\* The predicate of c.wait in submit_direct_spill (running is TRUE).
FilesReady == Len(files) = NParts

\* io_uring_prep_write_fixed on files[partition_id], offset advance,
\* io_uring_submit and issued_io++.  An fd that do_umount closed is either
\* still free (the write fails with EBADF) or was reused by another open()
\* (the write lands in an unrelated file and succeeds).
submit_write(t) ==
  LET p == task[t].part IN
  \E fate \in IF files[p].open THEN {"ok"} ELSE {"ebadf", "reused"} :
    /\ ring' = ring \cup {[t |-> t, fate |-> fate]}
    /\ disk' = IF fate = "ok" THEN [disk EXCEPT ![p] = @ \cup task[t].data]
                              ELSE disk
    /\ issued_io' = issued_io + 1

\* Mutant: the task is popped from spill_q only after the wait for files.
SpillerPop_latepop ==
  /\ fatal = "none" /\ spc = "poll" /\ dsq # <<>>
  /\ IF FilesReady
       THEN dsq' = Tail(dsq) /\ submit_write(Head(dsq)) /\ UNCHANGED <<spc, stask>>
       ELSE /\ spc' = "wait_files" /\ stask' = Head(dsq)
            /\ UNCHANGED <<dsq, ring, disk, issued_io>>
  /\ UNCHANGED <<jvm, agent, chan, hpc, hreq, hdbuf, task, dfree, lsq, rsq,
                 trsq, files, dmounted, subm, fatal>>

\* submit_direct_spill: pop spill_q, then write at once when the files are
\* there, or wait on the condition variable.
SpillerPop ==
  /\ fatal = "none" /\ spc = "poll" /\ dsq # <<>>
  /\ dsq' = Tail(dsq)
  /\ IF FilesReady
       THEN submit_write(Head(dsq)) /\ UNCHANGED <<spc, stask>>
       ELSE /\ spc' = "wait_files" /\ stask' = Head(dsq)
            /\ UNCHANGED <<ring, disk, issued_io>>
  /\ UNCHANGED <<jvm, agent, chan, hpc, hreq, hdbuf, task, dfree, lsq, rsq,
                 trsq, files, dmounted, subm, fatal>>

\* The spiller wakes from c.wait once files.size() == max_n_partition.
SpillerWake ==
  /\ fatal = "none" /\ spc = "wait_files" /\ FilesReady
  /\ submit_write(stask)
  /\ spc' = "poll" /\ stask' = 0
  /\ UNCHANGED <<jvm, agent, chan, hpc, hreq, hdbuf, task, dfree, lsq, rsq,
                 trsq, dsq, files, dmounted, subm, fatal>>

\* Mutant: io_uring_cqe_seen is missing, the completion stays in the ring.
progress_io_noseen ==
  /\ fatal = "none"
  /\ \E e \in ring :
       /\ task' = [task EXCEPT ![e.t].res =
                     IF e.fate # "ebadf" /\ task[e.t].data # {}
                     THEN TotalSize(task[e.t].data)
                     ELSE IF e.fate = "ebadf" THEN -1 ELSE 0]
       /\ issued_io' = issued_io - 1
  /\ UNCHANGED <<jvm, agent, chan, hpc, hreq, hdbuf, dfree, lsq, rsq, trsq, dsq,
                 spc, stask, files, dmounted, ring, disk, subm, fatal>>

\* progress_io: a completion (in any order) sets the task's result to
\* total_size() when cqe->res > 0, else to cqe->res (-EBADF, or 0 for a
\* zero-length write), and issued_io--.
progress_io ==
  /\ fatal = "none"
  /\ \E e \in ring :
       LET data == task[e.t].data IN
       /\ task' = [task EXCEPT ![e.t].res =
                     IF e.fate # "ebadf" /\ data # {} THEN TotalSize(data)
                     ELSE IF e.fate = "ebadf" THEN -1 ELSE 0]
       /\ ring' = ring \ {e}
       /\ issued_io' = issued_io - 1
  /\ UNCHANGED <<jvm, agent, chan, hpc, hreq, hdbuf, dfree, lsq, rsq, trsq, dsq,
                 spc, stask, files, dmounted, disk, subm, fatal>>

\* do_mount: die when mounted; mount the device (its rc is the answer, a
\* failure is not checked here), open (O_CREAT | O_TRUNC) and append one
\* file per partition (die when an open fails), then notify the spiller.
do_mount ==
  /\ fatal = "none" /\ drpc = "mount"
  /\ IF dmounted
       THEN fatal' = "already_mounted" /\ UNCHANGED <<drpc, files, dmounted, disk>>
       ELSE \/ /\ files' = files \o [i \in Partitions |-> [part |-> i, open |-> TRUE]]
               /\ disk' = [p \in Partitions |-> {}]
               /\ dmounted' = TRUE
               /\ drpc' \in {"reply", "reply_fail"}
               /\ UNCHANGED fatal
            \/ /\ fatal' = "create_fail"
               /\ UNCHANGED <<drpc, files, dmounted, disk>>
  /\ UNCHANGED <<jvm, agent, breq, bresp, rin, hpc, hreq, hdbuf, task, dfree,
                 lsq, rsq, trsq, dsq, spc, stask, ring, issued_io, subm>>

\* do_umount: die when not mounted, otherwise start waiting.
do_umount ==
  /\ fatal = "none" /\ drpc = "umount"
  /\ IF ~dmounted THEN fatal' = "not_mounted" /\ UNCHANGED drpc
                  ELSE drpc' = "umount_wait" /\ UNCHANGED fatal
  /\ UNCHANGED <<jvm, agent, breq, bresp, rin, dpu, subm>>

\* do_umount once spill_q is empty and issued_io is 0: close every fd (the
\* files entries stay), umount, mounted = false, answer umount's rc.
do_umount_close ==
  /\ fatal = "none" /\ drpc = "umount_wait" /\ dsq = <<>> /\ issued_io = 0
  /\ files' = [i \in DOMAIN files |-> [files[i] EXCEPT !.open = FALSE]]
  /\ dmounted' = FALSE /\ drpc' \in {"reply", "reply_fail"}
  /\ UNCHANGED <<jvm, agent, breq, bresp, rin, hpc, hreq, hdbuf, task, dfree,
                 lsq, rsq, trsq, dsq, spc, stask, ring, issued_io, disk, subm,
                 fatal>>

(***************************************************************************)
(* The specification.                                                      *)
(***************************************************************************)

\* Nothing is in progress anywhere: the JVM thread is between calls.
Quiescent ==
  /\ jpc = "ready" /\ drpc = "none" /\ hspill_q = <<>> /\ ibatch = <<>>
  /\ breq = <<>> /\ \A h \in Handlers : hpc[h] = "idle"
  /\ spc = "poll" /\ ring = {}

\* A process died, the pipeline is idle and the JVM makes no more calls, or
\* the host has destroyed its TransEnv: the DPU server then idles, and a
\* spill from the peer that waits for files waits for the next host.
Terminated == (fatal # "none" \/ Quiescent \/ jpc = "destroyed") /\ UNCHANGED vars

AppendInputs == Partitions \X BOOLEAN \X (IF EmptyAppends THEN BOOLEAN ELSE {FALSE})

Next ==
  \/ TriggerSpillStart \/ MountReturn \/ WaitForSpillDone \/ UmountReturn
  \/ Destroy \/ IssuerExit \/ DestroyReturn
  \/ \E in \in AppendInputs : JniAppend(in[1], in[2], in[3])
  \/ AcquireBuffer \/ IssueSpill \/ IssueReap
  \/ \E h \in LocalHandlers : LocalSpillRequest(h)
  \/ \E h \in RemoteHandlers, p \in Partitions : RemoteSpillRequest(h, p)
  \/ \E h \in Handlers : HandlerFinish(h)
  \/ do_dispatch \/ do_transfer \/ SpillerPop \/ SpillerWake \/ progress_io
  \/ do_mount \/ do_umount \/ do_umount_close
  \/ Terminated

\* Every thread and fiber that can go on eventually does; the JVM thread
\* eventually makes each call it can make.
Fairness ==
  /\ WF_vars(TriggerSpillStart) /\ WF_vars(MountReturn)
  /\ WF_vars(WaitForSpillDone) /\ WF_vars(UmountReturn)
  /\ WF_vars(\E in \in AppendInputs : JniAppend(in[1], in[2], in[3]))
  /\ WF_vars(AcquireBuffer) /\ WF_vars(IssueSpill) /\ WF_vars(IssueReap)
  /\ WF_vars(IssuerExit) /\ WF_vars(DestroyReturn)
  /\ \A h \in LocalHandlers : WF_vars(LocalSpillRequest(h))
  /\ \A h \in Handlers : WF_vars(HandlerFinish(h))
  /\ WF_vars(do_dispatch) /\ WF_vars(do_transfer) /\ WF_vars(SpillerPop)
  /\ WF_vars(SpillerWake) /\ WF_vars(progress_io)
  /\ WF_vars(do_mount) /\ WF_vars(do_umount) /\ WF_vars(do_umount_close)

Spec == Init /\ [][Next]_vars /\ Fairness

(***************************************************************************)
(* Properties.                                                             *)
(***************************************************************************)

Task == [part : Partitions, data : SUBSET Records, res : Int]

TypeOK ==
  /\ jpc \in {"ready", "acq_append", "acq_force", "mounting", "umounting",
             "destroying", "destroyed"}
  /\ running \in BOOLEAN /\ ipc \in {"run", "exited"}
  /\ jp \in Partitions /\ jrec \in SUBSET Records /\ jlast \in BOOLEAN
  /\ nappends \in 0 .. MaxAppends /\ rounds \in 0 .. MaxRounds
  /\ hmounted \in BOOLEAN /\ active \in [Partitions -> HostBufs \cup {NoBuf}]
  /\ hbuf \in [HostBufs -> [part : Partitions, data : SUBSET Records]]
  /\ hfree \in Seq(HostBufs) /\ hspill_q \in Seq(HostBufs)
  /\ ibatch \in Seq(HostBufs) /\ breq \in Seq(HostBufs)
  /\ bresp \in [HostBufs -> Int] /\ rin \in 0 .. RemoteIn
  /\ drpc \in {"none", "mount", "umount", "umount_wait", "reply",
             "reply_fail"}
  /\ hpc \in [Handlers -> {"idle", "wait"}]
  /\ hreq \in [Handlers -> HostBufs \cup {NoBuf}]
  /\ hdbuf \in [Handlers -> DpuBufs \cup {NoBuf}]
  /\ task \in [Handlers -> Task] /\ dfree \in Seq(DpuBufs)
  /\ \A q \in {lsq, rsq, trsq, dsq} : q \in Seq(Handlers)
  /\ spc \in {"poll", "wait_files"} /\ stask \in Handlers \cup {0}
  /\ files \in Seq([part : Partitions, open : BOOLEAN])
  /\ dmounted \in BOOLEAN /\ ring \subseteq [t : Handlers, fate : Fates]
  /\ issued_io \in Nat /\ disk \in [Partitions -> SUBSET Records]
  /\ subm \in SUBSET Records /\ fatal \in Fatals

\* How often x occurs in the sequence s.
Occ(s, x) == Cardinality({i \in DOMAIN s : s[i] = x})

\* While the JVM thread sleeps in acquire_one after submitting
\* active_buffers[jp], that slot still names the submitted buffer.
StaleSlot(p) == jpc \in {"acq_append", "acq_force"} /\ p = jp

\* SpillAgent buffers are neither lost nor shared: each is in exactly one of
\* the pool's free list, a live active_buffers slot, spill_q or the batch
\* issue_spill waits on (append_or_spill, force_spill, issue_spill and
\* release_one, on two threads).
HostBufferConservation ==
  \A b \in HostBufs :
    Occ(hfree, b) + Occ(hspill_q, b) + Occ(ibatch, b)
      + Cardinality({p \in Partitions : active[p] = b /\ ~StaleSlot(p)}) = 1

\* spill_bp buffers are neither lost nor shared: each is free or held by
\* exactly one handle_spill_request fiber that waits on its task.
DpuBufferConservation ==
  \A d \in DpuBufs :
    Occ(dfree, d) + Cardinality({h \in Handlers : hdbuf[h] = d}) = 1

\* Where the SpillTask of a waiting handler is: in a queue, held by the
\* spiller, in the io_uring ring, or answered.
TaskPlaces(h) ==
  Occ(lsq, h) + Occ(rsq, h) + Occ(trsq, h) + Occ(dsq, h)
    + (IF stask = h THEN 1 ELSE 0)
    + Cardinality({e \in ring : e.t = h})
    + (IF task[h].res # NoRes THEN 1 ELSE 0)

\* Every spill in flight is in exactly one place of the pipeline, and every
\* buffer issue_spill waits on is on its way, being served, or answered:
\* do_dispatch, do_transfer, the spiller and progress_io never drop or
\* duplicate a task, and the answer goes to the buffer that was sent.  A
\* die() ends the process with whatever it held, so this is stated of the
\* states before one.
NoSpillLostOrDuplicated ==
  fatal = "none" =>
    /\ \A h \in Handlers : hpc[h] = "wait" => TaskPlaces(h) = 1
    /\ \A h \in Handlers : hpc[h] = "idle" => TaskPlaces(h) = 0 \/ task[h].res # NoRes
    /\ \A b \in HostBufs :
         Occ(ibatch, b) = 1 =>
           Occ(breq, b)
             + Cardinality({h \in LocalHandlers : hpc[h] = "wait" /\ hreq[h] = b})
             + (IF bresp[b] # NoRes THEN 1 ELSE 0) = 1

\* No process dies (die() in handle_spill_request, issue_spill, do_mount,
\* do_umount, mount_on_dpu, umount_on_dpu).
NoFatal == fatal = "none"

\* A buffer issue_spill took over is in flight.
InFlight(b) == Occ(hspill_q, b) + Occ(ibatch, b) > 0

\* Every submitted partition buffer is eventually answered and returned to
\* the pool, unless a process died (issue_spill, handle_spill_request,
\* submit_direct_spill, progress_io).
SpillCompletes ==
  \A b \in HostBufs : InFlight(b) ~> (~InFlight(b) \/ fatal # "none")

\* When WaitForSpillDone returns and the host has the disk back, every
\* record submitted for a local partition since TriggerSpillStart is in its
\* partition file (umount_on_dpu, do_umount).
SpillDurable ==
  [][jpc = "umounting" /\ jpc' = "ready" =>
       \A r \in subm : r[1] \in RemoteParts \/ r \in disk[r[1]]]_vars

=============================================================================
