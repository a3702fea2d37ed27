----------------------------- MODULE HostSpill -----------------------------
(***************************************************************************)
(* The pipeline spill path of pipeline_trans_native.cxx: the JVM thread    *)
(* drives PipelineTransEnv and a BufferredHostSpillWorker on the host      *)
(* writes the partition buffers the DPU bulk()s back to the host's disk.   *)
(*                                                                         *)
(* JVM thread: TriggerSpillStart -> create_partition_files, Append         *)
(*   (SpillAgent::append_or_spill, abstracted to a spill that enters the   *)
(*   SpillAgent/DPU path), WaitForSpillDone -> poll is_spilling, then      *)
(*   close_partition_files, Destroy -> running = false and join.           *)
(* Worker thread, boost fibers on one OS thread:                          *)
(*   QueueDepth serve_until workers run handle_spill_request: take a bp    *)
(*   buffer (die "Too fast"), bulk_read, push to io_q, wait for the result;*)
(*   the spiller fiber submit_direct_spill pops io_q, waits on the         *)
(*   std::condition_variable for the files and submits the write;          *)
(*   the io_poller fiber progress_io completes writes and keeps the        *)
(*   `spilling` flag: TRUE at a completion, FALSE after 5000 idle polls.   *)
(* The condition variable and its std::mutex are not fiber-aware: while    *)
(* the spiller waits on it the whole worker thread is blocked.            *)
(***************************************************************************)
EXTENDS Naturals, Integers, Sequences, FiniteSets

CONSTANTS
  NParts,       \* max_n_partition
  NBufs,        \* n_buffer of the worker's BufferPool bp
  QueueDepth,   \* serve_until worker fibers (trans_conf.queue_depth)
  MaxSpills,    \* bound on partition buffers the JVM's Appends spill
  MaxRounds     \* bound on TriggerSpillStart calls

ASSUME /\ NParts \in Nat \ {0} /\ NBufs \in Nat \ {0}
       /\ QueueDepth \in Nat \ {0} /\ MaxSpills \in Nat /\ MaxRounds \in Nat

Partitions == 1 .. NParts
Bufs == 1 .. NBufs
Handlers == 1 .. QueueDepth
Spills == 1 .. MaxSpills
NoBuf == 0
NoSpill == 0
NoRes == 0
\* The partition a spill belongs to: data, abstracted to a fixed choice.
SpillPart(s) == (s % NParts) + 1
Fates == {"ok", "ebadf", "reused"}
Fatals == {"none", "too_fast", "read_fail", "spill_fail"}

VARIABLES
  jpc,       \* JVM: "ready" | "appending" | "waiting" | "closing" | "destroying" | "destroyed"
  rounds,    \* TriggerSpillStart calls so far
  nspills,   \* spills issued by Append so far
  cur,       \* spills issued in the current round (ghost)
  relay,     \* spills on their way through the SpillAgent and the DPU
  running,   \* the shared std::atomic_bool running
  hpc,       \* serve worker fiber: "idle" | "wait" | "exited"
  hbuf,      \* bp buffer a handler holds
  hspill,    \* spill a handler serves
  res,       \* value set into the handler's FileIOTask promise (1 = length)
  bfree,     \* free buffers of bp
  io_q,      \* FileIOTask queue, as handler ids
  spc,       \* spiller fiber: "poll" | "wait_files" | "submit" | "exited"
  stask,     \* handler whose task the spiller holds
  sgen,      \* generation of the files the prepared sqe refers to
  fopen,     \* files.size() == max_n_partition
  gen,       \* create_partition_files calls that opened files
  ring,      \* submitted writes: [h |-> handler, fate |-> what the fd was]
  pollpc,    \* io_poller fiber: "run" | "exited"
  spilling,  \* BufferredHostSpillWorker::spilling
  done,      \* spills whose bulk call was answered
  disk,      \* spills written to each partition file
  fatal      \* reason of the die() that ended the process, or "none"

jvm == <<jpc, rounds, nspills, cur, relay, running>>
handlers == <<hpc, hbuf, hspill, res, bfree, done>>
spiller == <<io_q, spc, stask, sgen>>
io == <<fopen, gen, ring, pollpc, spilling, disk>>
vars == <<jvm, handlers, spiller, io, fatal>>

\* No fiber of the worker thread runs while the spiller blocks the thread in
\* the std::condition_variable wait.
ThreadFree == spc # "wait_files"

\* Base::join returns: serve_until, the io_poller and the spiller are done.
ThreadDone == /\ \A h \in Handlers : hpc[h] = "exited"
              /\ spc = "exited" /\ pollpc = "exited"

Init ==
  /\ jpc = "ready" /\ rounds = 0 /\ nspills = 0 /\ cur = {} /\ relay = {}
  /\ running = TRUE
  /\ hpc = [h \in Handlers |-> "idle"]
  /\ hbuf = [h \in Handlers |-> NoBuf]
  /\ hspill = [h \in Handlers |-> NoSpill]
  /\ res = [h \in Handlers |-> NoRes]
  /\ bfree = Bufs
  /\ io_q = <<>> /\ spc = "poll" /\ stask = 0 /\ sgen = 0
  /\ fopen = FALSE /\ gen = 0 /\ ring = {} /\ pollpc = "run"
  /\ spilling = FALSE   \* std::atomic_bool value-initialised (C++20 on)
  /\ done = {} /\ disk = [p \in Partitions |-> {}]
  /\ fatal = "none"

-----------------------------------------------------------------------------
(* JVM thread: PipelineTransEnv                                            *)

\* TriggerSpillStart -> create_partition_files(false): opens max_n_partition
\* files under mu and notifies the condition variable; returns at once if
\* the files are already there.
TriggerSpillStart ==
  /\ jpc = "ready" /\ rounds < MaxRounds /\ fatal = "none"
  /\ rounds' = rounds + 1 /\ cur' = {} /\ jpc' = "appending"
  /\ IF fopen THEN UNCHANGED <<fopen, gen>>
              ELSE fopen' = TRUE /\ gen' = gen + 1
  /\ UNCHANGED <<nspills, relay, running, handlers, spiller,
                 ring, pollpc, spilling, disk, fatal>>

\* JniAppend: Append -> append_or_spill / force_spill hand a partition buffer to the
\* SpillAgent, which bulk()s it to the DPU; the DPU sends it back to this
\* worker. The path is a delay of arbitrary length.
JniAppend ==
  /\ jpc = "appending" /\ nspills < MaxSpills /\ fatal = "none"
  /\ nspills' = nspills + 1
  /\ relay' = relay \cup {nspills + 1} /\ cur' = cur \cup {nspills + 1}
  /\ UNCHANGED <<jpc, rounds, running, handlers, spiller, io, fatal>>

\* WaitForSpillDone: `while (sw->is_spilling()) sleep(1s);` ...
WaitForSpillDone ==
  /\ jpc = "appending" /\ fatal = "none"
  /\ jpc' = "waiting"
  /\ UNCHANGED <<rounds, nspills, cur, relay, running, handlers, spiller,
                 io, fatal>>

WaitPoll ==
  /\ jpc = "waiting" /\ fatal = "none" /\ ~spilling
  /\ jpc' = "closing"
  /\ UNCHANGED <<rounds, nspills, cur, relay, running, handlers, spiller,
                 io, fatal>>

\* ... then close_partition_files: close every fd under mu, files.resize(0).
close_partition_files ==
  /\ jpc = "closing" /\ fatal = "none"
  /\ jpc' = "ready" /\ fopen' = FALSE
  /\ UNCHANGED <<rounds, nspills, cur, relay, running, handlers, spiller,
                 gen, ring, pollpc, spilling, disk, fatal>>

\* Destroy: running = false, then delete sw joins the worker thread.
Destroy ==
  /\ jpc = "ready" /\ fatal = "none"
  /\ jpc' = "destroying" /\ running' = FALSE
  /\ UNCHANGED <<rounds, nspills, cur, relay, handlers, spiller, io, fatal>>

DestroyReturn ==
  /\ jpc = "destroying" /\ ThreadDone
  /\ jpc' = "destroyed"
  /\ UNCHANGED <<rounds, nspills, cur, relay, running, handlers, spiller,
                 io, fatal>>

-----------------------------------------------------------------------------
(* Worker thread: serve_until workers running handle_spill_request         *)

\* A Bulk request for spill s reaches an idle serve worker, which runs
\* handle_spill_request up to the future wait: bp.acquire_one (die when
\* empty), bulk_read of the whole buffer (die when header->length is not
\* n_read, as after a failed DMA), push of the FileIOTask to io_q.
handle_spill_request(h, s) ==
  /\ running /\ ThreadFree /\ fatal = "none"
  /\ hpc[h] = "idle" /\ s \in relay
  /\ relay' = relay \ {s}
  /\ IF bfree = {}
       THEN /\ fatal' = "too_fast"
            /\ UNCHANGED <<hpc, hbuf, hspill, bfree, io_q>>
       ELSE LET b == CHOOSE x \in bfree : \A y \in bfree : x <= y
            IN \/ /\ fatal' = "read_fail"
                  /\ UNCHANGED <<hpc, hbuf, hspill, bfree, io_q>>
               \/ /\ bfree' = bfree \ {b}
                  /\ hbuf' = [hbuf EXCEPT ![h] = b]
                  /\ hspill' = [hspill EXCEPT ![h] = s]
                  /\ hpc' = [hpc EXCEPT ![h] = "wait"]
                  /\ io_q' = Append(io_q, h)
                  /\ UNCHANGED fatal
  /\ UNCHANGED <<jpc, rounds, nspills, cur, running, res, done,
                 spc, stask, sgen, io>>

\* Mutant: the buffer is not given back to bp.
HandlerFinish_norelease(h) ==
  /\ ThreadFree /\ fatal = "none"
  /\ hpc[h] = "wait" /\ res[h] # NoRes
  /\ IF res[h] < 0
       THEN /\ fatal' = "spill_fail"
            /\ UNCHANGED <<hpc, hbuf, hspill, res, bfree, done>>
       ELSE /\ done' = done \cup {hspill[h]}
            /\ hpc' = [hpc EXCEPT ![h] = "idle"]
            /\ hbuf' = [hbuf EXCEPT ![h] = NoBuf]
            /\ hspill' = [hspill EXCEPT ![h] = NoSpill]
            /\ res' = [res EXCEPT ![h] = NoRes]
            /\ UNCHANGED <<bfree, fatal>>
  /\ UNCHANGED <<jvm, spiller, io>>

\* The task's future is set: a result other than header->length dies,
\* otherwise the buffer goes back to bp and the Bulk call is answered.
HandlerFinish(h) ==
  /\ ThreadFree /\ fatal = "none"
  /\ hpc[h] = "wait" /\ res[h] # NoRes
  /\ IF res[h] < 0
       THEN /\ fatal' = "spill_fail"
            /\ UNCHANGED <<hpc, hbuf, hspill, res, bfree, done>>
       ELSE /\ bfree' = bfree \cup {hbuf[h]}
            /\ done' = done \cup {hspill[h]}
            /\ hpc' = [hpc EXCEPT ![h] = "idle"]
            /\ hbuf' = [hbuf EXCEPT ![h] = NoBuf]
            /\ hspill' = [hspill EXCEPT ![h] = NoSpill]
            /\ res' = [res EXCEPT ![h] = NoRes]
            /\ UNCHANGED fatal
  /\ UNCHANGED <<jvm, spiller, io>>

\* serve_until's worker loop ends once running is false (fn() holds); a
\* worker inside handle_spill_request does not look at running.
HandlerExit(h) ==
  /\ ThreadFree /\ ~running /\ hpc[h] = "idle"
  /\ hpc' = [hpc EXCEPT ![h] = "exited"]
  /\ UNCHANGED <<jvm, hbuf, hspill, res, bfree, done, spiller, io, fatal>>

-----------------------------------------------------------------------------
(* Worker thread: the spiller fiber, submit_direct_spill                   *)

\* Mutant: the task is read with front() but never popped.
SpillerPop_nopop ==
  /\ spc = "poll" /\ running /\ io_q # <<>> /\ fatal = "none"
  /\ stask' = Head(io_q) /\ UNCHANGED io_q
  /\ IF fopen THEN spc' = "submit" /\ sgen' = gen
              ELSE spc' = "wait_files" /\ UNCHANGED sgen
  /\ UNCHANGED <<jvm, handlers, io, fatal>>

\* Pop a task, lock mu and check the wait predicate
\* `!running || files.size() == max_n_partition`: with the files there the
\* sqe is prepared with files[pid].fd; otherwise the fiber blocks the
\* thread in c.wait.
SpillerPop ==
  /\ spc = "poll" /\ running /\ io_q # <<>> /\ fatal = "none"
  /\ stask' = Head(io_q) /\ io_q' = Tail(io_q)
  /\ IF fopen THEN spc' = "submit" /\ sgen' = gen
              ELSE spc' = "wait_files" /\ UNCHANGED sgen
  /\ UNCHANGED <<jvm, handlers, io, fatal>>

\* c.notify_all() of create_partition_files wakes the wait; the predicate
\* holds, and `if (!running) break;` ends the fiber when running is false.
\* Destroy alone does not notify, so a waiting spiller stays blocked.
SpillerWake ==
  /\ spc = "wait_files" /\ fopen /\ fatal = "none"
  /\ IF running THEN spc' = "submit" /\ sgen' = gen
                 ELSE spc' = "exited" /\ UNCHANGED sgen
  /\ UNCHANGED <<jvm, handlers, io_q, stask, io, fatal>>

\* Mutant: io_uring_sqe_set_data after io_uring_submit, so the submitted
\* sqe carries no task.
SpillerSubmit_latedata ==
  /\ spc = "submit" /\ fatal = "none"
  /\ \E fate \in IF fopen /\ gen = sgen THEN {"ok"} ELSE {"ebadf", "reused"} :
       ring' = ring \cup {[h |-> 0, fate |-> fate]}
  /\ spc' = "poll"
  /\ UNCHANGED <<jvm, handlers, io_q, stask, sgen,
                 fopen, gen, pollpc, spilling, disk, fatal>>

\* io_uring_submit after mu is released: the kernel resolves the fd now.
\* If close_partition_files ran in between, the number is closed (EBADF) or
\* already reused by a file opened since.
SpillerSubmit ==
  /\ spc = "submit" /\ fatal = "none"
  /\ \E fate \in IF fopen /\ gen = sgen THEN {"ok"} ELSE {"ebadf", "reused"} :
       ring' = ring \cup {[h |-> stask, fate |-> fate]}
  /\ spc' = "poll"
  /\ UNCHANGED <<jvm, handlers, io_q, stask, sgen,
                 fopen, gen, pollpc, spilling, disk, fatal>>

\* `while (running && io_q.empty()) yield; if (!running) break;`
SpillerExit ==
  /\ spc = "poll" /\ ~running
  /\ spc' = "exited"
  /\ UNCHANGED <<jvm, handlers, io_q, stask, sgen, io, fatal>>

-----------------------------------------------------------------------------
(* Worker thread: the io_poller fiber, progress_io                         *)

\* A completion: spilling = true, the task's promise gets header->length
\* when cqe->res > 0 and cqe->res otherwise.
progress_io(e) ==
  /\ pollpc = "run" /\ running /\ ThreadFree /\ fatal = "none"
  /\ e \in ring
  /\ ring' = ring \ {e}
  /\ spilling' = TRUE
  /\ res' = [res EXCEPT ![e.h] = IF e.fate = "ebadf" THEN -1 ELSE 1]
  /\ disk' = IF e.fate = "ok"
               THEN [disk EXCEPT ![SpillPart(hspill[e.h])] = @ \cup {hspill[e.h]}]
               ELSE disk
  /\ UNCHANGED <<jvm, hpc, hbuf, hspill, bfree, done, spiller,
                 fopen, gen, pollpc, fatal>>

\* Mutant: count is reset on every poll, so it never reaches 5000.
IdleTimeout_never ==
  /\ pollpc = "run" /\ running /\ ThreadFree /\ spilling /\ FALSE
  /\ spilling' = FALSE
  /\ UNCHANGED <<jvm, handlers, spiller, fopen, gen, ring, pollpc, disk, fatal>>

\* count reaches 5000 polls of an empty completion queue: spilling = false.
\* How long the disk takes is not modelled, so this may happen while writes
\* are still in the ring.
IdleTimeout ==
  /\ pollpc = "run" /\ running /\ ThreadFree /\ spilling
  /\ spilling' = FALSE
  /\ UNCHANGED <<jvm, handlers, spiller, fopen, gen, ring, pollpc, disk, fatal>>

PollerExit ==
  /\ pollpc = "run" /\ ~running /\ ThreadFree
  /\ pollpc' = "exited"
  /\ UNCHANGED <<jvm, handlers, spiller, fopen, gen, ring, spilling, disk, fatal>>

\* The process has died, or Destroy has returned.
Terminated ==
  /\ fatal # "none" \/ jpc = "destroyed"
  /\ UNCHANGED vars

Next ==
  \/ TriggerSpillStart \/ JniAppend \/ WaitForSpillDone \/ WaitPoll
  \/ close_partition_files \/ Destroy \/ DestroyReturn
  \/ \E h \in Handlers, s \in Spills : handle_spill_request(h, s)
  \/ \E h \in Handlers : HandlerFinish(h) \/ HandlerExit(h)
  \/ SpillerPop \/ SpillerWake \/ SpillerSubmit \/ SpillerExit
  \/ \E e \in ring : progress_io(e)
  \/ IdleTimeout \/ PollerExit
  \/ Terminated

\* Every fiber of the worker thread is resumed while it is ready (boost's
\* round-robin scheduler), and the JVM's polling loop and the close after it
\* run. The JVM's own calls and the DPU's timing are the environment's.
Fairness ==
  /\ WF_vars(WaitPoll) /\ WF_vars(close_partition_files) /\ WF_vars(DestroyReturn)
  /\ \A h \in Handlers : WF_vars(HandlerFinish(h)) /\ WF_vars(HandlerExit(h))
  /\ WF_vars(SpillerPop) /\ WF_vars(SpillerWake) /\ WF_vars(SpillerSubmit)
  /\ WF_vars(SpillerExit)
  /\ WF_vars(\E e \in ring : progress_io(e))
  /\ WF_vars(IdleTimeout) /\ WF_vars(PollerExit)

Spec == Init /\ [][Next]_vars /\ Fairness

-----------------------------------------------------------------------------
(* Properties                                                              *)

TypeOK ==
  /\ jpc \in {"ready", "appending", "waiting", "closing", "destroying", "destroyed"}
  /\ rounds \in 0 .. MaxRounds /\ nspills \in 0 .. MaxSpills
  /\ cur \subseteq Spills /\ relay \subseteq Spills /\ running \in BOOLEAN
  /\ hpc \in [Handlers -> {"idle", "wait", "exited"}]
  /\ hbuf \in [Handlers -> Bufs \cup {NoBuf}]
  /\ hspill \in [Handlers -> Spills \cup {NoSpill}]
  /\ res \in [Handlers -> {NoRes, -1, 1}]
  /\ bfree \subseteq Bufs /\ io_q \in Seq(Handlers)
  /\ spc \in {"poll", "wait_files", "submit", "exited"}
  /\ stask \in Handlers \cup {0} /\ sgen \in Nat /\ fopen \in BOOLEAN
  /\ gen \in 0 .. MaxRounds /\ ring \subseteq [h : Handlers, fate : Fates]
  /\ pollpc \in {"run", "exited"} /\ spilling \in BOOLEAN
  /\ done \subseteq Spills /\ disk \in [Partitions -> SUBSET Spills]
  /\ fatal \in Fatals

\* bp (BufferPool of the worker): every buffer is either free or held by
\* exactly one handle_spill_request, across acquire_one, bulk_read, the
\* wait for the write and release_one of concurrent serve workers.
BufferConservation ==
  /\ \A h \in Handlers : hbuf[h] # NoBuf => hbuf[h] \notin bfree
  /\ \A h, g \in Handlers : h # g /\ hbuf[h] # NoBuf => hbuf[h] # hbuf[g]
  /\ bfree \cup {hbuf[h] : h \in {x \in Handlers : hbuf[x] # NoBuf}} = Bufs

Occ(s, x) == Cardinality({i \in 1 .. Len(s) : s[i] = x})

\* Where the FileIOTask of a waiting handler is: in io_q, with the spiller
\* (prepared or waiting for the files), in the ring, or completed.
TaskPlaces(h) ==
  Occ(io_q, h)
  + (IF spc \in {"wait_files", "submit"} /\ stask = h THEN 1 ELSE 0)
  + Cardinality({e \in ring : e.h = h})
  + (IF res[h] # NoRes THEN 1 ELSE 0)

\* Every spill the JVM issued is in exactly one place: on its way from the
\* SpillAgent, with one serve worker, or answered; and a waiting worker's
\* task is in exactly one place between handle_spill_request, the spiller's
\* pop and c.wait, io_uring and progress_io.  A die() ends the process with
\* whatever it held, so this is stated of the states before one.
NoSpillLostOrDuplicated ==
  fatal = "none" =>
    /\ \A s \in 1 .. nspills :
         (IF s \in relay THEN 1 ELSE 0)
         + Cardinality({h \in Handlers : hpc[h] = "wait" /\ hspill[h] = s})
         + (IF s \in done THEN 1 ELSE 0) = 1
    /\ \A h \in Handlers :
         hpc[h] = "wait" => TaskPlaces(h) = 1

\* WaitForSpillDone returns (or the process has died): the io_poller's idle
\* count clears `spilling` once the completions stop.
WaitForSpillDoneReturns ==
  jpc = "waiting" ~> (jpc # "waiting" \/ fatal # "none")

\* When WaitForSpillDone returns, every partition buffer the JVM appended in
\* this round is in its partition file: the files are closed and handed to
\* the reader.
SpillDurable ==
  [][jpc = "closing" /\ jpc' = "ready" =>
       \A s \in cur : s \in disk[SpillPart(s)]]_vars

====
