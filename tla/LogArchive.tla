----------------------------- MODULE LogArchive -----------------------------
(***************************************************************************)
(* The JSONL archive of the core-log stream (log_sink.rs): a subscriber    *)
(* task of the manager's broadcast channel that drains it in batches,      *)
(* appends them to the active file of the log directory, rolls over by     *)
(* size and prunes by count.                                               *)
(*                                                                         *)
(* Frame i is the i-th frame published, over all runs of the process.      *)
(* A record of a file is [t, n]: log frame n, a gap of n dropped frames,   *)
(* or a half-written line.  Sizes are in units of the smallest record.     *)
(***************************************************************************)
EXTENDS Integers, Sequences, FiniteSets, FiniteSetsExt

CONSTANTS Capacity,      \* LOG_CHANNEL_CAPACITY of the broadcast ring
          MaxBatch,      \* MAX_BATCH_RECORDS
          MaxBytes,      \* options.max_bytes
          FileBudgets,   \* the values of options.max_files
          MaxFrames,     \* bound: frames published
          MaxSinkRuns,   \* bound: runs of the process
          MaxSinkFaults  \* bound: failing disk operations

ASSUME CapacityAssumption == Capacity \in Nat \ {0} /\ MaxBatch \in Nat \ {0}
ASSUME LimitAssumption == MaxBytes \in Nat \ {0} /\ FileBudgets \subseteq Nat \ {0}

VARIABLES
  maxFiles,    \* options.max_files
  published,   \* frames sent on the channel so far
  taken,       \* frames the sink's receiver has consumed or skipped
  closed,      \* every sender is gone
  cancelled,   \* SinkHandle::shutdown has cancelled the token
  sink,        \* the task: where it is, its batch and its Writer
  dir,         \* the log directory: sequence number -> records
  sinkFaults,
  sinkRuns,
  tornWrite,   \* history: a write_all or flush has failed
  accounted,   \* history: the last frame the records written so far account for
  dueAtCancel  \* history: frames published when the token was cancelled

archiveVars == <<maxFiles, published, taken, closed, cancelled, sink, dir,
                 sinkFaults, sinkRuns, tornWrite, accounted, dueAtCancel>>

Log(i)   == [t |-> "log", n |-> i]
Gap(k)   == [t |-> "gap", n |-> k]
Half     == [t |-> "half", n |-> 0]
Records  == [t : {"log", "gap", "half"}, n : 0..MaxFrames]

\* Frames come in two sizes, so that a batch crosses the limit at different
\* places; a gap record is as small as the smallest frame.
Size(r) == IF r.t = "log" THEN 1 + (r.n % 2) ELSE 1
Bytes(s) == Len(s) + Cardinality({i \in DOMAIN s : Size(s[i]) = 2})

Off == [pc |-> "off", arm |-> "recv", batch |-> <<>>, buffer |-> <<>>,
        last |-> FALSE, written |-> 0, seq |-> 0]

ArchiveInit ==
  /\ maxFiles \in FileBudgets
  /\ published = 0 /\ taken = 0
  /\ closed = FALSE /\ cancelled = FALSE
  /\ sink = Off
  /\ dir = << >>
  /\ sinkFaults = 0 /\ sinkRuns = 0
  /\ tornWrite = FALSE
  /\ accounted = 0 /\ dueAtCancel = 0

-----------------------------------------------------------------------------
(* The directory.  Each operator gives the set of outcomes an operation of *)
(* the Writer may have: <<directory, faults it cost>>.                     *)

Faulty(k) == sinkFaults + k < MaxSinkFaults

newest_seq(d) == IF DOMAIN d = {} THEN 1 ELSE Max(DOMAIN d)
next_seq(d) == IF DOMAIN d = {} THEN 1 ELSE Max(DOMAIN d) + 1

\* The newest `keep` files survive.
prune_targets(seqs, keep) ==
  {s \in seqs : Cardinality({n \in seqs : n > s}) >= keep}

Without(d, gone) == [s \in DOMAIN d \ gone |-> d[s]]

\* Each delete may fail, and all of them do when the directory cannot be listed.
prune_dir(d, keep, protect, cost) ==
  LET targets == prune_targets(DOMAIN d, keep) \ protect
      some    == (SUBSET targets) \ {targets}
  IN  {<<Without(d, targets), cost>>}
        \cup {<<Without(d, gone), cost + 1>> : gone \in (IF Faulty(cost) THEN some ELSE {})}

\* create: opened for append, so an existing file keeps its content.
create(d, seq) ==
  [s \in DOMAIN d \cup {seq} |-> IF s \in DOMAIN d THEN d[s] ELSE << >>]

\* What may reach the file of a write that is cut: some whole records, and
\* possibly a part of the next one.
Cuts(buffer) ==
  {SubSeq(buffer, 1, k) : k \in 0..Len(buffer)}
    \cup {Append(SubSeq(buffer, 1, k), Half) : k \in 0..(Len(buffer) - 1)}

\* flush_pending: a failing write_all returns without counting the bytes; a
\* failing flush counts them all the same.
flush_pending(w) ==
  LET file(s) == [dir EXCEPT ![w.seq] = @ \o s]
      counted == w.written + Bytes(w.buffer)
  IN  IF w.buffer = <<>> THEN {[d |-> dir, written |-> w.written, cost |-> 0]}
      ELSE {[d |-> file(w.buffer), written |-> counted, cost |-> 0]}
             \cup {[d |-> file(s), written |-> n, cost |-> 1] :
                     s \in (IF Faulty(0) THEN Cuts(w.buffer) ELSE {}),
                     n \in {w.written, counted}}

\* The prune behind a rollover protects the file just created.
NoTrailingPrune(d, seq, cost) == {<<d, cost>>}
TrailingPrune(d, seq, cost) == prune_dir(d, maxFiles, {seq}, cost)

\* rotate: prune, create the next file, prune again; a failing create keeps
\* the oversized file.
rotate(f, seq) ==
  LET made(p) == {[d |-> q[1], written |-> 0, seq |-> seq + 1, cost |-> q[2]] :
                    q \in TrailingPrune(create(p[1], seq + 1), seq + 1, p[2])}
      kept(p) == IF Faulty(p[2])
                 THEN {[d |-> p[1], written |-> f.written, seq |-> seq, cost |-> p[2] + 1]}
                 ELSE {}
  IN  UNION {made(p) \cup kept(p) : p \in prune_dir(f.d, maxFiles - 1, {seq}, f.cost)}

-----------------------------------------------------------------------------
(* The channel.                                                            *)

SinkRuns == sink.pc \notin {"off", "done", "aborted"}

\* publish_log_frame: the send never waits for the sink.
Publish ==
  /\ sink.pc # "off" /\ ~closed
  /\ published < MaxFrames
  /\ published' = published + 1
  /\ UNCHANGED <<maxFiles, taken, closed, cancelled, sink, dir, sinkFaults,
                 sinkRuns, tornWrite, accounted, dueAtCancel>>

\* The last sender is dropped with the manager and its instances.
CloseChannel ==
  /\ sink.pc # "off" /\ ~closed
  /\ closed' = TRUE
  /\ UNCHANGED <<maxFiles, published, taken, cancelled, sink, dir, sinkFaults,
                 sinkRuns, tornWrite, accounted, dueAtCancel>>

\* SinkHandle::shutdown cancels the token and waits.
SinkShutdown ==
  /\ sink.pc # "off" /\ ~cancelled
  /\ cancelled' = TRUE
  /\ dueAtCancel' = published
  /\ UNCHANGED <<maxFiles, published, taken, closed, sink, dir, sinkFaults,
                 sinkRuns, tornWrite, accounted>>

\* What the receiver gets next: a frame, or the number of frames the ring
\* overwrote before it came back.
Lag == published - taken - Capacity
TakenAfter == IF Lag > 0 THEN taken + Lag ELSE taken + 1
Received == IF Lag > 0 THEN Gap(Lag) ELSE Log(taken + 1)

-----------------------------------------------------------------------------
(* The task.                                                               *)

\* Writer::open, before the task is spawned.
Open ==
  /\ sink.pc = "off" /\ sinkRuns < MaxSinkRuns
  /\ sinkRuns' = sinkRuns + 1
  /\ \E p \in prune_dir(dir, maxFiles - 1, {}, 0) :
       /\ dir' = create(p[1], next_seq(dir))
       /\ sinkFaults' = sinkFaults + p[2]
  /\ sink' = [Off EXCEPT !.pc = "select", !.seq = next_seq(dir)]
  /\ taken' = published /\ accounted' = published
  /\ UNCHANGED <<maxFiles, published, closed, cancelled, tornWrite, dueAtCancel>>

\* The directory cannot be listed or the first file not created: CoreManager::new
\* fails, with the prune done or not.
OpenFails ==
  /\ sink.pc = "off" /\ sinkRuns < MaxSinkRuns
  /\ sinkRuns' = sinkRuns + 1
  /\ Faulty(0)
  /\ \E p \in {<<dir, 1>>} \cup prune_dir(dir, maxFiles - 1, {}, 1) :
       dir' = p[1] /\ sinkFaults' = sinkFaults + p[2]
  /\ UNCHANGED <<maxFiles, published, taken, closed, cancelled, sink,
                 tornWrite, accounted, dueAtCancel>>

OnlySink == UNCHANGED <<maxFiles, published, closed, cancelled, dir,
                        sinkFaults, sinkRuns, tornWrite, accounted, dueAtCancel>>

\* run: batch.clear(), then whichever arm of the select is ready.
TakeFirst ==
  /\ sink.pc = "select" /\ taken < published
  /\ sink' = [sink EXCEPT !.pc = "drain", !.arm = "recv", !.batch = <<Received>>]
  /\ taken' = TakenAfter
  /\ OnlySink

SeeClosed ==
  /\ sink.pc = "select" /\ closed /\ taken = published
  /\ sink' = [sink EXCEPT !.pc = "done"]
  /\ UNCHANGED taken /\ OnlySink

SeeCancelled ==
  /\ sink.pc = "select" /\ cancelled
  /\ sink' = [sink EXCEPT !.pc = "drain", !.arm = "cancel", !.batch = << >>]
  /\ UNCHANGED taken /\ OnlySink

drain ==
  /\ sink.pc = "drain" /\ Len(sink.batch) < MaxBatch /\ taken < published
  /\ sink' = [sink EXCEPT !.batch = Append(@, Received)]
  /\ taken' = TakenAfter
  /\ OnlySink

\* The batch after which the loop breaks: the channel is closed, or the token
\* is cancelled and the drain stopped short of a full batch.
LastBatch(drained) ==
  \/ drained
  \/ sink.arm = "cancel" /\ Len(sink.batch) < MaxBatch

DrainEnds ==
  /\ sink.pc = "drain"
  /\ Len(sink.batch) = MaxBatch \/ taken = published
  /\ sink' = [sink EXCEPT
       !.pc = "write",
       !.last = LastBatch(closed /\ Len(sink.batch) < MaxBatch)]
  /\ UNCHANGED taken /\ OnlySink

\* The frame a reader has reached after these records: each log record is the
\* next frame and a gap skips as many as it counts; -1 when they do not fit.
Replay(from, records) ==
  LET after(at, r) == IF at < 0 \/ r.t = "half" THEN -1
                      ELSE IF r.t = "gap" THEN at + r.n
                      ELSE IF r.n = at + 1 THEN r.n ELSE -1
      reached[i \in 0..Len(records)] ==
        IF i = 0 THEN from ELSE after(reached[i - 1], records[i])
  IN  reached[Len(records)]

Recorded(f) ==
  /\ tornWrite' = (tornWrite \/ f.cost > 0)
  /\ accounted' = Replay(accounted, sink.buffer)

\* The check that decides a rollover runs before every record.
OverLimit(w) == w.written + Bytes(w.buffer) >= MaxBytes

\* Writer::write, one record: roll over first when the active file is full.
WriteRecord ==
  /\ sink.pc = "write" /\ sink.batch # << >>
  /\ LET pushed(buffer) == Append(buffer, Head(sink.batch))
     IN  \/ /\ ~OverLimit(sink)
            /\ sink' = [sink EXCEPT !.batch = Tail(sink.batch), !.buffer = pushed(@)]
            /\ UNCHANGED <<dir, sinkFaults, tornWrite, accounted>>
         \/ /\ OverLimit(sink)
            /\ \E f \in flush_pending(sink) : \E r \in rotate(f, sink.seq) :
                 /\ sink' = [sink EXCEPT !.batch = Tail(sink.batch), !.buffer = pushed(<<>>),
                                         !.written = r.written, !.seq = r.seq]
                 /\ dir' = r.d
                 /\ sinkFaults' = sinkFaults + r.cost
                 /\ Recorded(f)
  /\ UNCHANGED <<maxFiles, published, taken, closed, cancelled, sinkRuns, dueAtCancel>>

\* Writer::write, the end of the batch, and the loop's break.
WriteEnds ==
  /\ sink.pc = "write" /\ sink.batch = << >>
  /\ \E f \in flush_pending(sink) :
       /\ sink' = [sink EXCEPT !.pc = IF sink.last THEN "done" ELSE "select",
                               !.buffer = << >>, !.written = f.written]
       /\ dir' = f.d
       /\ sinkFaults' = sinkFaults + f.cost
       /\ Recorded(f)
  /\ UNCHANGED <<maxFiles, published, taken, closed, cancelled, sinkRuns, dueAtCancel>>

\* A write in flight when the task or the process dies.
CutShort(pc) ==
  \E s \in (IF sink.pc = "write" THEN Cuts(sink.buffer) ELSE {<< >>}) :
    /\ dir' = IF sink.seq \in DOMAIN dir THEN [dir EXCEPT ![sink.seq] = @ \o s] ELSE dir
    /\ sink' = [Off EXCEPT !.pc = pc, !.seq = sink.seq]

\* SinkHandle::shutdown gives up after five seconds and aborts the task.
AbortTask ==
  /\ cancelled /\ SinkRuns
  /\ CutShort("aborted")
  /\ UNCHANGED <<maxFiles, published, taken, closed, cancelled, sinkFaults,
                 sinkRuns, tornWrite, accounted, dueAtCancel>>

\* The process exits or crashes; the next run opens the directory again.
ProcessEnds ==
  /\ sink.pc # "off"
  /\ CutShort("off")
  /\ taken' = published /\ accounted' = published
  /\ closed' = FALSE /\ cancelled' = FALSE /\ dueAtCancel' = 0
  /\ UNCHANGED <<maxFiles, published, sinkFaults, sinkRuns, tornWrite>>

SinkStep ==
  TakeFirst \/ SeeClosed \/ SeeCancelled \/ drain \/ DrainEnds \/ WriteRecord \/ WriteEnds

ArchiveNext ==
  \/ Publish \/ CloseChannel \/ SinkShutdown \/ Open \/ OpenFails
  \/ SinkStep \/ AbortTask \/ ProcessEnds

-----------------------------------------------------------------------------
(* What the archive promises.                                              *)

\* Every published frame the sink has taken is in the archive, in the buffer or
\* in the batch exactly once and in publication order, or is counted by a gap
\* record at its place, as long as no write failed (log_sink.rs, run and write).
EveryFrameAccounted ==
  (SinkRuns \/ sink.pc = "done") /\ ~tornWrite
    => Replay(accounted, sink.buffer \o sink.batch) = taken

\* The files say the same to a reader: unless a write failed, the whole lines of a
\* file are consecutive frames and counted gaps, and the file in use ends at the
\* last frame accounted for (log_sink.rs, write, flush_pending and rotate).
FilesReadBack ==
  ~tornWrite =>
    \A s \in DOMAIN dir : \E from \in 0..published :
      LET at == Replay(from, SelectSeq(dir[s], LAMBDA r : r # Half))
      IN  at >= 0 /\ (SinkRuns /\ s = sink.seq => at = accounted)

\* A sink that ends by itself has written or counted everything published
\* before shutdown() cancelled it, or everything there was when the channel
\* closed (log_sink.rs, the cancellation arm of run).
DrainedBeforeDone ==
  sink.pc = "done" /\ ~tornWrite
    => accounted >= (IF cancelled THEN dueAtCancel ELSE published)

\* Without a failing disk operation no file grows more than one record past
\* max_bytes, even when a burst arrives as one batch (log_sink.rs, write).
OneRecordPastLimit ==
  sinkFaults = 0
    => \A s \in DOMAIN dir : Bytes(dir[s]) < MaxBytes + Max({Size(Log(i)) : i \in 1..2})

\* Unless a write failed, only the last line of a file can be half-written: a
\* crash or an abort cuts the last batch and the next run never appends to an
\* old file (log_sink.rs, the on-disk contract).
OnlyLastLineTorn ==
  ~tornWrite
    => \A s \in DOMAIN dir : \A i \in 1..(Len(dir[s]) - 1) : dir[s][i] # Half

\* Pruning never removes the file being written (log_sink.rs, rotate).
ActiveFileKept == SinkRuns => sink.seq \in DOMAIN dir

\* A step that switches to a new file without a failing operation leaves at
\* most max_files files, however many earlier prunes failed (log_sink.rs, open
\* and rotate).
RetentionConverges ==
  [][sink'.seq # sink.seq /\ sinkFaults' = sinkFaults
       => Cardinality(DOMAIN dir') <= maxFiles]_archiveVars

\* The archive is complete up to its last record and well formed: frames are
\* accounted for, in the files too, and drained before the end, files keep their
\* limit, only a last line is torn, and the file in use exists (log_sink.rs, run,
\* write and rotate).
ArchiveSound ==
  /\ EveryFrameAccounted /\ FilesReadBack /\ DrainedBeforeDone
  /\ OneRecordPastLimit /\ OnlyLastLineTorn /\ ActiveFileKept
=============================================================================
