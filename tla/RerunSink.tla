---- MODULE RerunSink ----
(* The Rerun log sink: the control loop hands snapshots to a worker thread   *)
(* through a bounded queue, the queue sheds load instead of blocking, and a  *)
(* worker stuck in the SDK is disowned so that an evaluation always ends.    *)
(*                                                                           *)
(* A snapshot is its serial number, its kind and whether it carries frames.  *)
(* Every generation of the worker has its own state; the SDK may stay in one *)
(* call for as long as it likes, so every timed wait may time out.           *)
EXTENDS Integers, Sequences, FiniteSets

CONSTANTS
  RQueueSize, \* queue_size
  REvals,     \* bound: evaluations
  RSteps      \* bound: snapshots logged in all

ASSUME RerunAssumption ==
  RQueueSize \in Nat \ {0} /\ REvals \in Nat /\ RSteps \in Nat

VARIABLES
  rpc,       \* where the control thread stands
  reval,     \* evaluations started
  logged,    \* snapshots handed over so far
  rqueue,    \* _queue
  workers,   \* the worker generations, the last one being the sink's own
  owned,     \* _state is not None: the last generation is the sink's
  dropped,   \* _dropped_steps plus _dropped_transcripts
  bareFrames,\* snapshots whose frames were shed
  disabled,  \* _disabled
  warned,    \* _emit_warned
  (* Only the properties read the rest, kept over the sink's life: *)
  emitted,   \* what reached the SDK: serial, generation, evaluation it landed in
  reported,  \* snapshots that a drop report named
  failed,    \* snapshots whose emit raised: the sink does not count them
  announced  \* warnings of an emit that raised

told == <<warned, reported, failed, announced>>
rerunVars == <<rpc, reval, logged, rqueue, workers, owned, dropped, bareFrames, disabled, emitted, told>>

Kinds == {"step", "transcript"}
Watermark == IF RQueueSize \div 4 > 1 THEN RQueueSize \div 4 ELSE 1

RInit0 ==
  /\ rpc = "idle" /\ reval = 0 /\ logged = 0
  /\ rqueue = <<>> /\ workers = <<>> /\ owned = FALSE
  /\ dropped = 0 /\ bareFrames = 0 /\ disabled = FALSE
  /\ emitted = <<>> /\ warned = FALSE /\ reported = 0 /\ failed = 0 /\ announced = 0

Current == Len(workers)
WorkerAlive == owned /\ workers[Current].at # "gone"
Inflight == owned /\ workers[Current].at = "emitting"

(* flush(): everything handed over has been given to the SDK. *)
Drained == rqueue = <<>> /\ ~Inflight

-----------------------------------------------------------------------------
(* The control thread. *)

(* on_eval_start: a worker left over by a crash is shut down first; the      *)
(* recording may fail to open, which disables the sink.                      *)
StartRecording ==
  /\ rpc = "idle" /\ reval < REvals
  /\ IF WorkerAlive
     THEN rpc' = "flush" /\ UNCHANGED <<reval, disabled>>
     ELSE /\ reval' = reval + 1 /\ rpc' = "running"
          /\ disabled' \in {disabled, TRUE}
  /\ UNCHANGED <<logged, rqueue, workers, owned, dropped, bareFrames, emitted, told>>

(* _ensure_worker *)
Generations == IF WorkerAlive THEN workers
               ELSE Append(workers, [at |-> "waiting", item |-> 0, stop |-> FALSE, stalled |-> FALSE,
                                 eval |-> reval])

(* _enqueue: above the watermark a step goes without its frames; a full      *)
(* queue evicts its oldest snapshot.                                         *)
Snapshot(kind) ==
  [serial |-> logged + 1, kind |-> kind,
   frames |-> kind = "step" /\ Len(rqueue) < Watermark]

(* A mutant: only evicted steps are counted. *)
EvictedSteps == IF Head(rqueue).kind = "step" THEN dropped + 1 ELSE dropped

Evicted == dropped + 1

LogSnapshot(kind) ==
  /\ rpc = "running" /\ ~disabled /\ logged < RSteps
  /\ logged' = logged + 1
  /\ workers' = Generations /\ owned' = TRUE
  /\ bareFrames' = bareFrames + (IF kind = "step" /\ ~Snapshot(kind).frames THEN 1 ELSE 0)
  /\ IF Len(rqueue) >= RQueueSize
     THEN rqueue' = Append(Tail(rqueue), Snapshot(kind)) /\ dropped' = Evicted
     ELSE rqueue' = Append(rqueue, Snapshot(kind)) /\ UNCHANGED dropped
  /\ UNCHANGED <<rpc, reval, disabled, emitted, told>>

(* on_trial_end: a flush bounded by flush_timeout, unless an earlier one of  *)
(* this generation timed out.                                                *)
FlushTrial ==
  /\ rpc = "running" /\ owned /\ ~workers[Current].stalled
  /\ ~Drained
  /\ workers' = [workers EXCEPT ![Current].stalled = TRUE]
  /\ UNCHANGED <<rpc, reval, logged, rqueue, owned, dropped, bareFrames, disabled, emitted, told>>

(* on_eval_end; a crash on the way skips it. *)
EndRecording ==
  /\ rpc = "running"
  /\ rpc' \in {"flush", "idle"}
  /\ UNCHANGED <<reval, logged, rqueue, workers, owned, dropped, bareFrames, disabled, emitted, told>>

(* _shutdown: flush for a while, tell the worker to stop, join for a while.  *)
StopWorker ==
  /\ rpc = "flush"
  /\ rpc' = IF owned THEN "join" ELSE "probe"
  /\ workers' = IF owned THEN [workers EXCEPT ![Current].stop = TRUE] ELSE workers
  /\ UNCHANGED <<reval, logged, rqueue, owned, dropped, bareFrames, disabled, emitted, told>>

(* A worker still alive when the join times out is disowned, and the backlog *)
(* it will never see is counted as dropped. The next failure warns again.    *)
Disown ==
  /\ rpc = "join"
  /\ owned' = FALSE /\ rpc' = "probe"
  /\ IF WorkerAlive
     THEN dropped' = dropped + Len(rqueue) /\ rqueue' = <<>>
     ELSE UNCHANGED <<dropped, rqueue>>
  /\ warned' = FALSE
  /\ UNCHANGED <<reval, logged, workers, bareFrames, disabled, emitted, reported, failed, announced>>

(* A mutant: the counters are reset only for the next evaluation's report.   *)
ReportOnly ==
  /\ rpc = "probe"
  /\ disabled' \in {disabled, TRUE}
  /\ reported' = reported + dropped
  /\ rpc' = "idle"
  /\ UNCHANGED <<reval, logged, rqueue, workers, owned, dropped, bareFrames, emitted, warned,
                 failed, announced>>

(* _probe_recording_flush and the drop report. *)
ProbeAndReport ==
  /\ rpc = "probe"
  /\ disabled' \in {disabled, TRUE}
  /\ reported' = reported + dropped /\ dropped' = 0 /\ bareFrames' = 0
  /\ rpc' = "idle"
  /\ UNCHANGED <<reval, logged, rqueue, workers, owned, emitted, warned, failed, announced>>

-----------------------------------------------------------------------------
(* Worker generation g. *)

(* A mutant: the stop flag alone ends a worker. *)
NeverDisowned(g) == FALSE

Disowned(g) == ~(owned /\ g = Current)

Take(g) ==
  /\ workers[g].at = "waiting" /\ ~Disowned(g) /\ rqueue # <<>>
  /\ workers' = [workers EXCEPT ![g].at = "emitting", ![g].item = Head(rqueue).serial]
  /\ rqueue' = Tail(rqueue)
  /\ UNCHANGED <<rpc, reval, logged, owned, dropped, bareFrames, disabled, emitted, told>>

(* _emit: the SDK took the snapshot, or raised and it is gone; the first     *)
(* failure warns that the further ones are silent.                           *)
Emit(g) ==
  /\ workers[g].at = "emitting"
  /\ workers' = [workers EXCEPT ![g].at = "waiting", ![g].item = 0]
  /\ \/ emitted' = Append(emitted, [serial |-> workers[g].item, gen |-> g, into |-> reval])
        /\ UNCHANGED told
     \/ /\ failed' = failed + 1 /\ warned' = TRUE
        /\ announced' = IF warned THEN announced ELSE announced + 1
        /\ UNCHANGED <<emitted, reported>>
  /\ UNCHANGED <<rpc, reval, logged, rqueue, owned, dropped, bareFrames, disabled>>

Leave(g) ==
  /\ workers[g].at = "waiting"
  /\ Disowned(g) \/ (workers[g].stop /\ rqueue = <<>>)
  /\ workers' = [workers EXCEPT ![g].at = "gone"]
  /\ UNCHANGED <<rpc, reval, logged, rqueue, owned, dropped, bareFrames, disabled, emitted, told>>

RerunNext ==
  \/ StartRecording \/ FlushTrial \/ EndRecording
  \/ \E kind \in Kinds : LogSnapshot(kind)
  \/ StopWorker \/ Disown \/ ProbeAndReport
  \/ \E g \in DOMAIN workers : Take(g) \/ Emit(g) \/ Leave(g)

RerunSpec == RInit0 /\ [][RerunNext]_rerunVars

-----------------------------------------------------------------------------
RerunTypeOK ==
  /\ rpc \in {"idle", "running", "flush", "join", "probe"}
  /\ Len(rqueue) <= RQueueSize
  /\ \A g \in DOMAIN workers : workers[g].at \in {"waiting", "emitting", "gone"}
  /\ {disabled, owned, warned} \subseteq BOOLEAN

(* Every snapshot handed over is in the recording, in the queue, in the      *)
(* hands of a worker or counted as dropped, but for those whose emit raised, *)
(* of which the sink keeps no count and speaks only once                     *)
(* (rerun_sink.py:537): a queue at its limit and a stuck worker lose nothing *)
(* uncounted.  What was counted is reported by the time the worker is shut   *)
(* down, no emit fails before one was warned of, and no snapshot is recorded *)
(* twice.                                                                    *)
Accounted ==
  /\ logged = Len(emitted) + Len(rqueue) + dropped + reported + failed
              + Cardinality({g \in DOMAIN workers : workers[g].at = "emitting"})
  /\ rpc = "idle" /\ ~owned => dropped = 0
  /\ failed > 0 => announced > 0
  /\ \A i, j \in DOMAIN emitted : emitted[i].serial = emitted[j].serial => i = j

(* Each generation records in the order the control loop logged.             *)
RecordedInOrder ==
  \A i, j \in DOMAIN emitted :
    (i < j /\ emitted[i].gen = emitted[j].gen) => emitted[i].serial < emitted[j].serial

(* Once disowned, a worker finishes the one snapshot it holds and takes no   *)
(* other: at most one of a generation's snapshots lands in the recording of  *)
(* a later evaluation.                                                       *)
OneStraggler ==
  \A g \in DOMAIN workers :
    Cardinality({i \in DOMAIN emitted : emitted[i].gen = g /\ emitted[i].into > workers[g].eval}) <= 1
====
