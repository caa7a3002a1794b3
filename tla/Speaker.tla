------------------------------- MODULE Speaker -------------------------------
(***************************************************************************)
(* inspect-robots-voice, SpeakerSink: the policy's narration is queued by  *)
(* the rollout's thread and spoken by a worker, chunk by chunk.  start()   *)
(* builds the engine without the lock, so that close() may come first.     *)
(* The output stream is opened by the first write, which the worker may    *)
(* have begun before close() and end after it.                             *)
(* Speech is cancelled by a generation number, without waiting for the     *)
(* worker.  A note is the number of the delta that brought it.             *)
(***************************************************************************)
EXTENDS Integers, Sequences

CONSTANTS
    MaxDeltas,   \* bound: deltas with narration in a run
    Texts,       \* notes of a delta
    QueueSize,   \* _QUEUE_SIZE
    Chunks       \* bound: chunks of a note

ASSUME SpeakerAssumption ==
    /\ MaxDeltas \in Nat /\ Texts \in Nat /\ QueueSize \in Nat /\ Chunks \in Nat

Modes == {"blocking", "interrupt", "queue"}

VARIABLES
    mode,        \* as configured
    starter,     \* start(): not called, checked, built, done
    caller,      \* the rollout's thread: idle, waiting, draining, joining, over
    deltas,      \* deltas so far
    notes,       \* _queue
    speechGen,   \* _speech_gen
    inflight, silenced, closed, stopped, degraded,  \* the flags
    hasThread,   \* _thread and _playback are set
    speaker,     \* the worker
    note, noteGen, left,   \* what it speaks, under which generation, chunks to go
    stream,      \* the playback holds an open output stream
    \* Only the properties read the rest:
    late,        \* chunks written after the note was cancelled
    outlived     \* close() stopped waiting for a worker about to open or reopen it

flags == <<inflight, silenced, closed, stopped, degraded>>
speech == <<speaker, note, noteGen, left, late>>
playback == <<stream, outlived>>
speakerVars == <<mode, starter, caller, deltas, notes, speechGen, flags, hasThread, speech,
                 playback>>

SpInit ==
    /\ mode \in Modes /\ starter = "new" /\ caller = "idle" /\ deltas = 0
    /\ notes = <<>> /\ speechGen = 0
    /\ inflight = FALSE /\ silenced = FALSE /\ closed = FALSE /\ stopped = FALSE
    /\ degraded = FALSE /\ hasThread = FALSE
    /\ speaker = "off" /\ note = 0 /\ noteGen = 0 /\ left = 0 /\ late = 0
    /\ stream = FALSE /\ outlived = FALSE

----------------------------------------------------------------------------
\* start().

StartChecks ==
    /\ starter = "new" /\ starter' = IF closed THEN "done" ELSE "building"
    /\ UNCHANGED <<mode, caller, deltas, notes, speechGen, flags, hasThread, speech, playback>>

\* Building the engine and the playback may fail, and the run does not begin.
StartBuilds ==
    /\ starter = "building" /\ starter' \in {"built", "done"}
    /\ UNCHANGED <<mode, caller, deltas, notes, speechGen, flags, hasThread, speech, playback>>

\* A sink that was closed meanwhile stays closed; its playback has no stream yet.
StartPublishes ==
    /\ starter = "built" /\ starter' = "done"
    /\ IF closed THEN UNCHANGED <<stopped, hasThread, speaker>>
                 ELSE stopped' = FALSE /\ hasThread' = TRUE /\ speaker' = "waiting"
    /\ UNCHANGED <<mode, caller, deltas, notes, speechGen, inflight, silenced, closed, degraded,
                   note, noteGen, left, late, playback>>

----------------------------------------------------------------------------
\* The rollout's thread.

Alive == hasThread /\ speaker # "off" /\ ~silenced /\ ~stopped

\* The oldest notes make room.
Queued(q) ==
    LET s == q \o [i \in 1..Texts |-> deltas']
    IN  SubSeq(s, IF Len(s) > QueueSize THEN Len(s) - QueueSize + 1 ELSE 1, Len(s))

Narrate ==
    /\ caller = "idle" /\ deltas < MaxDeltas /\ Alive
    /\ deltas' = deltas + 1
    /\ CASE mode = "interrupt" -> /\ speechGen' = speechGen + 1 /\ notes' = Queued(<<>>)
                                  /\ UNCHANGED caller
         [] mode = "queue" \/ (mode = "blocking" /\ (degraded \/ (notes = <<>> /\ ~inflight))) ->
                                  notes' = Queued(notes) /\ UNCHANGED <<speechGen, caller>>
         [] OTHER -> caller' = "waiting" /\ UNCHANGED <<notes, speechGen>>
    /\ UNCHANGED <<mode, starter, flags, hasThread, speech, playback>>

\* The blocking wait ends with the narration, with its timeout, which is the
\* last of its kind, or with a worker that is gone.
WaitEnds ==
    /\ caller = "waiting" /\ caller' = "idle" /\ UNCHANGED deltas
    /\ \/ ~Alive /\ UNCHANGED <<notes, degraded>>
       \/ Alive /\ notes = <<>> /\ ~inflight /\ notes' = Queued(<<>>) /\ UNCHANGED degraded
       \/ Alive /\ (notes # <<>> \/ inflight) /\ degraded' = TRUE /\ notes' = Queued(notes)
    /\ UNCHANGED <<mode, starter, speechGen, inflight, silenced, closed, stopped,
                   hasThread, speech, playback>>

\* on_trial_start discards what is queued; on_trial_end, when the operator ended
\* the trial, also what is being spoken.
TrialBoundary ==
    /\ caller = "idle" /\ notes' = <<>>
    /\ speechGen' \in {speechGen, speechGen + 1} /\ speechGen' <= MaxDeltas
    /\ UNCHANGED <<mode, starter, caller, deltas, flags, hasThread, speech, playback>>

\* on_eval_end waits for the narration of a success, within a bound.
EvalEnds ==
    /\ caller = "idle" /\ caller' \in {"draining", "closing"}
    /\ UNCHANGED <<mode, starter, deltas, notes, speechGen, flags, hasThread, speech, playback>>

DrainEnds ==
    /\ caller = "draining" /\ caller' = "closing"
    /\ UNCHANGED <<mode, starter, deltas, notes, speechGen, flags, hasThread, speech, playback>>

\* close() waits for the worker within a bound, and closes the stream whether it
\* has gone or not.
CloseSpeaker ==
    /\ caller = "closing" /\ ~closed /\ caller' = "joining"
    /\ closed' = TRUE /\ stopped' = TRUE /\ notes' = <<>>
    /\ UNCHANGED <<mode, starter, deltas, speechGen, inflight, silenced, degraded, hasThread,
                   speech, playback>>

\* Wrong on purpose: a worker that does not end keeps its stream (breaks
\* SpeakerReleased).
JoinOrLeaveIt ==
    /\ caller = "joining" /\ caller' = "over" /\ hasThread' = FALSE
    /\ stream' = (stream /\ hasThread /\ speaker # "off")
    /\ outlived' = (hasThread /\ speaker = "writing")
    /\ UNCHANGED <<mode, starter, deltas, notes, speechGen, flags, speech>>

JoinSpeaker ==
    /\ caller = "joining" /\ caller' = "over"
    /\ stream' = (stream /\ ~hasThread) /\ hasThread' = FALSE
    /\ outlived' = (hasThread /\ speaker = "writing")
    /\ UNCHANGED <<mode, starter, deltas, notes, speechGen, flags, speech>>

----------------------------------------------------------------------------
\* The worker.

Leaves == speaker' = "off" /\ inflight' = FALSE /\ note' = 0 /\ left' = 0
Returns == speaker' = "waiting" /\ inflight' = FALSE /\ note' = 0 /\ left' = 0

TakeNote ==
    /\ speaker = "waiting" /\ ~stopped /\ notes # <<>>
    /\ note' = Head(notes) /\ notes' = Tail(notes) /\ noteGen' = speechGen /\ inflight' = TRUE
    /\ speaker' = "checking" /\ left' = Chunks /\ late' = 0
    /\ UNCHANGED <<mode, starter, caller, deltas, speechGen, silenced, closed, stopped, degraded,
                   hasThread, playback>>

SpeakerStops ==
    /\ stopped /\ speaker \in {"waiting", "checking"} /\ Leaves
    /\ UNCHANGED <<mode, starter, caller, deltas, notes, speechGen, silenced, closed, stopped,
                   degraded, hasThread, noteGen, late, playback>>

\* Wrong on purpose: a note begun is spoken to its end (breaks CancelledWithinAChunk).
CheckOnlyBeforehand ==
    /\ speaker = "checking" /\ ~stopped
    /\ IF left = 0 \/ (left = Chunks /\ noteGen # speechGen) THEN Returns
       ELSE speaker' = "writing" /\ UNCHANGED <<inflight, note, left>>
    /\ UNCHANGED <<mode, starter, caller, deltas, notes, speechGen, silenced, closed, stopped,
                   degraded, hasThread, noteGen, late, playback>>

\* Before it synthesizes and before each chunk the worker looks at the generation.
CheckGeneration ==
    /\ speaker = "checking" /\ ~stopped
    /\ IF left = 0 \/ noteGen # speechGen THEN Returns
       ELSE speaker' = "writing" /\ UNCHANGED <<inflight, note, left>>
    /\ UNCHANGED <<mode, starter, caller, deltas, notes, speechGen, silenced, closed, stopped,
                   degraded, hasThread, noteGen, late, playback>>

\* The playback opens the stream when it has none, and reopens it for a chunk of
\* another sample rate.
OpenStream ==
    /\ speaker = "writing" /\ speaker' = "playing" /\ stream' = TRUE
    /\ UNCHANGED <<mode, starter, caller, deltas, notes, speechGen, flags, hasThread, note,
                   noteGen, left, late, outlived>>

WriteChunk ==
    /\ speaker = "playing" /\ speaker' = "checking" /\ left' = left - 1
    /\ late' = IF noteGen # speechGen THEN late + 1 ELSE late
    /\ UNCHANGED <<mode, starter, caller, deltas, notes, speechGen, flags, hasThread, note,
                   noteGen, playback>>

\* A failure of the engine or the stream ends narration for the run: a stream that
\* does not open is none, one that does not start or play stays for close().
SpeakerFails ==
    /\ \/ speaker = "writing" /\ stream' \in BOOLEAN
       \/ speaker = "playing" /\ UNCHANGED stream
    /\ Leaves
    /\ silenced' = TRUE /\ stopped' = TRUE /\ notes' = <<>>
    /\ UNCHANGED <<mode, starter, caller, deltas, speechGen, closed, degraded, hasThread,
                   noteGen, late, outlived>>

SpNext ==
    \/ StartChecks \/ StartBuilds \/ StartPublishes
    \/ Narrate \/ WaitEnds \/ TrialBoundary \/ EvalEnds \/ DrainEnds \/ CloseSpeaker \/ JoinSpeaker
    \/ TakeNote \/ SpeakerStops \/ CheckGeneration \/ OpenStream \/ WriteChunk
    \/ SpeakerFails
    \/ caller = "over" /\ UNCHANGED speakerVars

SpeakerSpec == SpInit /\ [][SpNext]_speakerVars

----------------------------------------------------------------------------
\* Properties.

SpeakerTypeOK ==
    /\ mode \in Modes /\ starter \in {"new", "building", "built", "done"}
    /\ caller \in {"idle", "waiting", "draining", "closing", "joining", "over"}
    /\ deltas \in 0..MaxDeltas /\ speechGen \in 0..(2 * MaxDeltas)
    /\ notes \in Seq(1..MaxDeltas) /\ Len(notes) <= QueueSize
    /\ {inflight, silenced, closed, stopped, degraded, hasThread} \subseteq BOOLEAN
    /\ speaker \in {"off", "waiting", "checking", "writing", "playing"}
    /\ note \in 0..MaxDeltas /\ left \in 0..Chunks /\ late \in 0..Chunks
    /\ {stream, outlived} \subseteq BOOLEAN

\* Speech that was cancelled, by a newer note or by the operator's end of the
\* trial, stops within the chunk being played, wherever the worker was.
CancelledWithinAChunk == late <= 1

\* When blocking narration returns to the rollout, nothing said before is still
\* to be spoken, until the first wait that times out.
BlockingKeepsUp ==
    mode = "blocking" /\ ~degraded /\ caller = "idle" =>
        \A i, j \in DOMAIN notes : notes[i] = notes[j]

\* Once start() and close() are over, whichever of the two was first to get the
\* lock, no worker is started any more and no output stream is open; but for the one
\* that a worker opened in a write which close() had stopped waiting for, and which
\* nobody closes, though _speaker.py:261 says that close() closes audio resources.
SpeakerReleased ==
    caller = "over" /\ starter = "done" =>
        /\ ~hasThread /\ stopped
        /\ stream => outlived
=============================================================================
