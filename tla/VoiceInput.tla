------------------------------ MODULE VoiceInput ------------------------------
(***************************************************************************)
(* inspect-robots-voice, the microphone: PortAudio's callback fills a      *)
(* bounded queue, a worker cuts it into utterances and transcribes them,   *)
(* the rollout's thread polls what was accepted and starts trials, and the *)
(* command line closes it all.  A generation number, one per trial, keeps  *)
(* utterances of an earlier trial out of a later one, though not every     *)
(* block of their audio.                                                   *)
(*                                                                         *)
(* A block of audio is whether it is speech and the trial in which it was  *)
(* captured; an utterance is the set of trials its blocks come from.       *)
(***************************************************************************)
EXTENDS Integers, Sequences

CONSTANTS
    VTrials,     \* bound: trials
    MaxBlocks,   \* bound: blocks captured
    QueueBlocks, \* _QUEUE_BLOCKS
    MinOpen,     \* speech blocks that open an utterance
    PreRoll,     \* blocks kept from before an utterance
    Hangover,    \* quiet blocks that end it
    MaxOpen      \* blocks of the longest utterance

ASSUME VoiceAssumption ==
    /\ {VTrials, MaxBlocks, PreRoll} \subseteq Nat
    /\ {QueueBlocks, MinOpen, Hangover, MaxOpen} \subseteq Nat \ {0}

VARIABLES
    vMain,       \* where the rollout's and the command line's thread is
    generation,
    audio, captured,            \* _audio_queue; blocks captured so far
    worker, block, blockGen,    \* the worker, its block and the generation it read
    lastGen, openGen,           \* _last_generation, _open_generation (-1 for None)
    gate,                       \* the segmenter
    utterance,                  \* what the worker transcribes
    capture,                    \* _capture is not None
    mine, theirs,               \* the capture is in close()'s hands, in the worker's
    closes,                     \* close() calls the stream has had
    workerError,
    output,                     \* _output
    leftover                    \* blocks of an earlier trial that entered this one's
                                \* segmenter after begin_trial(); for the properties

voiceVars == <<vMain, generation, audio, captured, worker, block, blockGen, lastGen, openGen,
               gate, utterance, capture, mine, theirs, closes, workerError, output, leftover>>

Quiet == [preRoll |-> <<>>, candidate |-> <<>>, open |-> FALSE, size |-> 0, below |-> 0,
          from |-> {}, since |-> 0]
NoBlock == [speech |-> FALSE, g |-> 0]
NoUtterance == [from |-> {}, since |-> 0]

VInit ==
    /\ vMain = "new" /\ generation = 0 /\ audio = <<>> /\ captured = 0
    /\ worker = "off" /\ block = NoBlock /\ blockGen = 0 /\ lastGen = 0 /\ openGen = -1
    /\ gate = Quiet /\ utterance = NoUtterance
    /\ capture = FALSE /\ mine = FALSE /\ theirs = FALSE /\ closes = 0
    /\ workerError = FALSE /\ output = <<>> /\ leftover = 0

----------------------------------------------------------------------------
\* EnergyGate.push(): the gate after a block, and the utterance it closes, if any.
\* since is the generation in force when the gate opened.

Tags(s) == {s[i].g : i \in DOMAIN s}

\* A mutant: the gate opens a block late.
OpenedLate(s, b) ==
    LET cand == Append(s.candidate, b)
    IN  IF Len(cand) <= MinOpen THEN [s EXCEPT !.candidate = cand]
        ELSE [Quiet EXCEPT !.open = TRUE, !.size = Len(cand), !.from = Tags(s.preRoll \o cand),
                           !.since = generation]

Opened(s, b) ==
    LET cand == Append(s.candidate, b)
    IN  IF Len(cand) < MinOpen THEN [s EXCEPT !.candidate = cand]
        ELSE [Quiet EXCEPT !.open = TRUE, !.size = Len(cand), !.from = Tags(s.preRoll \o cand),
                           !.since = generation]

\* A quiet block turns a candidate into pre-roll, of which the last is kept.
Rolled(s) == SubSeq(s, IF Len(s) > PreRoll THEN Len(s) - PreRoll + 1 ELSE 1, Len(s))

PushClosed(s, b) ==
    IF b.speech THEN Opened(s, b)
                ELSE [Quiet EXCEPT !.preRoll = Rolled(s.preRoll \o s.candidate \o <<b>>)]

PushOpen(s, b) ==
    [s EXCEPT !.size = s.size + 1, !.from = s.from \cup {b.g},
              !.below = IF b.speech THEN 0 ELSE s.below + 1]

Push(s, b) == IF s.open THEN PushOpen(s, b) ELSE PushClosed(s, b)
Finished(s) == s.open /\ (s.size >= MaxOpen \/ s.below >= Hangover)

----------------------------------------------------------------------------
\* PortAudio's thread: the oldest block makes room for a new one.

Capture ==
    /\ vMain # "new" /\ closes = 0 /\ captured < MaxBlocks
    /\ captured' = captured + 1
    /\ \E speech \in BOOLEAN :
         LET b == [speech |-> speech, g |-> generation]
         IN  audio' = Append(IF Len(audio) < QueueBlocks THEN audio ELSE Tail(audio), b)
    /\ UNCHANGED <<vMain, generation, worker, block, blockGen, lastGen, openGen, gate, utterance,
                   capture, mine, theirs, closes, workerError, output, leftover>>

----------------------------------------------------------------------------
\* The command line and the rollout.

\* start(): the worker runs before the stream is started, which may fail.
VStart ==
    /\ vMain = "new" /\ capture' = TRUE /\ worker' = "get"
    /\ vMain' \in {"idle", "close"}
    /\ UNCHANGED <<generation, audio, captured, block, blockGen, lastGen, openGen, gate, utterance,
                   mine, theirs, closes, workerError, output, leftover>>

\* begin_trial(): the generation moves on under the lock, then the queue is drained.
BumpGeneration ==
    /\ vMain = "idle" /\ generation < VTrials
    /\ generation' = generation + 1 /\ output' = <<>> /\ vMain' = "draining"
    /\ leftover' = 0
    /\ UNCHANGED <<audio, captured, worker, block, blockGen, lastGen, openGen, gate, utterance,
                   capture, mine, theirs, closes, workerError>>

\* Wrong on purpose: begin_trial() trusts the generation and drains nothing
\* (breaks SpokenInThisTrial).
DrainNothing ==
    /\ vMain = "draining" /\ vMain' = "idle"
    /\ UNCHANGED <<generation, audio, captured, worker, block, blockGen, lastGen, openGen, gate,
                   utterance, capture, mine, theirs, closes, workerError, output, leftover>>

DrainAudio ==
    /\ vMain = "draining" /\ audio' = <<>> /\ vMain' = "idle"
    /\ UNCHANGED <<generation, captured, worker, block, blockGen, lastGen, openGen, gate,
                   utterance, capture, mine, theirs, closes, workerError, output, leftover>>

\* poll(): the worker's failure once, else what was accepted.
VPoll ==
    /\ vMain = "idle"
    /\ IF workerError THEN workerError' = FALSE /\ UNCHANGED output
                      ELSE output' = <<>> /\ UNCHANGED workerError
    /\ UNCHANGED <<vMain, generation, audio, captured, worker, block, blockGen, lastGen, openGen,
                   gate, utterance, capture, mine, theirs, closes, leftover>>

\* close() takes the capture without the lock, in two steps.
CloseReads ==
    /\ vMain \in {"idle", "close"} /\ mine' = capture /\ vMain' = "closing"
    /\ UNCHANGED <<generation, audio, captured, worker, block, blockGen, lastGen, openGen, gate,
                   utterance, capture, theirs, closes, workerError, output, leftover>>

CloseClears ==
    /\ vMain = "closing" /\ capture' = FALSE /\ vMain' = "stopping"
    /\ UNCHANGED <<generation, audio, captured, worker, block, blockGen, lastGen, openGen, gate,
                   utterance, mine, theirs, closes, workerError, output, leftover>>

CloseCapture ==
    /\ vMain = "stopping" /\ vMain' = "joining"
    /\ closes' = IF mine THEN closes + 1 ELSE closes
    /\ mine' = FALSE
    /\ UNCHANGED <<generation, audio, captured, worker, block, blockGen, lastGen, openGen, gate,
                   utterance, capture, theirs, workerError, output, leftover>>

CloseJoins ==
    /\ vMain = "joining" /\ worker = "off" /\ vMain' = "closed"
    /\ UNCHANGED <<generation, audio, captured, worker, block, blockGen, lastGen, openGen, gate,
                   utterance, capture, mine, theirs, closes, workerError, output, leftover>>

----------------------------------------------------------------------------
\* The worker. _stop is set from CloseCapture on.

Stopped == vMain \in {"stopping", "joining", "closed"}

WorkerStops ==
    /\ worker = "get" /\ Stopped /\ worker' = "off"
    /\ UNCHANGED <<vMain, generation, audio, captured, block, blockGen, lastGen, openGen, gate,
                   utterance, capture, mine, theirs, closes, workerError, output, leftover>>

\* The wait for a block may have begun before the stop.
WorkerGets ==
    /\ worker = "get" /\ audio # <<>>
    /\ block' = Head(audio) /\ audio' = Tail(audio) /\ worker' = "have"
    /\ UNCHANGED <<vMain, generation, captured, blockGen, lastGen, openGen, gate, utterance,
                   capture, mine, theirs, closes, workerError, output, leftover>>

\* _process_block reads the generation, and resets a segmenter of an earlier one.
WorkerReadsGeneration ==
    /\ worker = "have" /\ worker' = "push"
    /\ blockGen' = generation /\ lastGen' = generation
    /\ IF generation # lastGen THEN gate' = Quiet /\ openGen' = -1
                               ELSE UNCHANGED <<gate, openGen>>
    /\ UNCHANGED <<vMain, generation, audio, captured, block, utterance, capture, mine, theirs,
                   closes, workerError, output, leftover>>

WorkerPushes ==
    /\ worker = "push"
    /\ LET s == Push(gate, block)
           opened == IF ~gate.open /\ s.open THEN blockGen ELSE openGen
       IN  IF Finished(s)
             THEN /\ utterance' = [from |-> s.from, since |-> s.since] /\ gate' = Quiet
                  /\ worker' = "check" /\ openGen' = -1
                  /\ blockGen' = IF opened = -1 THEN blockGen ELSE opened
             ELSE /\ gate' = s /\ openGen' = opened /\ worker' = "get"
                  /\ UNCHANGED <<utterance, blockGen>>
    /\ block' = NoBlock
    /\ leftover' = IF vMain # "draining" /\ blockGen = generation /\ block.g # generation
                     THEN leftover + 1 ELSE leftover
    /\ UNCHANGED <<vMain, generation, audio, captured, lastGen, capture, mine, theirs, closes,
                   workerError, output>>

\* Not worth transcribing: the trial it was opened in is over.
WorkerChecks ==
    /\ worker = "check"
    /\ worker' = IF blockGen = generation THEN "transcribe" ELSE "get"
    /\ utterance' = IF blockGen = generation THEN utterance ELSE NoUtterance
    /\ UNCHANGED <<vMain, generation, audio, captured, block, blockGen, lastGen, openGen, gate,
                   capture, mine, theirs, closes, workerError, output, leftover>>

\* A transcript may be empty; it is accepted if its trial still runs.
Accept ==
    /\ worker = "transcribe" /\ worker' = "get" /\ utterance' = NoUtterance
    /\ output' \in {output, IF blockGen = generation THEN Append(output, utterance) ELSE output}
    /\ UNCHANGED <<vMain, generation, audio, captured, block, blockGen, lastGen, openGen, gate,
                   capture, mine, theirs, closes, workerError, leftover>>

\* The segmenter or the transcriber raises: the error is stored, then the
\* microphone is taken under the lock and closed.
WorkerFails ==
    /\ worker \in {"push", "transcribe"} /\ worker' = "failed"
    /\ workerError' = TRUE
    /\ UNCHANGED <<vMain, generation, audio, captured, block, blockGen, lastGen, openGen, gate,
                   utterance, capture, mine, theirs, closes, output, leftover>>

WorkerTakesCapture ==
    /\ worker = "failed" /\ worker' = "taken"
    /\ theirs' = capture /\ capture' = FALSE
    /\ UNCHANGED <<vMain, generation, audio, captured, block, blockGen, lastGen, openGen, gate,
                   utterance, mine, closes, workerError, output, leftover>>

\* Wrong on purpose: a worker that failed leaves the microphone to close()
\* (breaks MicrophoneReleased).
WorkerForgetsCapture ==
    /\ worker = "taken" /\ worker' = "off" /\ theirs' = FALSE
    /\ UNCHANGED <<vMain, generation, audio, captured, block, blockGen, lastGen, openGen, gate,
                   utterance, capture, mine, closes, workerError, output, leftover>>

WorkerClosesCapture ==
    /\ worker = "taken" /\ worker' = "off"
    /\ closes' = (IF theirs THEN closes + 1 ELSE closes) /\ theirs' = FALSE
    /\ UNCHANGED <<vMain, generation, audio, captured, block, blockGen, lastGen, openGen, gate,
                   utterance, capture, mine, workerError, output, leftover>>

VNext ==
    \/ Capture \/ VStart \/ BumpGeneration \/ DrainAudio \/ VPoll
    \/ CloseReads \/ CloseClears \/ CloseCapture \/ CloseJoins
    \/ WorkerStops \/ WorkerGets \/ WorkerReadsGeneration \/ WorkerPushes \/ WorkerChecks
    \/ Accept \/ WorkerFails \/ WorkerTakesCapture \/ WorkerClosesCapture
    \/ vMain = "closed" /\ UNCHANGED voiceVars

VoiceSpec == VInit /\ [][VNext]_voiceVars

----------------------------------------------------------------------------
\* Properties.

Blocks == [speech : BOOLEAN, g : 0..VTrials]

VoiceTypeOK ==
    /\ vMain \in {"new", "idle", "draining", "close", "closing", "stopping", "joining", "closed"}
    /\ generation \in 0..VTrials /\ captured \in 0..MaxBlocks
    /\ audio \in Seq(Blocks) /\ Len(audio) <= QueueBlocks
    /\ worker \in {"off", "get", "have", "push", "check", "transcribe", "failed", "taken"}
    /\ block \in Blocks /\ {blockGen, lastGen} \subseteq 0..VTrials
    /\ openGen \in -1..VTrials
    /\ gate.size <= MaxOpen /\ gate.below < Hangover /\ Len(gate.candidate) < MinOpen
    /\ {capture, mine, theirs, workerError} \subseteq BOOLEAN
    /\ closes \in 0..2 /\ leftover \in Nat

\* A poll returns an utterance only in the trial in which its gate opened, whatever
\* the worker was doing when the trial began, also in the middle of a transcription.
\* Its audio may be older, as NoStaleAudio below shows, but not by much: what waited
\* in the queue is gone once begin_trial() has returned, and after that one block at
\* most, the one in the worker's hands, gets into the new trial's segmenter.
SpokenInThisTrial ==
    /\ \A i \in DOMAIN output : output[i].since = generation
    /\ vMain # "draining" => \A i \in DOMAIN audio : audio[i].g = generation
    /\ leftover <= 1

\* When close() has returned the worker is gone and the microphone was closed,
\* by one or the other, also if the worker failed at the same moment.
MicrophoneReleased == vMain = "closed" => worker = "off" /\ closes >= 1 /\ ~capture

----------------------------------------------------------------------------
\* What a comment says and the code does not do.

\* "PortAudio cannot survive two threads closing one stream" (_input.py:176): the
\* microphone is closed once.
ClosedOnce == closes <= 1

\* Audio from before the reset "can never be prepended to the new trial's first
\* utterance" (_input.py:190).
NoStaleAudio == \A i \in DOMAIN output : output[i].from \subseteq {generation}
=============================================================================
