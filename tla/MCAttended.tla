----------------------------- MODULE MCAttended -----------------------------
(***************************************************************************)
(* What stands around an attended run: the operator's terminal, the        *)
(* microphone, the speaker, the Rerun window and the report's viewer.      *)
(* They share no state, so a behaviour is one of one subject, and the      *)
(* others stay as they began.                                              *)
(***************************************************************************)
EXTENDS OperatorSession, VoiceInput, Speaker, RerunSink, ReportView

VARIABLE subject

attendedVars == <<subject, sessionVars, voiceVars, speakerVars, rerunVars, reportVars>>

AInit ==
    /\ subject \in {"terminal", "microphone", "speaker", "rerun", "view"}
    /\ SInit /\ VInit /\ RInit0 /\ ReportInit
    /\ SpInit /\ (subject # "speaker" => mode = "queue")

ANext ==
    \/ subject = "terminal" /\ SNext
       /\ UNCHANGED <<subject, voiceVars, speakerVars, rerunVars, reportVars>>
    \/ subject = "microphone" /\ VNext
       /\ UNCHANGED <<subject, sessionVars, speakerVars, rerunVars, reportVars>>
    \/ subject = "speaker" /\ SpNext
       /\ UNCHANGED <<subject, sessionVars, voiceVars, rerunVars, reportVars>>
    \/ subject = "rerun" /\ RerunNext
       /\ UNCHANGED <<subject, sessionVars, voiceVars, speakerVars, reportVars>>
    \/ subject = "view" /\ ReportNext
       /\ UNCHANGED <<subject, sessionVars, voiceVars, speakerVars, rerunVars>>

ASpec == AInit /\ [][ANext]_attendedVars

AttendedTypeOK ==
    /\ subject = "terminal" => SessionTypeOK
    /\ subject = "microphone" => VoiceTypeOK
    /\ subject = "speaker" => SpeakerTypeOK
    /\ subject = "rerun" => RerunTypeOK
    /\ subject = "view" => ReportTypeOK

\* Nothing typed in one trial reaches the policy in another, an utterance is heard
\* only in the trial in which its gate opened, no more than one block of an earlier
\* trial enters the segmenter once begin_trial() has returned, and no byte is read by
\* two readers: session.py's drains, the voice generations, the pump's join.
OnlyThisTrial == HeardInThisTrial /\ SpokenInThisTrial /\ PromptReadsAlone

\* A device that was opened is closed, whoever of the threads gets there, unless
\* close() stopped waiting for a worker that opened it again, and a cancelled note is
\* silent within a chunk: VoiceInput.close(), SpeakerSink.close().
DevicesReleased ==
    /\ MicrophoneReleased /\ SpeakerReleased
    /\ CancelledWithinAChunk /\ BlockingKeepsUp

\* The Rerun window and the rendered pages show what was logged: every snapshot is
\* shown, still queued, counted as dropped or one whose emit failed, in order and by
\* one worker; and a page that passes for fresh is one of the log on disk, also while
\* runs write.
ShownAsRecorded ==
    /\ Accounted /\ RecordedInOrder /\ OneStraggler
    /\ NoStalePage /\ PassIsComplete /\ ServingUnwinds
=============================================================================
