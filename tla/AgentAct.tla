---- MODULE AgentAct ----
(* The act loop of the language-model policy: one observation message, then  *)
(* model turns until a tool call yields a chunk.  Which camera frames the    *)
(* model has been shown, which the image horizon has evicted since, what the *)
(* next observation owes it, and the counters that end a loop that goes      *)
(* nowhere.  What a tool call does to the robot is in ControlTools, how a    *)
(* request reaches the provider in AgentWire.                                *)
(*                                                                           *)
(* A model turn is a sequence of calls [tool, cams]; "move", "sleep" and     *)
(* "stop" yield chunks, "note" yields none, "bad" is refused, and "pic" asks *)
(* for cams ({}: the argument is absent).                                    *)
EXTENDS Integers, Sequences

CONSTANTS
  ActConfigs,  \* policies bound: [onDemand, horizon (0: None)]
  Cameras,     \* cameras of the embodiment
  Turns,       \* the turns a model may answer with
  MaxLLMCalls, \* max_llm_calls
  ActTrials    \* bound: trials

(* An answer is a sequence of tool calls, and the calls are numbered.       *)
ASSUME ActAssumption ==
  /\ MaxLLMCalls \in Nat /\ \A c \in ActConfigs : c.onDemand \in BOOLEAN /\ c.horizon \in Nat
  /\ \A answer \in Turns : DOMAIN answer = 1..Len(answer) /\ Len(answer) \in Nat

VARIABLES
  acfg,       \* the policy
  apc,        \* "unbound", "bound", "between", "idle" (the chunk plays), "ask", "ended", "raised"
  atrial,     \* trials begun
  looks,      \* observations of the trial
  present,    \* cameras in the current observation
  frames,     \* the image-bearing messages of _messages: [look, cams]
  revealed,   \* _revealed
  requested,    \* _pending
  owed,       \* _pending_motion or _pending_sleep, with the trial that issued it
  told,       \* what the current observation narrated
  calls,      \* _calls_used
  failures,   \* failures of this act
  rejections, \* rejections of this act
  already     \* cameras the last turn was told are already shown

actVars == <<acfg, apc, atrial, looks, present, frames, revealed, requested, owed, told, calls,
             failures, rejections, already>>

NoCapture == {"no capture"}
Nothing == [kind |-> "none", trial |-> 0]
MaxConsecutiveFailures == 3

ActInit ==
  /\ acfg \in ActConfigs /\ apc = "unbound" /\ atrial = 0 /\ looks = 0
  /\ present = {} /\ frames = <<>> /\ revealed = {} /\ requested = NoCapture
  /\ owed = Nothing /\ told = Nothing
  /\ calls = 0 /\ failures = 0 /\ rejections = 0 /\ already = {}

(* bind: the adapter's tools are built from the spaces, or refused; then    *)
(* the tools the embodiment contributes, unless a name clashes.             *)
BindPolicy ==
  /\ apc = "unbound" /\ apc' \in {"bound", "raised"}
  /\ UNCHANGED <<acfg, atrial, looks, present, frames, revealed, requested, owed, told, calls,
                 failures, rejections, already>>

AddTools ==
  /\ apc = "bound" /\ apc' \in {"between", "raised"}
  /\ UNCHANGED <<acfg, atrial, looks, present, frames, revealed, requested, owed, told, calls,
                 failures, rejections, already>>

(* A mutant: the capture and the motion of the last trial stay owed.        *)
ResetKeepsDebts ==
  /\ apc = "between" /\ atrial < ActTrials
  /\ apc' = "idle" /\ atrial' = atrial + 1 /\ looks' = 0
  /\ frames' = <<>> /\ calls' = 0 /\ revealed' = {} /\ already' = {}
  /\ UNCHANGED <<acfg, present, requested, owed, told, failures, rejections>>

(* reset: a fresh conversation. *)
ResetPolicy ==
  /\ apc = "between" /\ atrial < ActTrials
  /\ apc' = "idle" /\ atrial' = atrial + 1 /\ looks' = 0
  /\ frames' = <<>> /\ calls' = 0 /\ revealed' = {} /\ already' = {}
  /\ requested' = NoCapture /\ owed' = Nothing
  /\ UNCHANGED <<acfg, present, told, failures, rejections>>

(* on_trial_end; the rollout may stop at any observation.                   *)
EndDialogue ==
  /\ apc \in {"idle", "ended", "raised"} /\ atrial > 0
  /\ apc' = "between" /\ already' = {}
  /\ UNCHANGED <<acfg, atrial, looks, present, frames, revealed, requested, owed, told, calls,
                 failures, rejections>>

-----------------------------------------------------------------------------
(* act, up to the first request. *)

(* The cameras a queued capture asks of the observation it rides to.        *)
Requested(cams) == IF cams = {} THEN present' ELSE cams

Revealing == IF ~acfg.onDemand THEN present'
             ELSE IF requested = NoCapture THEN {} ELSE Requested(requested) \cap present'

WithImages(history, cams) == IF cams = {} THEN history ELSE Append(history, [look |-> looks', cams |-> cams])

Observe(cams) ==
  /\ apc = "idle" /\ apc' = "ask"
  /\ present' = cams /\ looks' = looks + 1
  /\ told' = owed /\ owed' = Nothing
  /\ requested' = NoCapture
  /\ revealed' = IF acfg.onDemand THEN Revealing ELSE {}
  /\ frames' = WithImages(frames, Revealing)
  /\ failures' = 0 /\ rejections' = 0 /\ already' = {}
  /\ UNCHANGED <<acfg, atrial, calls>>

-----------------------------------------------------------------------------
(* One model turn. *)

(* _evicted_view: the image messages the request still carries.             *)
View == IF acfg.horizon = 0 \/ Len(frames) <= acfg.horizon THEN frames
        ELSE SubSeq(frames, Len(frames) - acfg.horizon + 1, Len(frames))
InView == UNION {View[k].cams : k \in DOMAIN View}

(* A mutant: what was revealed is never evicted.                            *)
SeenEver(shown) == shown

Seen(shown) == IF acfg.horizon = 0 THEN shown ELSE shown \cap InView

(* The turn so far: [closed, chunk, failures, rejections, queued, revealed, *)
(* shown (frames to send now), already].                                    *)
Opening == [closed |-> FALSE, chunk |-> "none", failures |-> failures, rejections |-> rejections,
            queued |-> NoCapture, revealed |-> revealed, shown |-> {}, already |-> {}]

Failed(turn) == [turn EXCEPT !.closed = TRUE, !.failures = @ + 1]

(* The first fruitless capture of an act is free. *)
Rejected(turn) == [turn EXCEPT !.closed = TRUE, !.rejections = @ + 1,
                               !.failures = IF turn.rejections >= 1 THEN @ + 1 ELSE @]

CaptureFails(cams) == present # {} /\ ~(cams \subseteq present)

Capture(turn, cams) ==
  LET asked == IF cams = {} THEN present ELSE cams
      seen == Seen(turn.revealed)
      fresh == asked \ seen
      looked == [turn EXCEPT !.revealed = seen \cup fresh, !.already = asked \cap seen]
  IN IF CaptureFails(cams) THEN Failed(turn)
     ELSE IF present = {} THEN Rejected(turn)
     ELSE IF fresh = {} THEN Rejected(looked)
     ELSE [looked EXCEPT !.closed = TRUE, !.shown = fresh, !.failures = 0]

QueueCapture(turn, cams) ==
  IF present = {} \/ CaptureFails(cams) THEN turn ELSE [turn EXCEPT !.queued = cams]

Act(turn, call) ==
  LET isCapture == acfg.onDemand /\ call.tool = "pic"
  IN IF ~turn.closed
     THEN IF isCapture THEN Capture(turn, call.cams)
          ELSE IF call.tool \in {"bad", "pic"} THEN Failed(turn)
          ELSE IF call.tool = "note" THEN turn
          ELSE [turn EXCEPT !.closed = TRUE, !.chunk = call.tool]
     ELSE IF isCapture /\ turn.chunk \in {"move", "sleep"} /\ turn.queued = NoCapture
          THEN QueueCapture(turn, call.cams)
          ELSE turn

(* An answer without tool calls is a failure and a nudge.                   *)
Performed(answer) ==
  LET after[n \in 0..Len(answer)] == IF n = 0 THEN Opening ELSE Act(after[n - 1], answer[n])
  IN after[Len(answer)]

Outcome(answer) == IF answer = <<>> THEN [Opening EXCEPT !.failures = @ + 1] ELSE Performed(answer)

Turn(answer) ==
  /\ apc = "ask" /\ calls < MaxLLMCalls
  /\ calls' = calls + 1
  /\ LET turn == Outcome(answer)
     IN /\ failures' = turn.failures /\ rejections' = turn.rejections
        /\ requested' = turn.queued /\ revealed' = turn.revealed /\ already' = turn.already
        /\ looks' = looks /\ frames' = WithImages(frames, turn.shown)
        /\ \/ /\ turn.chunk \in {"move", "sleep"}
              /\ owed' = [kind |-> turn.chunk, trial |-> atrial] /\ apc' = "idle"
           \/ /\ turn.chunk = "stop" /\ apc' = "ended" /\ UNCHANGED owed
           \/ /\ turn.chunk = "none" /\ UNCHANGED owed
              /\ apc' = IF turn.failures >= MaxConsecutiveFailures THEN "raised" ELSE "ask"
  /\ UNCHANGED <<acfg, atrial, present, told>>

(* Out of calls, or a reply the provider filtered: give up for the model.   *)
GiveUp ==
  /\ apc = "ask" /\ apc' = "ended" /\ already' = {}
  /\ \/ calls >= MaxLLMCalls /\ calls' = calls
     \/ calls < MaxLLMCalls /\ calls' = calls + 1
  /\ UNCHANGED <<acfg, atrial, looks, present, frames, revealed, requested, owed, told, failures,
                 rejections>>

(* Any other error of the request fails the trial. *)
RequestFails ==
  /\ apc = "ask" /\ calls < MaxLLMCalls /\ apc' = "raised" /\ already' = {}
  /\ UNCHANGED <<acfg, atrial, looks, present, frames, revealed, requested, owed, told, calls,
                 failures, rejections>>

ActNext ==
  \/ BindPolicy \/ AddTools \/ ResetPolicy \/ EndDialogue \/ GiveUp \/ RequestFails
  \/ \E cams \in SUBSET Cameras : Observe(cams)
  \/ \E answer \in Turns : Turn(answer)

ActSpec == ActInit /\ [][ActNext]_actVars

-----------------------------------------------------------------------------
ActTypeOK ==
  /\ apc \in {"unbound", "bound", "between", "idle", "ask", "ended", "raised"}
  /\ revealed \subseteq Cameras /\ already \subseteq Cameras
  /\ calls \in 0..MaxLLMCalls
  /\ apc = "ask" => failures < MaxConsecutiveFailures

(* Every motion and every sleep is narrated by the observation that follows *)
(* it and by no other; the first observation of a trial narrates nothing    *)
(* and carries no frame that was queued in the trial before it, however     *)
(* that trial ended.                                                        *)
NarratesOwnTrial ==
  apc = "ask" =>
    IF looks = 1
    THEN told = Nothing /\ (acfg.onDemand /\ calls = 0 => frames = <<>>)
    ELSE told.kind # "none" /\ told.trial = atrial

(* A capture is refused as already shown only while the request the model   *)
(* answered still carried that camera's frame of this same observation: the *)
(* image horizon never leaves the model without a frame it may not ask for. *)
RefusedIsVisible ==
  [][already' # {} =>
       already' \subseteq UNION {View[k].cams : k \in {j \in DOMAIN View : View[j].look = looks}}]_actVars
====
