------------------------------- MODULE XPolicy -------------------------------
(***************************************************************************)
(* inspect-robots-xpolicylab: a policy behind an XPolicyLab server.  The   *)
(* client sends one request at a time and waits for the reply with its id; *)
(* a request that timed out leaves the connection open and its reply on    *)
(* the way, a lost connection is dropped and made again, with its hello,   *)
(* by the next call.                                                       *)
(***************************************************************************)
EXTENDS Integers, Sequences, FiniteSetsExt

CONSTANTS
    XConfigs,   \* configurations the constructor is given
    XTrials,    \* bound: resets of the run
    XRequests   \* bound: requests sent

\* The widths are integers, as the constructor declares them.
ASSUME XAssumption == /\ {XTrials, XRequests} \subseteq Nat
                      /\ \A c \in XConfigs : {c.armDim, c.eeDim} \subseteq Int

Kinds == {"hello", "reset", "infer", "trial_end", "close"}
\* REQUEST_RESPONSE_PAIRS: close has no reply.
Paired == Kinds \ {"close"}

----------------------------------------------------------------------------
\* The configuration. An action is a key per arm and part, and its width.

ValidX(c) ==
    /\ c.actionType \in {"joint", "ee"} /\ c.arms \in {1, 2}
    /\ c.armDim >= 1 /\ c.eeDim >= 0
    /\ (c.height = 0) = (c.width = 0)
    /\ c.keys # {} => c.dim > 0

\* Given with their common dimension, or derived: a key per arm and part.
ActionKeys(c) ==
    IF c.keys # {} THEN c.keys
    ELSE (1..c.arms) \X (IF c.eeDim > 0 THEN {"arm", "ee"} ELSE {"arm"})

PerArm(c) == (IF c.actionType = "joint" THEN c.armDim ELSE 7) + c.eeDim
ActionDim(c) == IF c.keys # {} THEN c.dim ELSE c.arms * PerArm(c)

\* _flatten_action: every declared key is there, and the widths add up. An empty
\* list of actions is refused as well.
Flattens(c, widths) ==
    /\ ActionKeys(c) \subseteq DOMAIN widths
    /\ MapThenSumSet(LAMBDA k : widths[k], ActionKeys(c)) = ActionDim(c)

\* An observation that has every camera the slots are mapped to.
Converts(c, seenCameras) == c.cameras \subseteq seenCameras

VARIABLES
    xConfig,     \* a configuration the constructor accepts
    operation,   \* reset, act or close in progress, or none
    at,          \* the request it is to send, or waits for: see Waiting
    waiting,     \* the request the call waits on: its frame, or NoFrame
    connection,  \* _ws: none, open, or lost without the client knowing
    requestIds,  \* requests sent
    inbox, outbox,          \* frames on their way to the server, and back
    openTrial, trialCount, inferStep, xClosed,  \* the policy's fields
    endingTrial, \* reset()'s open_trial
    delivered,      \* the ids of the last reply and of the request it was returned to
    served, ended,  \* trials the server has reset; trials it was told the end of
    chunk,       \* the widths of the last actions the policy took from a reply
    inferred     \* infers of the open trial that were answered

linkVars == <<connection, requestIds, inbox, outbox, served, ended>>
policyState == <<openTrial, endingTrial, trialCount, inferStep, xClosed, inferred>>
xVars == <<xConfig, chunk, operation, at, waiting, delivered, linkVars, policyState>>

NoFrame == [kind |-> "none", id |-> 0, trial |-> 0, step |-> 0]

XInit ==
    /\ xConfig \in {c \in XConfigs : ValidX(c)} /\ chunk = <<>>
    /\ operation = "none" /\ at = "idle" /\ waiting = NoFrame /\ delivered = [got |-> 0, asked |-> 0]
    /\ connection = "none" /\ requestIds = 0 /\ inbox = <<>> /\ outbox = <<>>
    /\ served = {} /\ ended = {}
    /\ openTrial = 0 /\ endingTrial = 0 /\ trialCount = 0 /\ inferStep = 0 /\ xClosed = FALSE /\ inferred = 0

----------------------------------------------------------------------------
\* The server. It answers in order, or with an error, or not at all; it can lose
\* the connection, and send what the client cannot read.

Serve ==
    /\ inbox # <<>> /\ connection = "open" /\ inbox' = Tail(inbox)
    /\ LET f == Head(inbox)
       IN  \E kind \in {f.kind, "error", "other", "nothing"} :
             /\ outbox' = IF kind = "nothing" THEN outbox ELSE Append(outbox, [f EXCEPT !.kind = kind])
             /\ served' = IF kind = "reset" THEN served \cup {f.trial} ELSE served
    /\ UNCHANGED <<xConfig, chunk, operation, at, waiting, delivered, connection, requestIds, ended, policyState>>

ConnectionDrops ==
    /\ connection = "open" /\ connection' = "lost" /\ inbox' = <<>>
    /\ UNCHANGED <<xConfig, chunk, operation, at, waiting, delivered, requestIds, outbox, served, ended,
                   policyState>>

----------------------------------------------------------------------------
\* The client: one request and its reply.

Next1(pc) == at' = pc
RaiseX == operation' = "none" /\ at' = "idle" /\ waiting' = NoFrame

\* connect(): every attempt may fail; the hello follows, on a socket that is
\* kept whatever becomes of it.
ConnectX ==
    /\ at = "connect" /\ connection = "none"
    /\ \/ /\ connection' = "open" /\ inbox' = <<>> /\ outbox' = <<>>
          /\ Next1("hello") /\ UNCHANGED operation
       \/ operation' = "none" /\ Next1("idle") /\ UNCHANGED <<xConfig, chunk, connection, inbox, outbox>>
    /\ UNCHANGED <<xConfig, chunk, waiting, delivered, requestIds, served, ended, policyState>>

\* request(): the frame is sent and its reply waited for.
Send ==
    /\ at \in Paired /\ waiting = NoFrame /\ connection = "open" /\ requestIds < XRequests
    /\ requestIds' = requestIds + 1
    /\ waiting' = [kind |-> at, id |-> requestIds + 1,
                   trial |-> CASE at = "reset" -> trialCount
                               [] at = "trial_end" /\ operation = "reset" -> endingTrial
                               [] OTHER -> openTrial,
                   step |-> inferStep]
    /\ inbox' = Append(inbox, waiting')
    /\ ended' = IF at = "trial_end" THEN ended \cup {waiting'.trial} ELSE ended
    /\ UNCHANGED <<xConfig, chunk, operation, at, delivered, connection, outbox, served, policyState>>

\* Wrong on purpose: the next frame of the right kind is the reply (breaks
\* ReplyIsItsOwn).
MatchesKind(f) == f.kind \in {waiting.kind, "error"}

Matches(f) == f.id = waiting.id

\* A frame with another id, of an abandoned request, is dropped.
SkipFrame ==
    /\ waiting # NoFrame /\ outbox # <<>> /\ ~Matches(Head(outbox)) /\ outbox' = Tail(outbox)
    /\ UNCHANGED <<xConfig, chunk, operation, at, waiting, delivered, connection, requestIds, inbox, served,
                   ended, policyState>>

\* The actions of an infer reply: as declared, a part missing, a part too wide.
Layout(c) == [k \in ActionKeys(c) |-> IF k[2] = "ee" THEN c.eeDim
                                      ELSE IF c.actionType = "joint" THEN c.armDim ELSE 7]
ServerReplies(c) == {Layout(c)} \cup {[Layout(c) EXCEPT ![k] = @ + 1] : k \in ActionKeys(c)}
                          \cup {[j \in ActionKeys(c) \ {k} |-> 1] : k \in ActionKeys(c)}
Accepted(c, widths) == IF Flattens(c, widths) THEN widths ELSE <<>>

\* What follows the reply. The step counter counts answered infers, also those
\* whose actions are then refused.
Then ==
    CASE at = "hello" -> Next1(IF operation = "act" THEN "infer"
                               ELSE IF openTrial # 0 THEN "end" ELSE "begin")
                         /\ UNCHANGED <<operation, policyState>>
      [] at = "trial_end" /\ operation = "reset" -> Next1("begin") /\ UNCHANGED <<operation, policyState>>
      [] at = "trial_end" /\ operation = "close" -> Next1("close") /\ UNCHANGED <<operation, policyState>>
      [] at = "reset" -> /\ openTrial' = trialCount /\ inferred' = 0
                         /\ operation' = "none" /\ Next1("idle")
                         /\ UNCHANGED <<endingTrial, trialCount, inferStep, xClosed>>
      [] at = "infer" -> /\ inferStep' = inferStep + 1 /\ inferred' = inferred + 1
                         /\ operation' = "none" /\ Next1("idle")
                         /\ UNCHANGED <<openTrial, endingTrial, trialCount, xClosed>>

ServerReply ==
    /\ waiting # NoFrame /\ outbox # <<>> /\ Matches(Head(outbox)) /\ Head(outbox).kind = waiting.kind
    /\ outbox' = Tail(outbox) /\ waiting' = NoFrame
    /\ delivered' = [got |-> Head(outbox).id, asked |-> waiting.id]
    /\ Then
    /\ IF at = "infer" THEN \E widths \in ServerReplies(xConfig) : chunk' = Accepted(xConfig, widths)
                       ELSE UNCHANGED chunk
    /\ UNCHANGED <<xConfig, connection, requestIds, inbox, served, ended>>

\* An error frame, a reply of another kind, or the timeout: WsError, and the
\* connection stays. close() goes on without the trial_end it could not send.
Suppressed == operation = "close"
WsErrors ==
    /\ waiting # NoFrame
    /\ \/ outbox = <<>> /\ UNCHANGED outbox
       \/ /\ outbox # <<>> /\ Matches(Head(outbox)) /\ Head(outbox).kind # waiting.kind
          /\ outbox' = Tail(outbox)
    /\ IF Suppressed THEN Next1("close") /\ waiting' = NoFrame /\ UNCHANGED operation ELSE RaiseX
    /\ UNCHANGED <<xConfig, chunk, delivered, connection, requestIds, inbox, served, ended, policyState>>

\* _abandon(), on a send or a receive.
ConnectionErrors ==
    /\ at \in Paired /\ connection = "lost" /\ outbox' = <<>>
    /\ connection' = "none"
    /\ IF Suppressed THEN Next1("close") /\ waiting' = NoFrame /\ UNCHANGED operation ELSE RaiseX
    /\ UNCHANGED <<xConfig, chunk, delivered, requestIds, inbox, served, ended, policyState>>

----------------------------------------------------------------------------
\* The policy.

Connected(pc) == IF connection = "none" THEN "connect" ELSE pc

BeginReset ==
    /\ operation = "none" /\ ~xClosed /\ trialCount < XTrials
    /\ operation' = "reset" /\ Next1(Connected(IF openTrial # 0 THEN "end" ELSE "begin"))
    /\ UNCHANGED <<xConfig, chunk, waiting, delivered, linkVars, policyState>>

\* Wrong on purpose: a failed trial_end leaves the trial open (breaks InferWithinTrial).
EndOpenTrialLate ==
    /\ at = "end" /\ Next1("trial_end") /\ endingTrial' = openTrial
    /\ UNCHANGED <<xConfig, chunk, operation, waiting, delivered, linkVars, openTrial, trialCount, inferStep, xClosed,
                   inferred>>

\* The open trial is forgotten before the server is told.
EndOpenTrial ==
    /\ at = "end" /\ Next1("trial_end") /\ endingTrial' = openTrial /\ openTrial' = 0
    /\ UNCHANGED <<xConfig, chunk, operation, waiting, delivered, linkVars, trialCount, inferStep, xClosed, inferred>>

BeginTrialX ==
    /\ at = "begin" /\ Next1("reset") /\ trialCount' = trialCount + 1 /\ inferStep' = 0
    /\ UNCHANGED <<xConfig, chunk, operation, waiting, delivered, linkVars, openTrial, endingTrial, xClosed, inferred>>

\* act() outside a trial raises, and changes nothing.
BeginAct ==
    /\ operation = "none" /\ ~xClosed /\ openTrial # 0
    /\ operation' = "act" /\ Next1(Connected("infer"))
    /\ UNCHANGED <<xConfig, chunk, waiting, delivered, linkVars, policyState>>

\* An observation without a mapped camera: after the connection, before the infer.
ConversionFails ==
    /\ at = "infer" /\ waiting = NoFrame
    /\ \E images \in SUBSET {"head", "wrist"} : ~Converts(xConfig, images)
    /\ RaiseX
    /\ UNCHANGED <<xConfig, chunk, delivered, linkVars, policyState>>

BeginClose ==
    /\ operation = "none" /\ ~xClosed /\ xClosed' = TRUE /\ operation' = "close"
    /\ Next1(IF connection # "none" /\ openTrial # 0 THEN "trial_end" ELSE "close")
    /\ UNCHANGED <<xConfig, chunk, waiting, delivered, linkVars, openTrial, endingTrial, trialCount, inferStep,
                   inferred>>

\* The goodbye has no reply, and its failure is ignored.
CloseSocket ==
    /\ at = "close" /\ operation' = "none" /\ Next1("idle")
    /\ openTrial' = 0 /\ connection' = "none" /\ inbox' = <<>> /\ outbox' = <<>>
    /\ UNCHANGED <<xConfig, chunk, waiting, delivered, requestIds, served, ended, endingTrial, trialCount,
                   inferStep, xClosed, inferred>>

XNext ==
    \/ Serve \/ ConnectionDrops
    \/ ConnectX \/ Send \/ SkipFrame \/ ServerReply \/ WsErrors \/ ConnectionErrors
    \/ BeginReset \/ EndOpenTrial \/ BeginTrialX \/ BeginAct \/ ConversionFails \/ BeginClose \/ CloseSocket
    \/ (xClosed \/ requestIds = XRequests) /\ UNCHANGED xVars

XSpec == XInit /\ [][XNext]_xVars

----------------------------------------------------------------------------
\* Properties.

XTypeOK ==
    /\ operation \in {"none", "reset", "act", "close"}
    /\ at \in Kinds \cup {"idle", "connect", "end", "begin"}
    /\ connection \in {"none", "open", "lost"} /\ xClosed \in BOOLEAN
    /\ {requestIds, waiting.id, delivered.got, delivered.asked} \subseteq 0..XRequests
    /\ {openTrial, endingTrial, trialCount} \subseteq 0..XTrials /\ served \subseteq 0..XTrials
    /\ ended \subseteq 0..XTrials
    /\ {inferStep, inferred} \subseteq 0..XRequests

\* A call returns the server's reply to itself, although replies to calls that
\* timed out may still be on the way.
ReplyIsItsOwn == delivered.got = delivered.asked

\* An infer names the newest trial the server has begun, never one whose end was
\* reported, and its step counts the infers of that trial that were answered,
\* also across reconnections and failed resets.
InferWithinTrial ==
    waiting.kind = "infer" =>
        /\ waiting.trial \in served \ ended
        /\ waiting.trial = trialCount
        /\ waiting.step = inferred

\* The actions the policy hands to the rollout have the layout and the width its
\* action space declares, and a server that keeps to the layout is not refused.
ChunkIsDeclared ==
    /\ chunk # <<>> => MapThenSumSet(LAMBDA k : chunk[k], ActionKeys(xConfig)) = ActionDim(xConfig)
    /\ xConfig.keys = {} => Flattens(xConfig, Layout(xConfig))

\* A closed policy holds no connection.
XReleased == xClosed /\ operation = "none" => connection = "none"
=============================================================================
