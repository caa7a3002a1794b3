---- MODULE AgentWire ----
(* The provider clients of the agent policy: the three stateless HTTP wires  *)
(* (chat, responses, messages), the Gemini Live socket and the Interactions  *)
(* chain, with their retries, their recovery after a lost session, and the   *)
(* capture of every attempt.                                                 *)
(*                                                                           *)
(* The policy owns the conversation; a client tells the model what it has    *)
(* not been told yet.  A message is its identity, its role and the tool      *)
(* calls it makes or answers; what it says is left out.  What a model was    *)
(* told is a bag of identities: a message may be told twice or not at all,   *)
(* in what order is not told apart.  The provider is external: a session     *)
(* answers from what it was told, may vanish at any time, and may accept     *)
(* work it is slow to finish.                                                *)
EXTENDS Integers, Sequences, FiniteSets, Bags

CONSTANTS
  Wires,      \* the wires explored, of the five names below
  MaxRetries, \* attempts of one complete(): max_retries
  WTrials,    \* bound: trials
  WReplies,   \* bound: replies in one trial
  WCalls,     \* bound: tool calls in one reply
  WPolls      \* bound: polls of one accepted interaction

(* The policy's constructor refuses fewer retries than one. *)
ASSUME WireAssumption == MaxRetries \in Nat \ {0} /\ {WTrials, WReplies, WCalls, WPolls} \subseteq Nat

VARIABLES
  wire,     \* the client of the policy
  wtrial,   \* trials begun
  history,  \* _messages: the policy's append-only conversation
  wpc,      \* where complete() stands
  wattempt, \* attempt of complete()
  session,  \* the Live socket and what it was told
  chain,    \* _last_interaction_id and what that interaction was told
  streamed, \* _streamed: identities of the messages already sent
  repair,   \* _needs_recovery or _needs_fold
  goAway,   \* _go_away
  named,    \* _call_names: tool calls whose function name is recorded
  replay,   \* tool calls whose raw output items are kept for replay
  answer,   \* what the model that answered last had been told
  heard,    \* attempts of this complete() whose interaction was accepted, as its reply said
  unheard,  \* attempts that were accepted too, by a reply lost or unreadable
  polls,    \* polls of the accepted interaction
  capture   \* WireCapture: sink, call counter and the rows written

wireVars == <<wire, wtrial, history, wpc, wattempt, session, chain, streamed, repair, goAway,
              named, replay, answer, heard, unheard, polls, capture>>

postVars == <<heard, unheard, polls>>

-----------------------------------------------------------------------------
(* The conversation. *)

Message(role, calls, result, i) == [id |-> <<wtrial, i>>, role |-> role, calls |-> calls, result |-> result]

Ids(messages) == [i \in DOMAIN messages |-> messages[i].id]
Elements(s) == {s[i] : i \in DOMAIN s}
\* One copy of each message but the instructions, or of each that the policy appended.
Told(messages) == SetToBag({m.id : m \in {x \in Elements(messages) : x.role # "system"}})
Said(messages) == SetToBag({m.id : m \in {x \in Elements(messages) : x.role \in {"user", "tool"}}})

HistoryCalls == UNION {m.calls : m \in Elements(history)} \cup {m.result : m \in Elements(history)}

Unsent == SubSeq(history, Len(streamed) + 1, Len(history))

(* Reply number n of the trial with k tool calls, as the policy appends it. *)
Reply(k) == Message("assistant", {<<wtrial, Len(history) + 1, c>> : c \in 1..k}, <<>>, Len(history) + 1)

Replies == Cardinality({i \in DOMAIN history : history[i].role = "assistant"})

-----------------------------------------------------------------------------
(* WireCapture: one row per attempt.  "of" is which complete() made it. *)

Closed == [sink |-> "closed", call |-> -1, rows |-> <<>>]

(* begin_trial; a failure leaves the trial without capture. *)
BeginCapture == \E sink \in {"open", "dead"} : capture' = [Closed EXCEPT !.sink = sink]

Recorded(attempt) ==
  LET n == IF attempt = 0 THEN capture.call + 1 ELSE capture.call
      row == [call |-> n, attempt |-> attempt, of |-> Replies]
  IN IF capture.sink # "open" THEN {capture}
     ELSE {[capture EXCEPT !.call = n, !.rows = Append(@, row)],
           [capture EXCEPT !.call = n, !.sink = "dead"]}

Record == capture' \in Recorded(wattempt)

(* record_interaction: the checkpoint row precedes the attempt's own row. *)
CheckpointCall == IF wattempt = 0 THEN capture.call + 1 ELSE capture.call

EndCapture == capture' = [capture EXCEPT !.sink = "closed"]

-----------------------------------------------------------------------------
NoSession == [open |-> FALSE, told |-> EmptyBag]
NoChain == [known |-> FALSE, told |-> EmptyBag]

WInit ==
  /\ wire \in Wires
  /\ wtrial = 0 /\ history = <<>> /\ wpc = "between" /\ wattempt = 0
  /\ session = NoSession /\ chain = NoChain /\ streamed = <<>>
  /\ repair = FALSE /\ goAway = FALSE /\ named = {} /\ replay = {}
  /\ answer = EmptyBag /\ heard = {} /\ unheard = {} /\ polls = 0 /\ capture = Closed

clientVars == <<session, chain, streamed, repair, goAway, named, replay>>

(* on_trial_start and reset, then the first observation of the trial. *)
StartConversation ==
  /\ wpc = "between" /\ wtrial < WTrials
  /\ wtrial' = wtrial + 1
  /\ history' = [i \in 1..3 |-> [id |-> <<wtrial + 1, i>>, role |-> IF i = 1 THEN "system" ELSE "user",
                                 calls |-> {}, result |-> <<>>]]
  /\ wpc' = "ask"
  /\ BeginCapture
  /\ UNCHANGED <<wire, wattempt, clientVars, answer, postVars>>

(* on_trial_end: only the Live client holds a connection to drop. *)
EndConversation ==
  /\ wpc \in {"answered", "failed"}
  /\ wpc' = "between"
  /\ IF wire = "gemini-live"
     THEN /\ session' = NoSession /\ repair' = (streamed # <<>>) /\ goAway' = FALSE
          /\ UNCHANGED <<chain, streamed, named, replay>>
     ELSE UNCHANGED clientVars
  /\ EndCapture
  /\ UNCHANGED <<wire, wtrial, history, wattempt, answer, postVars>>

(* act() answers every tool call of the reply, in order, then may add the   *)
(* frames or the next observation; a reply without calls gets a nudge.      *)
ContinueConversation ==
  /\ wpc = "answered" /\ Replies < WReplies
  /\ LET asked == history[Len(history)].calls
         n == Len(history)
         results == [c \in 1..Cardinality(asked) |-> Message("tool", {}, <<wtrial, n, c>>, n + c)]
         m == n + Len(results)
     IN \E more \in IF asked = {} THEN {TRUE} ELSE BOOLEAN :
          history' = history \o results \o
                     (IF more THEN <<Message("user", {}, <<>>, m + 1)>> ELSE <<>>)
  /\ wpc' = "ask"
  /\ UNCHANGED <<wire, wtrial, wattempt, clientVars, answer, postVars, capture>>

-----------------------------------------------------------------------------
(* complete(): what every wire shares. *)

Stateless == {"chat", "responses", "messages"}

(* _check_identity_prefix *)
PrefixMatches ==
  /\ Len(history) >= Len(streamed)
  /\ \A i \in DOMAIN streamed : history[i].id = streamed[i]
Rewritten == ~PrefixMatches /\ streamed # <<>> /\ history[1].id = streamed[1]

(* A prefix that does not match is another trial's: everything is forgotten. *)
ForgetTrial ==
  /\ session' = NoSession /\ chain' = NoChain /\ streamed' = <<>>
  /\ repair' = FALSE /\ goAway' = FALSE /\ named' = {}

(* A goAway announced earlier costs the socket before anything is sent. *)
LeaveGoneSession ==
  IF goAway THEN /\ session' = NoSession /\ repair' = (streamed # <<>>) /\ goAway' = FALSE
            ELSE UNCHANGED <<session, repair, goAway>>

(* Raw items of turns that left the history are dropped before the request. *)
PruneReplay == replay \cap HistoryCalls

Ask ==
  /\ wpc = "ask"
  /\ wattempt' = 0 /\ heard' = {} /\ unheard' = {}
  /\ wpc' = IF wire \notin Stateless /\ Rewritten THEN "failed" ELSE "send"
  /\ IF wire \in Stateless
     THEN replay' = PruneReplay
          /\ UNCHANGED <<session, chain, streamed, repair, goAway, named>>
     ELSE /\ IF PrefixMatches \/ Rewritten
             THEN LeaveGoneSession /\ UNCHANGED <<chain, streamed, named>>
             ELSE ForgetTrial
          /\ UNCHANGED replay
  /\ UNCHANGED <<wire, wtrial, history, answer, polls, capture>>

(* A mutant: one attempt too many. *)
TryOnceMore == IF wattempt < MaxRetries
               THEN wpc' = "send" /\ wattempt' = wattempt + 1
               ELSE wpc' = "failed" /\ UNCHANGED wattempt

(* The attempt failed in a way the client retries, if attempts are left. *)
TryAgain == IF wattempt + 1 < MaxRetries
            THEN wpc' = "send" /\ wattempt' = wattempt + 1
            ELSE wpc' = "failed" /\ UNCHANGED wattempt

(* A reply of k calls, generated from "context", is handed to the policy. *)
Answered(k, context) ==
  /\ history' = Append(history, Reply(k))
  /\ answer' = context
  /\ wpc' = "answered"
  /\ UNCHANGED wattempt

-----------------------------------------------------------------------------
(* Stateless wires: every request carries the whole translated history.  A  *)
(* turn that called tools is replayed from its raw output items, which hold *)
(* the reasoning the provider wants back; the others are rebuilt.           *)

Replays == {"responses", "messages"}

statelessRest == <<wire, wtrial, session, chain, streamed, repair, goAway, named, postVars>>

(* A transport error or a status worth retrying; any other refusal, and a   *)
(* reply the client will not pass on (filtered, refused, truncated).        *)
NoReply ==
  /\ TryAgain \/ (wpc' = "failed" /\ UNCHANGED wattempt)
  /\ UNCHANGED <<history, answer, replay>>

ChatPost ==
  /\ wpc = "send" /\ wire = "chat"
  /\ NoReply \/ (UNCHANGED replay /\ \E k \in 0..WCalls : Answered(k, Told(history)))
  /\ Record /\ UNCHANGED statelessRest

(* The raw output items of a reply are kept under each of its calls. *)
ResponsesPost ==
  /\ wpc = "send" /\ wire = "responses"
  /\ NoReply \/ (\E k \in 0..WCalls : /\ Answered(k, Told(history))
                                     /\ replay' = replay \cup Reply(k).calls)
  /\ Record /\ UNCHANGED statelessRest

MessagesPost ==
  /\ wpc = "send" /\ wire = "messages"
  /\ NoReply \/ (\E k \in 0..WCalls : /\ Answered(k, Told(history))
                                     /\ replay' = replay \cup Reply(k).calls)
  /\ Record /\ UNCHANGED statelessRest

-----------------------------------------------------------------------------
(* Gemini Live: one socket, a streamed prefix, a fold when it is lost. *)

(* A mutant: nothing says that the next socket must be told it all again.   *)
DropSilently == session' = NoSession /\ goAway' = FALSE /\ UNCHANGED repair

(* The recoverable error path: the socket is dropped, and what was streamed *)
(* must be folded into the next one.                                        *)
DropSession ==
  /\ session' = NoSession
  /\ repair' = (streamed' # <<>>)
  /\ goAway' = FALSE

Recoverable == DropSession /\ TryAgain /\ Record

(* An error that is not the transport's: the socket goes, the error escapes. *)
Unrecoverable ==
  /\ session' = NoSession /\ wpc' = "failed" /\ Record
  /\ UNCHANGED <<repair, goAway, wattempt>>

liveRest == <<wire, wtrial, chain, replay, postVars>>

LiveOpen ==
  /\ wpc = "send" /\ wire = "gemini-live" /\ ~session.open
  /\ UNCHANGED <<liveRest, history, streamed, named, answer>>
  /\ \/ /\ session' = [open |-> TRUE, told |-> EmptyBag]
        /\ goAway' \in {goAway, TRUE}
        /\ UNCHANGED <<wpc, wattempt, repair, capture>>
     \/ Recoverable

(* _send_recovery: everything but the newest user message goes in a         *)
(* prologue; that message comes last.                                       *)
Fold(messages) ==
  LET users == {i \in DOMAIN messages : messages[i].role = "user"}
      anchor == CHOOSE i \in users : \A j \in users : j <= i
  IN Told(SubSeq(messages, 1, anchor - 1)) (+) Told(SubSeq(messages, anchor + 1, Len(messages)))
     (+) SetToBag({messages[anchor].id})

Recover ==
  /\ streamed' = Ids(history)
  /\ session' = [session EXCEPT !.told = @ (+) Fold(history)]
  /\ named' = {} /\ repair' = FALSE

(* _send_suffix: the new user messages, then the tool results.  The cursor  *)
(* moves only when all of it was sent.                                      *)
NamesKnown == \A m \in Elements(Unsent) : m.role = "tool" => m.result \in named

SendSuffix ==
  /\ streamed' = streamed \o Ids(Unsent)
  /\ session' = [session EXCEPT !.told = @ (+) Said(Unsent)]
  /\ UNCHANGED <<named, repair>>

LiveSend ==
  /\ wpc = "send" /\ wire = "gemini-live" /\ session.open
  /\ UNCHANGED <<liveRest, history, answer>>
  /\ \/ /\ repair \/ (NamesKnown /\ Said(Unsent) # EmptyBag)
        /\ IF repair THEN Recover ELSE SendSuffix
        /\ wpc' = "read"
        /\ UNCHANGED <<wattempt, goAway, capture>>
     \/ /\ ~repair /\ (~NamesKnown \/ Said(Unsent) = EmptyBag)
        /\ Unrecoverable /\ UNCHANGED <<streamed, named>>
     \/ UNCHANGED <<streamed, named>> /\ Recoverable

(* _read_exchange: the server is taken to complete the buffered tool        *)
(* responses empty, as the code expects, and to answer each exchange once.  *)
LiveRead ==
  /\ wpc = "read" /\ wire = "gemini-live"
  /\ UNCHANGED <<liveRest, streamed>>
  /\ \/ \E k \in 0..WCalls :
          /\ Answered(k, session.told)
          /\ session' = [session EXCEPT !.told = @ (+) SetToBag({Reply(k).id})]
          /\ named' = named \cup Reply(k).calls
          /\ goAway' \in {goAway, TRUE}
          /\ Record /\ UNCHANGED repair
     \/ UNCHANGED <<history, answer, named>> /\ (Recoverable \/ Unrecoverable)

-----------------------------------------------------------------------------
(* Interactions: each request continues the last interaction's server-side  *)
(* history, or carries a fold when that history is gone.                    *)

chainRest == <<wire, wtrial, session, goAway, replay>>

Continued == IF repair THEN Fold(history)
             ELSE chain.told (+) Said(Unsent)

(* A lost chain is the one rejection that is repaired. *)
ChainLost ==
  /\ ~repair /\ chain.known
  /\ repair' = TRUE
  /\ TryAgain /\ Record

(* No usable reply: refused for now, or lost on its way, and then the       *)
(* provider may have taken the work.  The next attempt is a request of its  *)
(* own, which nothing ties to this one.                                     *)
PostLost ==
  /\ unheard' \in {unheard, unheard \cup {wattempt}}
  /\ TryAgain /\ Record
  /\ UNCHANGED repair

(* A 200 without an identifier fails as it is parsed, its row written; one  *)
(* that is no JSON escapes before.                                          *)
PostUnreadable ==
  /\ unheard' = unheard \cup {wattempt}
  /\ wpc' = "failed" /\ (Record \/ UNCHANGED capture)
  /\ UNCHANGED <<wattempt, repair>>

PostRefused == wpc' = "failed" /\ Record /\ UNCHANGED <<wattempt, repair, unheard>>

InteractionPost ==
  /\ wpc = "send" /\ wire = "interactions"
  /\ UNCHANGED <<chainRest, history, answer, chain, streamed, named>>
  /\ IF repair \/ (NamesKnown /\ Said(Unsent) # EmptyBag)
     THEN \/ /\ wpc' = "polling" /\ heard' = heard \cup {wattempt} /\ polls' = 0
             /\ UNCHANGED <<wattempt, repair, unheard, capture>>
          \/ /\ UNCHANGED <<heard, polls>>
             /\ (ChainLost /\ UNCHANGED unheard) \/ PostLost \/ PostUnreadable \/ PostRefused
     ELSE wpc' = "failed" /\ UNCHANGED <<wattempt, repair, postVars, capture>>

(* The accepted interaction is still in progress, or a poll failed in a way *)
(* that may pass.                                                           *)
PollAgain ==
  /\ wpc = "polling" /\ polls < WPolls
  /\ polls' = polls + 1
  /\ UNCHANGED <<chainRest, history, answer, chain, streamed, named, repair, wpc, wattempt,
                 heard, unheard, capture>>

(* A mutant: what was accepted is submitted again. *)
PollRetries == TryAgain /\ Record

(* Polling failed for good or time ran out: saved for recovery, not resent. *)
PollFails == wpc' = "failed" /\ Record /\ UNCHANGED wattempt

GivePollingUp ==
  /\ wpc = "polling"
  /\ PollFails
  /\ UNCHANGED <<chainRest, history, answer, chain, streamed, named, repair, postVars>>

InteractionFinishes ==
  /\ wpc = "polling"
  /\ \E k \in 0..WCalls :
       /\ Answered(k, Continued)
       /\ chain' = [known |-> TRUE, told |-> Continued (+) SetToBag({Reply(k).id})]
       /\ streamed' = IF repair THEN Ids(history) ELSE streamed \o Ids(Unsent)
       /\ named' = (IF repair THEN {} ELSE named) \cup Reply(k).calls
       /\ repair' = FALSE
  /\ Record
  /\ UNCHANGED <<chainRest, postVars>>

-----------------------------------------------------------------------------
WNext ==
  \/ StartConversation \/ EndConversation \/ ContinueConversation
  \/ Ask \/ ChatPost \/ ResponsesPost \/ MessagesPost
  \/ LiveOpen \/ LiveSend \/ LiveRead
  \/ InteractionPost \/ PollAgain \/ GivePollingUp \/ InteractionFinishes

WSpec == WInit /\ [][WNext]_wireVars

-----------------------------------------------------------------------------
WireTypeOK ==
  /\ wire \in Wires /\ wtrial \in 0..WTrials /\ wattempt \in 0..MaxRetries - 1
  /\ wpc \in {"between", "ask", "send", "read", "polling", "answered", "failed"}
  /\ session.open \in BOOLEAN /\ repair \in BOOLEAN /\ goAway \in BOOLEAN
  /\ capture.sink \in {"open", "closed", "dead"}
  /\ polls \in 0..WPolls /\ heard \cup unheard \subseteq 0..MaxRetries - 1

(* The model that answers has been told every message of the conversation   *)
(* exactly once, whatever sockets and chains were lost on the way.          *)
AnswerSeesHistory ==
  wpc = "answered" => answer = Told(SubSeq(history, 1, Len(history) - 1))

(* A tool result is never sent to a session that cannot name its call: the  *)
(* clients' "no function name recorded" error is unreachable.               *)
ResultsAreNamed ==
  (wpc = "send" /\ wire \notin Stateless /\ ~repair /\ (session.open \/ wire = "interactions"))
    => NamesKnown /\ Said(Unsent) # EmptyBag

(* On the wires that replay raw output, no turn that called tools has to be *)
(* rebuilt without its reasoning.                                           *)
TurnsReplayRaw ==
  (wpc = "send" /\ wire \in Replays) =>
    \A m \in Elements(history) : m.calls \subseteq replay

(* Once a reply named the interaction that was accepted, this complete()    *)
(* submits nothing more: whatever polling it brings, no generation follows  *)
(* (_interactions.py:190).  One accepted by a reply that was lost may be    *)
(* followed by another; the client cannot tell.                             *)
NotResubmitted == \A a \in heard : \A b \in heard \cup unheard : b <= a

(* Rows of the capture share a call number exactly when one complete() made *)
(* them, its attempts are in order, and a checkpoint gets its row's number. *)
RowsShareTheirCall ==
  /\ \A i, j \in DOMAIN capture.rows :
       LET a == capture.rows[i]  b == capture.rows[j]
       IN /\ (a.call = b.call) = (a.of = b.of)
          /\ (i < j /\ a.call = b.call) => a.attempt < b.attempt
  /\ (wpc = "polling" /\ capture.sink = "open") =>
       \A row \in Elements(capture.rows) : (row.of = Replies) = (row.call = CheckpointCall)

(* Through retries, reconnects and polls the model answers a request that   *)
(* carries the whole conversation, every tool result names its call, and no *)
(* generation is submitted after one the client knows to be accepted.       *)
WireKeepsHistory ==
  AnswerSeesHistory /\ ResultsAreNamed /\ TurnsReplayRaw /\ NotResubmitted /\ RowsShareTheirCall
====
