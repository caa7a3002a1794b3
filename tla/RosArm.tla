-------------------------------- MODULE RosArm --------------------------------
(***************************************************************************)
(* inspect-robots-ros: an arm behind a rosbridge websocket.  The client's  *)
(* receive thread fills one latest-value slot per topic and hands service  *)
(* responses to the call that waits; the embodiment's reset() and step()   *)
(* run in the rollout's thread and compare sequence numbers to tell new    *)
(* messages from old.  The bridge answers calls when it likes, and the     *)
(* link may drop.                                                          *)
(***************************************************************************)
EXTENDS Integers, Sequences, FiniteSets

CONSTANTS
    RosConfigs,  \* configurations the constructor is given
    MaxMessages, \* bound: topic messages the bridge sends
    MaxCalls,    \* bound: service calls
    MaxSteps     \* bound: steps

VARIABLES
    config,       \* a configuration the constructor accepts
    arm,          \* where the embodiment is
    goal,         \* what it does: reset, step
    initialized,
    link,         \* the socket: down, up, dropped
    receiver,     \* the receive thread runs
    incoming,     \* frames on their way to the client
    sent,         \* messages the bridge has sent
    subscribed,   \* topics the bridge sends
    atBridge,     \* calls the bridge has not answered
    slots,        \* _topics: the sequence number of the latest message
    latched,      \* _latched_error
    clientClosing, clientClosed,
    requests,     \* _request_counter
    awaited,      \* the waiting call's id, 0 for none
    response,     \* the id of the response it was given
    expected,     \* the sequence numbers a wait compares with
    commands,     \* commands published
    floor,        \* what the observation must be newer than, for the property
    seen          \* the observation: the sequence number of each topic; NoObservation

ASSUME RosAssumption == {MaxMessages, MaxCalls, MaxSteps} \subseteq Nat

socket == <<link, receiver, incoming, sent, subscribed, atBridge>>
client == <<slots, latched, clientClosing, clientClosed, requests, awaited, response>>
rosVars == <<config, arm, goal, initialized, socket, client, expected, commands, floor, seen>>

----------------------------------------------------------------------------
\* The configuration: what the constructor accepts, and what it makes of it.

\* joints, bounds and cameras are counted, the gripper's limits are given or not.
ValidConfig(c) ==
    /\ c.rosVersion \in {1, 2} /\ c.hz > 0
    /\ c.commandTopic /\ c.joints > 0 /\ c.uniqueJoints
    /\ c.bounds = c.joints /\ c.low <= c.high
    /\ c.gripper => /\ c.gripperLimits /\ c.gripperLow < c.gripperHigh
                    /\ ~c.jointNamedGripper
    /\ c.gripperLimits => c.gripper
    /\ ~(c.eef /\ c.joints + (IF c.gripper THEN 1 ELSE 0) = 7)
    /\ c.timeout > 0 /\ c.staleness >= 0

Topics(c) == {"joints"} \cup (IF c.eef THEN {"eef"} ELSE {}) \cup c.cameras
AllTopics == {"joints", "eef"} \cup UNION {c.cameras : c \in RosConfigs}
\* What the client parses a frame to; any other frame it accepts it ignores.
Frames == [op : {"publish", "response", "status"}, topic : AllTopics \cup {"none"},
           id : 0..MaxCalls]
NoSlots == [t \in AllTopics |-> 0]
NoObservation == [t \in AllTopics |-> -1]

RInit ==
    /\ config \in {c \in RosConfigs : ValidConfig(c)}
    /\ arm = "idle" /\ goal = "none" /\ initialized = FALSE
    /\ link = "down" /\ receiver = FALSE /\ incoming = <<>> /\ sent = 0 /\ subscribed = {}
    /\ atBridge = {}
    /\ slots = NoSlots /\ latched = FALSE /\ clientClosing = FALSE /\ clientClosed = FALSE
    /\ requests = 0 /\ awaited = 0 /\ response = 0
    /\ expected = NoSlots /\ commands = 0 /\ floor = NoSlots /\ seen = NoObservation

----------------------------------------------------------------------------
\* The bridge. Calls are answered in any order, and as late as it likes.

BridgePublishes(t) ==
    /\ link = "up" /\ sent < MaxMessages /\ t \in subscribed
    /\ sent' = sent + 1 /\ incoming' = Append(incoming, [op |-> "publish", topic |-> t, id |-> 0])
    /\ UNCHANGED <<config, arm, goal, initialized, link, receiver, subscribed, atBridge, client,
                   expected, commands, floor, seen>>

BridgeAnswers(id) ==
    /\ link = "up" /\ id \in atBridge /\ atBridge' = atBridge \ {id}
    /\ incoming' = Append(incoming, [op |-> "response", topic |-> "none", id |-> id])
    /\ UNCHANGED <<config, arm, goal, initialized, link, receiver, sent, subscribed, client,
                   expected, commands, floor, seen>>

\* A status of level error, or a frame that cannot be parsed.
BridgeErrs ==
    /\ link = "up" /\ sent < MaxMessages /\ sent' = sent + 1
    /\ incoming' = Append(incoming, [op |-> "status", topic |-> "none", id |-> 0])
    /\ UNCHANGED <<config, arm, goal, initialized, link, receiver, subscribed, atBridge, client,
                   expected, commands, floor, seen>>

LinkDrops ==
    /\ link = "up" /\ link' = "dropped"
    /\ UNCHANGED <<config, arm, goal, initialized, receiver, incoming, sent, subscribed, atBridge,
                   client, expected, commands, floor, seen>>

----------------------------------------------------------------------------
\* The receive thread.

\* Wrong on purpose: a response goes to whichever call waits (breaks
\* ResponseIsItsOwn).
RespondToWaiter(id) == IF awaited # 0 THEN id ELSE response

Respond(id) == IF awaited = id THEN id ELSE response

Receive ==
    /\ receiver /\ incoming # <<>> /\ incoming' = Tail(incoming)
    /\ LET m == Head(incoming)
       IN  CASE m.op = "publish" -> /\ slots' = [slots EXCEPT ![m.topic] = slots[m.topic] + 1]
                                    /\ UNCHANGED <<latched, response, receiver>>
             [] m.op = "response" -> /\ response' = Respond(m.id)
                                     /\ UNCHANGED <<slots, latched, receiver>>
             [] m.op = "status" -> /\ latched' = TRUE /\ receiver' = FALSE
                                   /\ UNCHANGED <<slots, response>>
    /\ UNCHANGED <<config, arm, goal, initialized, link, sent, subscribed, atBridge, clientClosing,
                   clientClosed, requests, awaited, expected, commands, floor, seen>>

\* A lost connection is latched, unless the client itself is closing.
ReceiveFails ==
    /\ receiver /\ incoming = <<>> /\ link = "dropped" /\ receiver' = FALSE
    /\ latched' = (latched \/ ~clientClosing)
    /\ UNCHANGED <<config, arm, goal, initialized, link, incoming, sent, subscribed, atBridge,
                   slots, clientClosing, clientClosed, requests, awaited, response, expected,
                   commands, floor, seen>>

----------------------------------------------------------------------------
\* The rollout's thread. An exception leaves the embodiment usable for another reset.

Ready == ~latched /\ ~clientClosed /\ link = "up"
Goes(pc) == arm' = pc
Raises == Goes("idle") /\ goal' = "none"
InRun == <<config, initialized>>

ResetBegins ==
    /\ arm = "idle" /\ goal' = "reset" /\ ~clientClosing
    /\ Goes(IF initialized THEN "service" ELSE "connect")
    /\ seen' = NoObservation
    /\ UNCHANGED <<config, initialized, socket, client, expected, commands, floor>>

\* connect(): once; a latched failure is raised, and a dead client stays dead.
Connect ==
    /\ arm = "connect"
    /\ \/ /\ ~latched /\ link = "down"
          /\ link' = "up" /\ receiver' = TRUE /\ Goes("setup") /\ UNCHANGED goal
       \/ ~latched /\ link # "down" /\ Goes("setup") /\ UNCHANGED <<goal, link, receiver>>
       \/ (latched \/ link = "down") /\ Raises /\ UNCHANGED <<link, receiver>>
    /\ UNCHANGED <<InRun, incoming, sent, subscribed, atBridge, client, expected, commands,
                   floor, seen>>

\* The advertisements and subscriptions; a send on a lost link latches and raises.
Setup ==
    /\ arm = "setup"
    /\ IF Ready THEN /\ subscribed' = Topics(config) \ {"joints"} /\ Goes("preflight")
                     /\ UNCHANGED <<goal, latched>>
                ELSE Raises /\ latched' = TRUE /\ UNCHANGED subscribed
    /\ UNCHANGED <<InRun, link, receiver, incoming, sent, atBridge, slots, clientClosing,
                   clientClosed, requests, awaited, response, expected, commands, floor, seen>>

\* The joint states are listened to for a while, to warn about their rate, and
\* then subscribed to as the run needs them.
ResetPreflight ==
    /\ arm = "preflight"
    /\ \/ /\ Ready /\ subscribed' = subscribed \cup {"joints"}
          /\ Goes(IF "joints" \in subscribed THEN "first" ELSE "preflight")
          /\ UNCHANGED <<goal, latched>>
       \/ ~Ready /\ Raises /\ latched' = TRUE /\ UNCHANGED subscribed
    /\ UNCHANGED <<InRun, link, receiver, incoming, sent, atBridge, slots, clientClosing,
                   clientClosed, requests, awaited, response, expected, commands, floor, seen>>

Newer(than) == \A t \in Topics(config) : slots[t] > than[t]

\* A first message on every topic, and cameras of the declared size.
FirstMessages ==
    /\ arm = "first"
    /\ \/ Newer(NoSlots) /\ ~latched /\ initialized' = TRUE /\ Goes("service") /\ UNCHANGED goal
       \/ Raises /\ UNCHANGED initialized
    /\ UNCHANGED <<config, socket, client, expected, commands, floor, seen>>

\* The reset service, if there is one.
SkipService ==
    /\ arm = "service" /\ ~config.resetService /\ Goes("capture") /\ floor' = slots
    /\ UNCHANGED <<InRun, goal, socket, client, expected, commands, seen>>

CallService ==
    /\ arm = "service" /\ config.resetService
    /\ \/ /\ Ready /\ requests < MaxCalls
          /\ requests' = requests + 1 /\ awaited' = requests + 1 /\ response' = 0
          /\ atBridge' = atBridge \cup {requests + 1} /\ Goes("calling")
          /\ UNCHANGED <<latched, goal>>
       \/ /\ ~Ready /\ Raises /\ latched' = TRUE
          /\ UNCHANGED <<requests, awaited, response, atBridge>>
    /\ UNCHANGED <<InRun, link, receiver, incoming, sent, subscribed, slots, clientClosing,
                   clientClosed, expected, commands, floor, seen>>

CallReturns ==
    /\ arm = "calling" /\ response # 0 /\ ~latched
    /\ awaited' = 0 /\ floor' = slots
    /\ \/ Goes("capture") /\ UNCHANGED goal
       \/ Raises
    /\ UNCHANGED <<InRun, socket, slots, latched, clientClosing, clientClosed, requests, response,
                   expected, commands, seen>>

\* The call times out, or a failure was latched.
CallFails ==
    /\ arm = "calling" /\ (response = 0 \/ latched) /\ Raises
    /\ awaited' = 0
    /\ UNCHANGED <<InRun, socket, slots, latched, clientClosing, clientClosed, requests, response,
                   expected, commands, floor, seen>>

\* Wrong on purpose: the wait begins with the numbers of an earlier wait (breaks
\* ObservationIsNew).
CaptureNothing ==
    /\ arm = "capture" /\ ~latched /\ expected' = expected /\ Goes("await")
    /\ UNCHANGED <<InRun, goal, socket, client, commands, floor, seen>>

CaptureSequences ==
    /\ arm = "capture" /\ ~latched /\ expected' = slots /\ Goes("await")
    /\ UNCHANGED <<InRun, goal, socket, client, commands, floor, seen>>

Awaited == IF goal = "reset" THEN Newer(expected) ELSE slots["joints"] > expected["joints"]

AwaitNewer ==
    /\ arm = "await" /\ Awaited /\ ~latched /\ Goes("assemble")
    /\ UNCHANGED <<InRun, goal, socket, client, expected, commands, floor, seen>>

\* A wait that times out, or finds a failure latched.
WaitRaises ==
    /\ arm \in {"capture", "await"} /\ (arm = "capture" => latched) /\ Raises
    /\ UNCHANGED <<InRun, socket, client, expected, commands, floor, seen>>

\* The latest message of every topic, unless one is stale, latched or malformed.
Assemble ==
    /\ arm = "assemble"
    /\ \/ /\ ~latched /\ seen' = [t \in AllTopics |-> IF t \in Topics(config) THEN slots[t] ELSE -1]
          /\ Goes("observed") /\ UNCHANGED goal
       \/ Raises /\ UNCHANGED seen
    /\ UNCHANGED <<InRun, socket, client, expected, commands, floor>>

\* step(): the sequence number is read, then the command is published.
StepReads ==
    /\ arm = "observed" /\ commands < MaxSteps
    /\ goal' = "step" /\ floor' = seen
    /\ IF latched THEN Goes("idle") /\ UNCHANGED expected
                  ELSE Goes("publish") /\ expected' = slots
    /\ UNCHANGED <<InRun, socket, client, commands, seen>>

StepPublishes ==
    /\ arm = "publish"
    /\ IF Ready THEN commands' = commands + 1 /\ Goes("await") /\ UNCHANGED <<goal, latched>>
                ELSE latched' = TRUE /\ Raises /\ UNCHANGED commands
    /\ UNCHANGED <<InRun, socket, slots, clientClosing, clientClosed, requests, awaited, response,
                   expected, floor, seen>>

TrialEnd ==
    /\ arm = "observed" /\ Goes("idle") /\ goal' = "none"
    /\ UNCHANGED <<InRun, socket, client, expected, commands, floor, seen>>

\* close(): _closing first, so that the receiver's end is not a failure; then
\* the socket, and a bounded join.
CloseClient ==
    /\ arm = "idle" /\ ~clientClosing /\ clientClosing' = TRUE /\ Goes("closing")
    /\ link' = (IF link = "down" THEN "down" ELSE "dropped")
    /\ UNCHANGED <<InRun, goal, receiver, incoming, sent, subscribed, atBridge, slots, latched,
                   clientClosed, requests, awaited, response, expected, commands, floor, seen>>

ClientClosed ==
    /\ arm = "closing" /\ ~clientClosed /\ clientClosed' = TRUE /\ subscribed' = {}
    /\ Goes("closed")
    /\ UNCHANGED <<InRun, goal, link, receiver, incoming, sent, atBridge, slots, latched,
                   clientClosing, requests, awaited, response, expected, commands, floor, seen>>

RNext ==
    \/ \E t \in AllTopics : BridgePublishes(t)
    \/ \E id \in 1..MaxCalls : BridgeAnswers(id)
    \/ BridgeErrs \/ LinkDrops \/ Receive \/ ReceiveFails
    \/ ResetBegins \/ Connect \/ Setup \/ ResetPreflight \/ FirstMessages \/ SkipService \/ CallService
    \/ CallReturns \/ CallFails \/ CaptureSequences \/ AwaitNewer \/ WaitRaises \/ Assemble
    \/ StepReads \/ StepPublishes \/ TrialEnd \/ CloseClient \/ ClientClosed
    \/ arm \in {"closed", "service"} /\ UNCHANGED rosVars

RosSpec == RInit /\ [][RNext]_rosVars

----------------------------------------------------------------------------
\* Properties.

RosTypeOK ==
    /\ config \in RosConfigs /\ goal \in {"none", "reset", "step"}
    /\ arm \in {"idle", "connect", "setup", "preflight", "first", "service", "calling", "capture", "await",
                "assemble", "observed", "publish", "closing", "closed"}
    /\ link \in {"down", "up", "dropped"}
    /\ {initialized, receiver, latched, clientClosing, clientClosed} \subseteq BOOLEAN
    /\ \A i \in DOMAIN incoming : incoming[i] \in Frames
    /\ sent \in 0..MaxMessages
    /\ subscribed \subseteq Topics(config) /\ atBridge \subseteq 1..MaxCalls
    /\ slots \in [AllTopics -> 0..MaxMessages] /\ expected \in [AllTopics -> 0..MaxMessages]
    /\ {requests, awaited, response} \subseteq 0..MaxCalls /\ commands \in 0..MaxSteps
    /\ seen \in [AllTopics -> -1..MaxMessages]

\* A service call returns the response to itself: one that comes after its call
\* has timed out, also while the next call waits, is dropped.
ResponseIsItsOwn == arm = "calling" /\ response # 0 => response = requests

\* What reset() returns was received after the reset service had answered, on
\* every topic, and each step's joint state is newer than the one before it.
ObservationIsNew ==
    arm = "observed" =>
        /\ goal = "reset" => \A t \in Topics(config) : seen[t] > floor[t]
        /\ goal = "step" => seen["joints"] > floor["joints"]
        /\ ~clientClosed
=============================================================================
