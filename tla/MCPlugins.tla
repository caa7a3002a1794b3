------------------------------ MODULE MCPlugins ------------------------------
(***************************************************************************)
(* The policies, the embodiment of the ROS plugin, the command line around *)
(* them and what is made of a finished run.  Each subject is a component   *)
(* with its own process, server or files; none shares state with another,  *)
(* so a behaviour is one of one subject, and the others stay at one of     *)
(* their initial states.                                                   *)
(***************************************************************************)
EXTENDS RosArm, XPolicy, CapxPolicy, AgentWire, ControlTools, AgentAct, AgentSetup, CliRun, Judging

VARIABLE subject

----------------------------------------------------------------------------
\* The arm of the ROS plugin: a plain one, one with a camera and no reset service, one with
\* an end effector, and two the constructor refuses.

RosBase ==
    [rosVersion |-> 2, hz |-> 10, commandTopic |-> TRUE, joints |-> 6, uniqueJoints |-> TRUE,
     bounds |-> 6, low |-> 0, high |-> 1, gripper |-> FALSE, gripperLimits |-> FALSE,
     gripperLow |-> 0, gripperHigh |-> 0, jointNamedGripper |-> FALSE, eef |-> FALSE,
     timeout |-> 1, staleness |-> 2, cameras |-> {}, resetService |-> TRUE]
MCRosConfigs ==
    {RosBase, [RosBase EXCEPT !.cameras = {"cam"}, !.resetService = FALSE],
     [RosBase EXCEPT !.eef = TRUE, !.joints = 7, !.bounds = 7],
     [RosBase EXCEPT !.bounds = 5], [RosBase EXCEPT !.gripper = TRUE]}

\* xpolicylab: one arm in joints, two in poses, three (refused), a gripper of no width.
XBase == [actionType |-> "joint", arms |-> 1, armDim |-> 6, eeDim |-> 1, height |-> 0,
          width |-> 0, keys |-> {}, dim |-> 0, cameras |-> {"head"}]
MCXConfigs ==
    {XBase, [XBase EXCEPT !.arms = 2, !.actionType = "ee"], [XBase EXCEPT !.arms = 3],
     [XBase EXCEPT !.keys = {<<1, "arm">>}, !.dim = 6, !.eeDim = 0]}

\* capx: a speed given or taken from the embodiment, a budget wide or narrow, two grippers
\* (refused).
AG(arm_, grip_) == [arm |-> arm_, grip |-> grip_]
CapBase ==
    [learnings |-> "notes", effort |-> "unset", wire |-> "chat", oneDimensional |-> TRUE,
     dims |-> 2, mode |-> "joint_pos", gripperKind |-> "binary", labelled |-> TRUE,
     grippers |-> 1, hz |-> 1, fields |-> 1, camera |-> TRUE, bounded |-> TRUE, speed |-> 2,
     declared |-> TRUE, low |-> AG(0, 0), high |-> AG(2, 1), budget |-> AG(1, 1),
     limit |-> AG(0, 0)]
MCProfiles ==
    {CapBase, [CapBase EXCEPT !.declared = FALSE, !.speed = 1],
     [CapBase EXCEPT !.high = AG(3, 1), !.budget = AG(2, 1)], [CapBase EXCEPT !.grippers = 2]}

\* The agent's tools: joints with and without the speed check, a wait-only arm, deltas, and
\* an embodiment with two state fields (refused).
TV(a, b) == [d \in TDims |-> IF d = 1 THEN a ELSE b]
ToolBase ==
    [onDemand |-> FALSE, cameras |-> TRUE, mode |-> "joint_pos", rotation |-> "none",
     preCheck |-> FALSE, stateFields |-> 1, bounded |-> TRUE, low |-> TV(0, 0),
     high |-> TV(2, 2), limit |-> TV(1, 1), cap |-> 2, steps |-> TRUE]
MCToolConfigs ==
    {ToolBase,
     [ToolBase EXCEPT !.preCheck = TRUE, !.limit = TV(2, 0), !.high = TV(2, 0), !.onDemand = TRUE],
     [ToolBase EXCEPT !.steps = FALSE, !.cap = 1],
     [ToolBase EXCEPT !.mode = "eef_delta_pos", !.low = TV(-1, 0)],
     [ToolBase EXCEPT !.stateFields = 2]}

MCActConfigs == [onDemand : BOOLEAN, horizon : 0..2]
Do(t) == [tool |-> t, cams |-> {}]
Pic(c) == [tool |-> "pic", cams |-> c]
MCTurns ==
    {<<>>, <<Do("move")>>, <<Do("sleep")>>, <<Do("stop")>>, <<Do("bad")>>, <<Do("note")>>,
     <<Pic({"a"})>>, <<Pic({"b"})>>, <<Pic({})>>, <<Pic({"c"})>>,
     <<Do("move"), Pic({"a"})>>, <<Do("stop"), Pic({"a"})>>, <<Do("bad"), Do("move")>>,
     <<Do("sleep"), Pic({"c"}), Pic({})>>, <<Do("note"), Do("move"), Do("sleep")>>}

\* The agent's set-up: every route to a provider with plain settings, and every setting with
\* a Google key.
Plain == [effort |-> "unset", tier |-> "none", speed |-> "none", tokens |-> 0,
          horizon |-> "unset", learnings |-> "none", notes |-> "none", inRange |-> TRUE]
Routes ==
    [prefix : {"anthropic", "google", "thinkingmachines", "meta", ""}, variant : BOOLEAN,
     env : SUBSET {"ANTHROPIC_API_KEY", "GEMINI_API_KEY", "TINKER_API_KEY", "OPENROUTER_API_KEY"},
     base : {"", "gateway", "socket", "google"}, keyEnv : {"", "ANTHROPIC_API_KEY"},
     wire : WireFormats \cup {"unset", "anthropic", "telnet"}]
Knobs ==
    [effort : {"unset", "high", "max"}, tier : {"none", "flex", "auto"},
     speed : {"none", "fast"}, tokens : {0, 16}, horizon : {"unset", "none", "1", "0"},
     learnings : {"none", "unreadable"}, notes : {"read"}, inRange : {TRUE}]
Google == [prefix |-> "google", variant |-> FALSE, env |-> {"GEMINI_API_KEY"}, base |-> "",
           keyEnv |-> ""]
GooglePlain == (Google @@ [wire |-> "unset"]) @@ Plain
MCOptions == {r @@ Plain : r \in Routes}
             \cup {(Google @@ [wire |-> w]) @@ k : w \in WireFormats, k \in Knobs}

\* Two commands that want the same two rigs in different orders.
JobBase ==
    [mode |-> "run", devices |-> <<"d1", "d2">>, tty |-> TRUE, noPrompt |-> FALSE,
     grader |-> "unset", voice |-> TRUE, speak |-> TRUE, auto |-> FALSE, console |-> TRUE,
     sim |-> FALSE, unguarded |-> FALSE, delta |-> FALSE, bounded |-> TRUE,
     contributes |-> TRUE, extra |-> FALSE, unmigrated |-> FALSE, semantics |-> TRUE]
MCJobs ==
    {JobBase,
     [JobBase EXCEPT !.mode = "set", !.speak = FALSE, !.devices = <<"d2">>, !.bounded = FALSE,
                     !.contributes = FALSE],
     [JobBase EXCEPT !.mode = "parallel", !.noPrompt = TRUE, !.voice = FALSE, !.speak = FALSE,
                     !.devices = <<"d2", "d1">>, !.sim = TRUE, !.unguarded = TRUE],
     [JobBase EXCEPT !.unguarded = TRUE, !.delta = TRUE],
     [JobBase EXCEPT !.console = FALSE, !.semantics = FALSE],
     [JobBase EXCEPT !.devices = <<>>, !.unmigrated = TRUE]}

\* Two trials of one scene or of two, with every kind of grader and rubric.
Rubric_(n, s, sf, x) == [name |-> n, scorer |-> s, safety |-> sf, text |-> x]
JudgeBase ==
    [rubrics |-> <<Rubric_("a", "operator", FALSE, FALSE), Rubric_("b", "operator", TRUE, TRUE)>>,
     reducer |-> "mean", scenes |-> <<1, 2>>, grader |-> "vlm",
     ends |-> <<{"success", "horizon"}, {"error"}>>, console |-> "none"]
OneRubric == <<Rubric_("a", "operator", FALSE, TRUE)>>
MCJConfigs ==
    {JudgeBase,
     [JudgeBase EXCEPT !.grader = "operator", !.ends = <<{"success"}, {"error"}>>],
     [JudgeBase EXCEPT !.grader = "custom", !.ends = <<{"horizon"}, {"error"}>>,
                       !.rubrics = OneRubric \o <<Rubric_("b", "judging", FALSE, TRUE)>>],
     [JudgeBase EXCEPT !.reducer = "pass_at_2", !.scenes = <<1, 1>>,
                       !.ends = <<{"horizon"}, {"success"}>>,
                       !.rubrics = OneRubric \o <<Rubric_("b", "other", FALSE, TRUE)>>],
     [JudgeBase EXCEPT !.rubrics = OneRubric, !.console = "y", !.grader = "none",
                       !.ends = <<{"failure"}, {"horizon"}>>],
     [JudgeBase EXCEPT !.rubrics = OneRubric, !.scenes = <<1, 1>>,
                       !.ends = <<{"horizon"}, {"horizon"}>>]}
MCCorrections ==
    {[trial |-> 1, value |-> "y", given |-> "none"], [trial |-> 1, value |-> "n", given |-> "a"],
     [trial |-> 2, value |-> "n", given |-> "none"]}

----------------------------------------------------------------------------
pluginVars == <<subject, rosVars, xVars, capVars, wireVars, toolVars, actVars, setupVars,
                cliVars, judgeVars>>

PInit ==
    /\ subject \in {"ros", "xpolicylab", "capx", "wire", "tools", "act", "setup", "commands",
                    "judging"}
    /\ RInit /\ (subject # "ros" => config = RosBase)
    /\ XInit /\ (subject # "xpolicylab" => xConfig = XBase)
    /\ CapInit /\ (subject # "capx" => profile = CapBase)
    /\ WInit /\ (subject # "wire" => wire = "chat")
    /\ ToolsInit /\ (subject # "tools" => tcfg = ToolBase)
    /\ ActInit /\ (subject # "act" => acfg = [onDemand |-> FALSE, horizon |-> 0])
    /\ JudgeInit /\ (subject # "judging" => jcfg = JudgeBase)
    /\ CliInit /\ (subject # "commands" => \A c \in Commands : job[c] = JobBase)
    /\ IF subject = "setup"
       THEN SetupInit
       ELSE opt = GooglePlain /\ spc = "build" /\ clientMade = NoClient

PNext ==
    \/ subject = "ros" /\ RNext
       /\ UNCHANGED <<subject, xVars, capVars, wireVars, toolVars, actVars, setupVars, cliVars,
                      judgeVars>>
    \/ subject = "xpolicylab" /\ XNext
       /\ UNCHANGED <<subject, rosVars, capVars, wireVars, toolVars, actVars, setupVars, cliVars,
                      judgeVars>>
    \/ subject = "capx" /\ CapNext
       /\ UNCHANGED <<subject, rosVars, xVars, wireVars, toolVars, actVars, setupVars, cliVars,
                      judgeVars>>
    \/ subject = "wire" /\ WNext
       /\ UNCHANGED <<subject, rosVars, xVars, capVars, toolVars, actVars, setupVars, cliVars,
                      judgeVars>>
    \/ subject = "tools" /\ ToolsNext
       /\ UNCHANGED <<subject, rosVars, xVars, capVars, wireVars, actVars, setupVars, cliVars,
                      judgeVars>>
    \/ subject = "act" /\ ActNext
       /\ UNCHANGED <<subject, rosVars, xVars, capVars, wireVars, toolVars, setupVars, cliVars,
                      judgeVars>>
    \/ subject = "setup" /\ SetupNext
       /\ UNCHANGED <<subject, rosVars, xVars, capVars, wireVars, toolVars, actVars, cliVars,
                      judgeVars>>
    \/ subject = "commands" /\ CliNext
       /\ UNCHANGED <<subject, rosVars, xVars, capVars, wireVars, toolVars, actVars, setupVars,
                      judgeVars>>
    \/ subject = "judging" /\ JudgeNext
       /\ UNCHANGED <<subject, rosVars, xVars, capVars, wireVars, toolVars, actVars, setupVars,
                      cliVars>>

PSpec == PInit /\ [][PNext]_pluginVars

PluginsTypeOK ==
    /\ subject = "ros" => RosTypeOK
    /\ subject = "xpolicylab" => XTypeOK
    /\ subject = "capx" => CapTypeOK
    /\ subject = "wire" => WireTypeOK
    /\ subject = "tools" => ToolsTypeOK
    /\ subject = "act" => ActTypeOK
    /\ subject = "setup" => SetupTypeOK
    /\ subject = "commands" => CliTypeOK
    /\ subject = "judging" => JudgingTypeOK

\* A reply, an observation or an inference belongs to the request, the step and the trial it
\* is given to, however late the other side is: the ROS client's pending call and sequence
\* numbers, the xpolicylab client's request identifiers and trial bracket.
AnswersAreTheirOwn ==
    /\ subject = "ros" => ResponseIsItsOwn /\ ObservationIsNew
    /\ subject = "xpolicylab" => ReplyIsItsOwn /\ InferWithinTrial /\ XReleased

\* What a policy commands is what it declared: motions within the speed and the calls within
\* the budget (capx), dimensions nobody named stay at the last waypoint of theirs that played,
\* however a guard rewrote it (agent tools), chunks of the declared width (xpolicylab).
MotionsAreAsDeclared ==
    /\ subject = "capx" => MotionsWithinBudget /\ CapTrialKept
    /\ subject = "tools" => UnnamedHold
    /\ subject = "xpolicylab" => ChunkIsDeclared
=============================================================================
