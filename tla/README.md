# A verification development for inspect-robots

TLA+ models of `inspect_robots`. The control core: one trial (`rollout.py`), one evaluation
(`eval.py`), a set of evaluations on worker threads (`eval_set`, `_parallel.py`), and the log
sinks they share (`_Broadcast`, `logging/`). Around it: the operator's terminal, the
microphone and the speaker, the Rerun sink and the report's viewer, the ROS arm, the
policies (language-model agent, capx, xpolicylab) with their servers, the commands that claim
rigs, and the judging of what came out.

TLC checks them on small instances. TLAPS proves, for every value of the constants, every
invariant and every action property that a passing run checks: the safety of the control core
(the trial, the evaluation, the set, the sinks), of everything that attends a trial (terminal,
microphone, speaker, Rerun sink, viewer), of the policies' conversations with what is outside the
process, of the commands and of the judgements. Liveness alone is left to TLC. Section 4 lists
the theorems and what they assume.

Run everything from this directory: `tlc -config X.cfg M`, `tlapm M.tla`.

## 1. The system

| part | state it keeps | operations | talks to |
|---|---|---|---|
| rollout engine, `rollout.py` | the step counter, the trial's store (messages, approvals, cursors), the `Record` | one call `rollout()`: resets, then poll - act - review - step - record | policy, guards, embodiment, operator input, sink, frame store |
| action manager, `action_manager.py` | buffered actions of the chunk, chunk start, fired triggers (in the trial's store) | `next_action`, `should_replan` | policy |
| guards, `guard.py` | the last executed command (in the trial's store) | `review` of every action | rollout |
| eval loop, `eval.py` `_run_eval` | status, counters, the parallel lists of a scene, the halt or cancel to re-raise | scenes x epochs, hooks, grading, scoring, `park` | rollout, embodiment hooks, policy hooks, scorers, sinks |
| eval sets, `eval.py` `eval_set`, `_parallel.py` | the tasks' rows, the pending futures | sequential loop, or a pool of workers with an exit stack each | eval, registry |
| sinks, `_Broadcast`, `logging/` | the snapshot file, the canonical log, message-hook latches | the sink lifecycle | eval, rollout |
| operator session, `session.py`, `console.py` | line editor, queue, Esc grace, terminal state | `begin_trial`, `poll`, `end_trial`, an echo pump thread | rollout |
| voice plugin, `_input.py`, `_speaker.py` | generation, capture, segmenter, output; notes, playback | `begin_trial`, `poll`, `close`; `log_transcript`, cancel, `close`; a worker thread each | session, PortAudio |
| Rerun sink, `rerun_sink.py` | bounded queue, worker generations, drop counters | the sink lifecycle; flush, disown | the Rerun SDK |
| report viewer, `cli.py view` | a stamp per page, rows of the index | passes over a directory, a serving loop | logs that runs are writing |
| ROS plugin, `_client.py`, `embodiment.py` | sequence numbers per topic, the waiting call, the latched error | `connect`, `call`, `reset`, `step`, `close`, a receive thread | rosbridge server |
| agent policy, `policy.py`, `tools.py` | conversation, budgets, frames shown, owed narration, last settled target | `bind`, `reset`, `act`, the tools | the provider clients, rollout |
| provider clients, `_anthropic.py` and its siblings | session or chain, what the model was told, retries | `complete`, `reset` | five provider APIs |
| xpolicylab, capx plugins | a socket, request ids, the open trial; queued motions, call and failure counts, a deadline | `reset`, `act`, `close` | model servers, a program the model wrote |
| commands and claims, `cli.py`, `_claims.py` | locks, what is open, the exit status | `run`, `eval-set`, clean-up | each other, through lock files |
| judging, `grader.py`, `scorer.py`, `rubric.py`, `annotation.py`, `cli.py` | the trials' records, the log, the annotations beside it | grade, score, `edit`, `score --out` | editors that run at once |

The eval loop is single-threaded, and what is hard in it is *who raises when*: every
call it makes is to a component somebody else wrote, each may raise any exception, the
exceptions have ranks (a hardware or safety halt ends the run, a policy error only the
trial, Ctrl-C everything), and a platform that has moved must be parked on every way
out. The trial adds state that outlives a step (buffered chunks, cursors, the delta
limit's reference). Eval sets add real concurrency. The plugins add threads of their
own, sockets and timeouts, and things that outlive a trial: a generation, a connection, a
conversation, a target, a page.

What makes each part correct, in a sentence: the trial commands only safe actions and
records exactly what ran; the loop parks, accounts for every trial and never loses a
halt; the set stops when it must, ends always, and leaves nothing running; what stands
around them gives each trial only what belongs to it, and each request only its own answer.
The hazards
behind these are listed in `PROJECT.json` with the line where each bites.

## 2. Modules

| module | models | state and actions |
|---|---|---|
| `Outcomes` | the exception classes, `errors.py`, and the relabelling of untyped ones | operators only |
| `GuardChain` | the arithmetic of `ClampGuard` and `DeltaLimitGuard` | operators only |
| `Rollout` | `rollout()` under `DefaultActionManager` and a guard chain | `pc` is the next call the loop makes; one action per call and way it can end |
| `Trial` | what `rollout()` promises its caller | abstract: two actions, `Command` and `Finish` |
| `EvalRun` | `eval()` with `_run_eval` | `pc` is the next call; `rollout()` appears as the outcomes `Trial` allows |
| `EvalSet` | `eval_set()` and `run_parallel()` | one `stage` per task and a `pc` for the calling thread; `eval()` appears as its log or its exception |
| `Sinks` | `_Broadcast` over `JsonLogSink`, `LiveLogSink` and contributed sinks, with the cleanup in `cli.py` | `hook` and `at` say which hook is offered to which sink; one action per sink's hook and way it can end |
| `OperatorSession` | `OperatorSession` with the console's line editor | `app` is where the rollout's thread is, `pump` where the echo pump is; bytes arrive in `fd`, the rest of a split key in `tail` |
| `VoiceInput` | `VoiceInput`, `EnergyGate` and the PortAudio callback | `vMain` and `worker` are the two threads, `Capture` the callback; a block carries the trial it was captured in |
| `Speaker` | `SpeakerSink` | `caller`, `starter`, `speaker`: the rollout, `start()`, the worker; one action between two lock sections; the stream is opened inside a write (`OpenStream`) |
| `RerunSink` | `RerunSink` and its worker | one record per worker generation in `workers`; every timed wait may time out |
| `ReportView` | the passes and the serving loop of `view` | `vpc`, with `work` the pass; runs write and remove logs between any two steps |
| `RosArm` | the ROS client and embodiment | `arm` for the rollout's thread, `receiver` for the receive thread; the bridge answers, errs and drops the link when it likes |
| `XPolicy` | the xpolicylab client and policy | `operation` and `at`; `inbox` and `outbox` are the two directions of the socket |
| `CapxPolicy` | the capx policy, its program and its servers | `capx`; the program is any sequence of `Move`, `BeginPost`, `CodeEnds`, `CodeEscapes`; `post` is a request with its deadline |
| `AgentWire` | `complete()` of the five provider clients | `wpc`; what each session and chain was told beside the whole `history` |
| `ControlTools` | the motion tools | `tpc`; `held`, `inFlight` are the setpoint's fields; `PlayChunk` is the rollout with its guards, which may hand the controller any pose of the box |
| `AgentAct` | `LLMAgentPolicy.act`, `reset` and the end of a trial | `apc`; a model turn is a sequence of calls, answered in one action |
| `AgentSetup` | the constructor's resolution of provider, key, wire and options | one step, `Refuse` or `Build` |
| `CliRun` | `run`, `eval-set` and a task of the parallel form, with the claims | `step[c]` walks `Order`, then `clean`, which closes in `CloseOrder` |
| `Judging` | graders, scoring, annotations, `edit`, `score --out` | one action per file read or written |
| `MCRollout`, `MCEvalRun`, `MCEvalSet`, `MCSinks` | instances for TLC of one module each | |
| `MCAttended`, `MCPlugins` | instances of five and of nine modules | `subject` says which of them this behaviour is about |
| `NumberProofs` | least and greatest numbers, induction up to a number, folds: what the other proofs share | |
| `RolloutProofs` | theorems about `Rollout`: the types and what is commanded; what is recorded, shown and returned; that it implements `Trial` | |
| `EvalRunProofs`, `EvalSetProofs`, `SinksProofs` | theorems about `EvalRun`, `EvalSet`, `Sinks` | |
| `AttendedProofs` | theorems about `OperatorSession`, `VoiceInput`, `Speaker`, `RerunSink`, `ReportView` and about `MCAttended`, which composes them | |
| `JudgingProofs` | theorems about `Judging` | |
| `PluginsProofs` | theorems about `RosArm`, `XPolicy`, `CapxPolicy`, `AgentWire`, `ControlTools`, `AgentAct`, `AgentSetup`, `CliRun` and about `MCPlugins`, which composes them with `Judging` | |

The composition is by contract. `Rollout` implements `Trial` (checked as the property
`KeepsTrialContract`, proved as `RolloutImplementsTrial` for its safety part);
`EvalRun` uses a trial only through its outcomes (`TrialReturns`, `TrialCancelled`,
`TrialHalts`, `TrialPolicyError`, `TrialRaises` are the members of
`Outcomes!TrialOutcomes`, with and without an attached record as
`Rollout.attached` allows), and `EvalSet` uses `eval()` only through what leaves it.

The modules around the core meet it through the same calls: `OperatorSession` and `VoiceInput`
are what a console poll of `Rollout` hides (`Poll`, `PollFails`: any text, an end, or a failure), `RerunSink` and `Speaker` are contributed sinks of `Sinks`, `RosArm` an embodiment
whose calls return or raise, the policies what `Infer` calls, `AgentAct` a client of
`ControlTools` and `AgentWire`, and the stage `eval` of `CliRun` is `EvalRun` or `EvalSet`.

`MCAttended` and `MCPlugins` put several of them into one run. They share no state, so
interleaving them would multiply states and show nothing: `subject` is chosen in the initial
state, only its module moves, and the others stay in one initial state. A behaviour of a run
is a behaviour of one module's specification and the run's states are those of the modules
together.

### How state corresponds to code

`Rollout`: the variables that are entries of the trial's store name their keys in the
declaration (`apprCursor` is `store["_rollout_last_approvals_idx"]`, `reference` is
`store[_LAST_APPROVED_KEY]`). An action is an integer `v` in one dimension, with `ok`
for "finite, of the declared shape" and `stop` for its terminal flag. `seenMessages`,
`seenApprovals`, `executed` and `stopPending` record what the components saw, and no
action reads the last three of these except a contributed guard, which may hold an
earlier executed pose.

`EvalRun`: the variables carry the names of the locals of `_run_eval` where they have
one. `moved`, `rollouts`, `halts`, `trouble`, `interrupted` and `closeRaised` record
what happened outside, and no action is guarded by them.

`EvalSet`: `stage`, `exc`, `row`, `open` are per task (the worker's frame, the
exception in flight in it, its log, what its exit stack still has to close); `next`,
`pending` and `done` are the locals of `run_parallel`. Ctrl-C may land while the first tasks are
submitted, in the wait, in the admission and in the executor's own join; `joinCut` records the last.

`Sinks`: a snapshot file is what it says of its run (how many trials ended, whether one is
in progress, how much of its transcript); `path` is the run the file is named after. The
caller's side is `phase`: what `_run_eval` and the rollout do between two hooks. A fan-out
is interrupted between two sinks (`Interrupt`) or inside the canonical sink's write
(`JsonInterrupted`); an interrupt inside the live sink's own write and the optional `bind`
hooks are left out.

`OperatorSession`: a byte is what it does to the editor and, for text, the trial it was typed
in; a line is the set of those trials. `escs` and `ends` count Esc keys pressed and ends asked.
`VoiceInput`: an utterance is the set of trials its blocks come from, and `since`, the generation
in which the gate opened; `leftover` counts the blocks of an earlier trial that entered the segmenter
after `begin_trial()` had returned. `Speaker`: `outlived` says that `close()` stopped waiting for a
worker that was in a write and may open the stream again. `RerunSink`: `reported`, `failed` and
`announced` count, over the life of the sink, what its reports named, the emits that raised and the
warnings of one; the sink itself keeps only `dropped` and `warned` (`_emit_warned`). `RosArm`: a message is its topic and sequence number; `seen` and
`floor` are the numbers an observation was made of and those it has to exceed. `XPolicy`:
`delivered` pairs the identifier of a reply with that of the request it was returned to;
`served` and `ended` are what the server knows of trials. `AgentWire`: a message is an identity,
a role and the tool calls it makes or answers; what a model was told is a bag of identities, so that
a message told twice or not at all shows and the order of telling does not; `answer` is what the
model that answered had been told, `heard` holds the attempts of one `complete()` whose acceptance was answered, `unheard` those the
provider may have taken although the reply was lost or unreadable. `ControlTools`:
positions are small integers, `readback` may sag below the pose the guards let through in dimension 1,
and `lastPlayed` is the tools' own waypoint that played last. `CapxPolicy`: an observed position may lie up to
`Stray` outside the box.
`ReportView`: a page is the version of the log it was made of. `Judging`: a value is yes or no;
what a log lifts is a set, at most one annotation of a kind for a trial, and an annotations file a
sequence, since the last line that counts wins.
`escs`, `ends`, `since`, `leftover`, `outlived`, `reported`, `failed`, `announced`, `seen`, `floor`,
`delivered`, `answer`, `heard`, `unheard`, `lastPlayed` and `joinCut` only record: no action is guarded by
them.

Names with "Wrong on purpose" or "A mutant" in their comment are not part of a specification: each is
the mutation of a definition that makes one property fail, and shows that the property
can.

## 3. Runs

| run | checks | instance | states |
|---|---|---|---|
| `rollout` | `Rollout` | 3 steps, replan interval 2, both triggers, seven chunks, four guards, 2 messages | 194,512 |
| `eval_run` | `EvalRun` | 2 scenes x 2 epochs, one rubric, four `fail_on_error`, owned embodiment | 479,018 |
| `eval_set` | `EvalSet` | 4 tasks, 1 and 2 workers | 516,502 |
| `sinks` | `Sinks` | 4 sinks, 2 runs of up to 2 trials, 2 transcript deltas each | 2,036,355 |
| `attended` | `OperatorSession`, `VoiceInput`, `Speaker`, `RerunSink`, `ReportView` | 2 trials, 2 keys, 4 blocks, 3 narrations, 2 evaluations of 4 snapshots, 3 log writes | 3,027,743 |
| `plugins` | `RosArm`, `XPolicy`, `CapxPolicy`, `AgentWire`, `ControlTools`, `AgentAct`, `AgentSetup`, `CliRun`, `Judging` | 2 trials, commands or editors each; 4 topic messages, 5 requests, 3 model calls | 1,888,229 |
| `voice_closed_twice`, `voice_stale_audio` | two comments of `_input.py` that the code does not keep | `VoiceInput` alone | violated |
| `eval_cancel`, `eval_halt_log`, `eval_set_stop`, `sinks_retained` | four statements of docstrings, comments and the guide that the code does not keep | as above, 3 tasks for `eval_set_stop` | violated |

Why the bounds suffice. Three steps with an interval of two give a chunk played out, one
dropped by a trigger, one cut by the interval, a terminal on the last step of the budget
and a clamp in an earlier chunk. The chain `delta 2, clamp, contributed, delta 1` has a
limiter before and after a clamp, and a guard that may hold, veto or spoil the action;
the box `0..2` with proposals up to 3 makes each member bind alone and together.
Two scenes of two epochs stop a run within a scene, between scenes and at the end, and let
a threshold be met by the first failure, by half of the trials, by the second failure.
Four tasks with two workers have an admission while another task runs, two futures done
in one wait, and tasks left unstarted by a stop.
Two runs let the sinks carry state from one to the next (a snapshot kept, a path, a latch);
two trials, a latch left by the first; two deltas, a hook that misses only one. The sinks are
given with the canonical one before a critical one and after a plain one, so that the order
of service differs from the order given and something can fail on both sides of the write.

In `attended`, two keys are any two of Esc, an arrow, text, Enter and Ctrl-U, and the bytes of one
may be split over two reads and two threads; four blocks against a queue of two lose the oldest, and are enough to open an
utterance in one trial and end it in the next; three narrations overfill the speaker's queue of
two; four snapshots over two evaluations overfill the Rerun queue, disown a worker in the first
and let its last snapshot land in the second; three writes of one log are a snapshot, its
replacement and the final log, and two passes are one that renders and one that may skip.
In `plugins`, a second call while the first is still at the bridge, and five requests (two
hellos, two resets, an infer) are enough for a reply to come late. Three model calls let the image
horizon of 1 or 2 evict a frame. Two retries and two replies give a lost session on the first and on
the last attempt and an interaction polled across a failure. Two commands want the two rigs in
opposite orders. Two editors read before either appends. The option records of `AgentSetup` are
every route to a provider with plain settings, and every setting with a Google key.

What the properties say, beyond types:

- `rollout`: `PlatformSafe` (in the box, within every limit of the previous command),
  `TrajectoryIsWhatRan`, `PolicyIsUpToDate` (each message and each guard modification is
  shown to the policy once, in order, at the next inference), `StopIsHonoured`,
  `OneReplanPerClamp`, `EndIsTrue`, `ConsoleBracketed`, `KeepsTrialContract`.
- `eval_run`: `LeftParked` (however `eval()` is left, the platform was parked after it
  last moved, unless Ctrl-C), `NoTrialAfterHalt`, `HookHaltEscapes`, `VerdictIsEarned`,
  `ListsAreParallel`.
- `eval_set`: `AdmissionIsBounded`, `StopIsObserved`, `HaltOutlivesCleanup`,
  `NothingLeftBehind` (no task runs or holds a component when `eval_set` is left, but by a Ctrl-C that
  lands in the executor's join), and `SetEnds` as liveness.
- `sinks`: `RecordSurvives` (a run whose log could not be written keeps its snapshot),
  `NoStaleSnapshot` (no other snapshot outlives the command), `SnapshotIsCurrent`,
  `MessagesReachAll` (the latch of a message hook that failed neither starves the others nor
  outlives its trial).

- `attended`: `EndsAreAsked` (a bare Esc ends the episode once, an arrow key never, however its
  bytes are split and whichever thread settles the grace); `OnlyThisTrial` (nothing typed in one trial
  reaches the policy in another, and a prompt reads alone; an utterance is heard only in the trial in
  which its gate opened, `begin_trial()` leaves no older block in the queue, and at most one enters the
  segmenter after it); `DevicesReleased` (microphone and speaker are closed by whoever gets there, but for
  a stream that a worker opens in a write `close()` no longer waits for; a cancelled note is silent within
  a chunk); `ShownAsRecorded` (each snapshot is shown, queued, counted as dropped or one whose emit
  raised, which is warned about once; counts are reported when the worker is shut down; each worker
  generation draws in order; a page that passes for fresh is of the log on disk).
- `plugins`: `AnswersAreTheirOwn` (late service responses, stale topics, replies to abandoned
  requests); `MotionsAreAsDeclared` (steps within the speed budget over a chain of moves, unnamed
  dimensions stay at the tools' own waypoint that played last, declared widths); `WireKeepsHistory` (the model is told
  everything exactly once through lost sockets and chains, and nothing is submitted after a generation
  whose acceptance was answered); `NarratesOwnTrial` and `RefusedIsVisible` (the agent's memory of what it owes and what it
  showed); `KeysStayHome`; `CommandsLeaveRigs` (one driver per rig, nothing left open, never unguarded
  in silence); `JudgementsCount` (re-scoring, the last correction, the export).

Fairness. `Rollout`: weak fairness of the thread's own steps, that is, every component
call returns or raises; Ctrl-C is never owed. `EvalSet`: weak fairness of the calling
thread and of each task's thread; a call that blocks for ever is excluded, as the comment
at `_parallel.py:75` does. `EvalRun`, `Sinks` and
the modules of `attended` and `plugins` state safety only. `rollout`, `eval_run`, `eval_set` and
`sinks` check for deadlock: their only states without progress are the final ones, which stutter
in `Done`. `attended` and `plugins` do not: a subject stops when its device is closed or its
bound on keys, messages or requests is reached.

### What the documentation says and the code does not do

- `eval_cancel`: a sink that fails at the end of a cancelled trial replaces the
  `KeyboardInterrupt` and leaves no log (`eval.py:1225`; against `eval.py:609`).
- `eval_halt_log`: a halt of the `park()` that precedes another exception leaves `eval()`
  without a log (`eval.py:1519`; against `docs/guide/policies-and-embodiments.md:252`).
- `eval_set_stop`: in a sequential set, an owned embodiment whose `close()` raises turns a
  halt or Ctrl-C into an error row, and the next task starts (`eval.py:726`; against
  `eval.py:1653`). The worker threads are protected by `HaltPreservingExitStack`.
- `sinks_retained`: a snapshot kept because its log could not be written is deleted by a later
  run whose `on_eval_start` fails before it has a path of its own: `on_eval_end` unlinks the
  file `path` still names (`live_log.py:264`; against the comment at `eval.py:470`).
  `RecordSurvives` holds because it sets this case aside.

- `voice_closed_twice`: `close()` reads and clears the capture in two statements without the lock;
  a worker that fails in between takes the same capture under it, and both close the stream
  (`_input.py:147`; against `_input.py:175`). `MicrophoneReleased` says it is closed at least
  once; this run, that it may be twice.
- `voice_stale_audio`: a block the worker had already taken when `begin_trial()` drained the queue
  is pushed into the new trial's segmenter (`_input.py:196`; against `_input.py:190`).
  `SpokenInThisTrial` does not say otherwise: it speaks of the trial in which the gate opened, and
  bounds such audio by one block.

Disagreements that the models show without a run of their own, since a property sets each aside:

- a Ctrl-C in the executor's `__exit__`, the join of the worker threads (`_parallel.py:79`), leaves
  `eval_set` with tasks still running, where `_parallel.py:73` and `eval.py:1685` say that active tasks
  finish first (`joinCut` in `NothingLeftBehind`);
- `SpeakerSink.close()` is to "close audio resources" (`_speaker.py:261`); a worker that outlives the
  join's timeout in the middle of a write opens a stream again, which stays open (`outlived` in
  `SpeakerReleased`).

More that a reader of the models should know of, where no document says otherwise. A POST to
`/interactions` whose reply was lost is retried without an idempotency key, so a generation the provider
took may be bought twice; `_interactions.py:190` promises only that polling never resubmits one
(`NotResubmitted`). After its first warning the Rerun sink neither counts nor mentions an emit that
raises. What the tools call the last target commanded is their own: after a guard rewrote a waypoint the
next call asks for the waypoint again (`tools.py:294-322`). A Ctrl-C between the bind of the viewer's
socket and its `try` leaves the socket to the end of the process (`InterruptedUnserved`). A page whose writing is cut short, or whose stamp could not be set, passes for fresh
(`NoStalePage` sets the first aside). `score --out` copies an annotations file that may have grown
since it was scored; `ExportAgrees` speaks of re-scoring from the copy. A serial `run` or
`eval-set` does not close its policy, only the parallel form does (`OpenedBy` in `CliRun`).

## 4. Proofs

About `Rollout`, for every value of its constants that satisfies `BoxAssumption` and
`RolloutAssumption`, which only say what their types are and that a chunk without actions
carries a terminal (`action_manager.py` refuses an empty chunk otherwise).

- `RolloutProofs.TypeCorrect`: `Spec => []TypeOK`. It includes that both cursors stay
  within their lists and `t` within the budget, so it needs no strengthening.
- `RolloutProofs.PlatformIsSafe`: `Spec => []PlatformSafe`. `PlatformSafe` speaks of
  executed actions and is not inductive: the strengthening follows the action through the
  chain (after member `m`, `cur` satisfies what the members before `m` establish) and ties
  `reference` to the last executed command once the chain has a limiter. The key lemma is
  that a clip towards the reference keeps an action inside a box that contains the
  reference, which is why a limiter after the clamp cannot leave the box.
- `RolloutProofs.TrajectoryIsFaithful`: `Spec => []TrajectoryIsWhatRan`, from how `pc`,
  `t`, `steps` and `executed` advance together.
- `RolloutProofs.RolloutImplementsTrial`: `Spec => Contract!TrialSafety`; every step is
  a `Command`, a `Finish` or a stutter.
- `RolloutProofs.ConsoleIsBracketed`: `Spec => []ConsoleBracketed`. The invariant says at which
  calls of the loop the input is open, closed or failed, so that every way out passes
  `end_trial()` exactly if `begin_trial()` returned.
- `RolloutProofs.EndsAreTrue`: `Spec => []EndIsTrue`, from what has to hold between the step that
  decided the end and the return: the verdict of the embodiment, the stop the policy declared and the
  horizon are told apart before any of them is acted on.
- `RolloutProofs.PolicyAlwaysUpToDate`, `StopAlwaysHonoured`: the action properties
  `PolicyIsUpToDate` and `StopIsHonoured`. The first needs that both cursors only grow and that what was
  shown is the prefix they point at; the second follows a declared stop from the chunk into the buffer
  and to the action that is the last of it.
- `RolloutProofs.ClampsPayForReplans`: `Spec => []OneReplanPerClamp`. Clamps and replans are counted
  apart, and the inequality is kept because the fired trigger names the chunk it was fired for.

About `EvalRun`, in `EvalRunProofs`, for any number of scenes and epochs and any `fail_on_error`
(`EvalRunAssumption`). The invariant is the conjunction of what is known at each `pc`:

- `TypesHold`: `TypeOK`, where the counters are bounded by the plan. It needs that a trial in flight has
  not been counted yet.
- `ParkedWhenLeft`: `Spec => []LeftParked`. The platform is either parked since it last moved, or `pc` is
  before a `park()` that no exit can avoid; Ctrl-C is set aside by the property, as by the code.
- `HaltEndsTheRun`: the action property `NoTrialAfterHalt`. Once a halt is recorded the loop is on its way
  out, and no call on that way is a rollout.
- `HookHaltsEscape`: the exception that leaves is the hook's, because what is raised after it in the
  clean-up is never ranked above it; the close of an owned embodiment is the exception the property states.
- `VerdictEarned`: the log's status against what happened, counter by counter.
- `ListsParallel`: `Spec => []ListsAreParallel`. That every counted trial is in some scene's lists is a
  count over a sequence of samples, proved by induction on its length.

About `Sinks`, in `SinksProofs`, for every number of runs, trials and deltas and every order in which
sinks of any kind are given (`SinksAssumption`). One invariant carries the five theorems `TypesHold`,
`RecordsSurvive`, `StaleSnapshotsGo`, `SnapshotsAgree` and `MessagesArrive`:

- `Streaming` ties a snapshot's file to the fields of the live sink, `Publishing` and `Published` the
  file's content to the hook being offered: stale before the live sink was served, current after.
- `Recording` says that the run whose log could not be written is one whose snapshot is
  still on disk, and not to be unlinked by what is yet to come. `Excusing` carries the latches of the
  message hooks.
- `Served` and `Started` are positions in the order of service. What has to be known of that order is
  `OrdersKnown`: the live sink is in it once, and every critical sink comes before it. It is proved by
  induction over the list of sinks: the order is made by filtering the list by kind, and `OfKinds` writes
  the filter out as a recursive function, because the standard one cannot be expanded by the prover. The
  library's induction theorems take an operator, which the provers cannot instantiate, so the least
  counterexample is taken instead. `NumberProofs` proves once what all such arguments need, from the
  well-foundedness of the order on finite sets: `LeastNumber`, `GreatestNumber`, `UpToInduction` (a
  set of numbers that has 0 and is closed under successor up to a bound), and, for a fold written
  as a recursive function over `0..n`, that the function exists (`FoldExists`) and stays in a
  set its steps stay in (`FoldTyped`).

About `EvalSet`, in `EvalSetProofs`, for every number of tasks and set of worker counts
(`EvalSetAssumption`: positive numbers). One inductive invariant, `IInv`, carries the four
properties, none of which is inductive alone:

- `TypeOK` and `Where` (which control states belong to which mode, and that an exception
  leaving the set has left the loop); with `StartIsInOrder` they give `TypeCorrect`.
- `Places` counts. While waiting, the pending futures are at most `workers`; while
  admitting, the pending ones and those just observed are, which is why admitting as many as
  were observed is enough. `Flight` says what is in flight is among the pending, so the
  bound on futures bounds threads and embodiments: `AtMostWorkersInFlight`.
- `Ended` says that a task neither pending nor to come has ended without an exception as
  long as nothing is leaving the set; `Holding` what a task has open at each stage. Together:
  `SetLeavesNothing`, the executor's join cut short by Ctrl-C being the case the property sets aside.
- `Halting`: a worker that has seen a halt carries one through its closes. With `Ended`, the set
  cannot return: `HaltReachesTheCaller`. `Places` gives the action property
  `ResultsBeforeAdmission`.

About `OperatorSession`, in `AttendedProofs`, for any number of trials, keys and waits
(`SessionAssumption`). Two threads read one terminal, and what each has taken, what the line editor
holds, what is queued and what the rollout was given are tied together by one invariant:

- `Buffers` says of every byte, wherever it is, in which trial it was typed; `Windows` and `Places`, at
  which points of the trial's begin and end the pump runs and the editor is drained. With `Heard`, what
  was heard in a trial was typed in it, and a prompt reads alone.
- `Asked` counts. An end of the episode that was asked for is paid by an Esc, and so is one that may
  still be asked for: the grace that is running (`Grace`), and every Esc among the bytes on their
  way. The editor is a fold over the bytes of a read; that it conserves this balance is proved
  by taking the first byte at which it would not. `EndsAreAskedAlways`: `[]EndsAreAsked`.

About `MCAttended`, in `AttendedProofs`: `AttendedTypes`, `OnlyThisTrialAlways`,
`DevicesReleasedAlways` and `ShownAsRecordedAlways` are the four safety properties of run
`attended`, for the composition. Its invariant is that of `OperatorSession` and one per module:

- `VoiceInv`. The generation the worker holds is never later than the one its gate opened in, so that a
  stamp equal to the present generation makes them equal (`GenInv`); the capture is in the input's,
  `close()`'s or the worker's hands until someone has closed it (`MicInv`). `AudioFresh`: once the queue was
  drained it holds blocks of this trial only, so the one block of an earlier trial that may still enter the
  segmenter is the one in the worker's hands. `SpeechStaysInTrial` and
  `MicrophoneIsClosed` state the two for `VoiceInput` alone.
- `SpeakerInv`: `SpeakerCounts` says that a note that is cancelled sounds for one chunk more at most,
  `SpeakerNotes` that the queue holds notes of one delta while the caller waits for each,
  `SpeakerStreams` that the worker, and with it the stream it opens, is the sink's until `close()` has
  stopped waiting; after that only a worker that was then in a write opens one.
- `RerunInv` gives each snapshot a serial number. `RerunCount` accounts for them: shown, queued, dropped,
  reported, failed or in a worker's hands; `RerunTold` for the reports and the warning. `SerialsRise` orders the queue, `AllTaken` says that whatever has left it is
  older than what is in it, `NoneTwice` that no two workers have, or showed, the same. `Lives`
  and `Stragglers`: a worker of an earlier evaluation is disowned or gone, and shows one more at most.
- `ReportInv` ties a page's stamp to the version of the log it was read from. `Stamping` is the reason a
  page cannot pass for fresh wrongly: the time is read before the log.

The assumptions are that bounds and sizes are numbers, and that the Rerun queue has room for
one snapshot (`rerun_sink.py:234` refuses less).

About `MCPlugins`, in `PluginsProofs`, whose theorems speak of the composition:

- `AnswersAlwaysTheirOwn`. For the ROS arm (`RosInv`): `Calling` says that the waiting call's
  identifier is the last one issued, so that a late response to an earlier one cannot match it;
  `Received` and `Fresher`, that sequence numbers of a topic only grow and that an observation's exceed
  what had been received when its command went out. For xpolicylab (`XInv`): `XFrames` says that the
  frames in both directions carry identifiers of requests really made, and one that has the identifier
  of the request that waits is of its trial; `Bracketed`, that the trial that is open is the newest,
  begun at the server and not ended there, on whichever connection.
- `MotionsAlwaysAsDeclared`. For capx (`CInv`): the number of steps is distance over budget rounded up, so
  each step is within the budget, and `CMoves` ties the end of the last queued move to the cursor the next
  one starts from. For the agent's tools (`TInv`): `TKept` says that the settled target and
  the waypoint that played last agree between two calls, which is when a tool that names some
  dimensions reads it; while a chunk plays, the held target and the motion in flight determine what that
  waypoint will be after each action. For xpolicylab: `XChunk`.
- `WireAlwaysKeepsHistory`. `WInv` says of the five wires at once: the messages of a conversation carry
  their positions and each result names a call of the last reply (`Conversation`); what was streamed is a
  prefix of the conversation, and the provider was told everything up to the last reply and
  can name what it called (`CaughtUp`), unless the next request is to be a repair that folds the
  whole conversation into one message (`Streaming`). A lost session therefore leaves nothing to
  be told twice: either its memory is gone and a repair is due, or nothing was lost.
  `HeardLast`: the attempt whose acceptance was answered is the last one submitted.
  `RawKept` is the replayed items of the stateless wires, `RowsKept` the numbering of the capture.
- `NarrationStaysInTrial` (`ActInv`): `NarratesOwnTrial` speaks of observations while the model is asked;
  `Owing` says what is owed while a chunk plays, nothing before the first look, and a motion or sleep of
  this trial after it.
- `RefusalsAreVisible` (`LooksInv`): `Spec => RefusedIsVisible` for the agent. A turn is a fold over the
  calls the model made (`Performed`), and the property is about every turn: `SeenSoFar` is what holds
  after each call, that nothing is shown or refused before the call that closes the turn, and what is
  refused was revealed before the turn and passed `Seen`. `ARevealed` says that a revealed camera has a
  frame of this very look among the frames, `AFrames` that looks only grow along them; the frames an
  image horizon keeps are a suffix, so a camera with a frame there has the newest one there
  (`SeenIsInView`). This is where a test on the labels of old frames, as the code makes it, is enough.
- `EveryKeyStaysHome`, with no assumption on the options. There is one step, and the proof is the case
  analysis: an endpoint the operator gave, one of Google's two own wires, a claiming provider,
  OpenRouter. The run enumerates some 11,000 records; the theorem needs none of its choices.
- `RigsAreLeft` (`CliInv`). The invariant is command by command except for `Exclusive`, that no
  device is locked twice. `Claiming` ties the locks to the stage: a prefix of the devices while claiming,
  all of them (`Covers`) from then on until the embodiment is closed, which `FirstIsHeld` shows is before
  the claim is given back. `Announcing` carries what the guards step decided to the evaluation. Commands
  may be killed at any point.
- `PluginTypesHold`: `PSpec => []PluginsTypeOK`. For the constructor this is that no client is built
  for the endpoint of a provider that could not be resolved, route by route (`SetupTypedStep`).
- `SubjectsKeepTheirOwn` carries `NarratesOwnTrial`, `KeysStayHome`, `CommandsLeaveRigs`,
  `JudgementsCount` and `RefusedIsVisible` to the composition: whichever part is the subject, the
  invariants of the others stand still.

About `Judging`, in `JudgingProofs`, for every set of rubrics, grader and reducer, any number of scenes,
editors and corrections: `JudgementsAlwaysCount`, `JudgeSpec => []JudgementsCount`. `JudgementsCount`
relates a log, its annotations file and what a re-scoring would give, and only one of its parts is
kept by the steps; the rest follows from an invariant, `JudgeInv`, about what was written:

- `SavedInv`: the saved log is the account of its own scores, and each score is one its trial's grade
  allows. With `RescoreIsAccount`, re-scoring is accounting afresh for any annotations: what
  `_rescore_sample` leaves alone when no trial's score changed is what it would compute again.
- `FileOK`: line `n` of the file retires nothing, the run's own judgement of its rubric, or an earlier
  line for the same trial and rubric (`Retires`), never another one's. A draft an editor has read but not
  appended keeps this while the other editor appends (`StillFollows`), as lines are only added.
- From it `LastLineCounts`: of the lines for a trial and a rubric the last is never retired, so it is
  what `Current` returns, however the editors' reads and appends interleave. `RunCountsUncorrected`: with
  no line for it, the run's judgement counts.
- `UneditedStays`: with no corrections the scores read back from a log are those it was saved with,
  for every grader and whatever it left on the record; this is what lifting an error beside a verdict
  that is for one rubric only is for.

The annotation that counts is written with positions (`Newest`, the greatest line of those chosen)
where the code filters a list, so that the provers can speak of it.

What is assumed of the constants is what the constructors refuse otherwise: a box whose low is not above
its high (`spaces.py:107`), a positive step (`spaces.py:76`), at least one attempt (`policy.py:508`),
limits and widths that are numbers, and lists that are numbered from one (`RosAssumption`,
`XAssumption`, `CapAssumption`, `ToolsAssumption`, `WireAssumption`, `JobsAssumption`, `ActAssumption`,
`JudgingAssumption`). `JudgingAssumption` and `SetupAssumption` add that no rubric and no endpoint an
operator gives is the value that stands for its absence.

Only model-checked: the liveness part of `KeepsTrialContract`, and `SetEnds`. Fairness and ENABLED are
out of the prover's reach. Every other property of a passing run is a theorem; a run that expects a
violation is a counterexample and needs none.

## 5. Not modelled, and the plan

Not modelled because there is no state to interleave: rendering (`_html.py`, `_html_index.py`,
`_video.py`, `_summarize.py`, `analyzer.py`), the set-up wizard, which writes one file from prompts,
the registry, tasks, spaces and compatibility, the data classes of the log, and `list`, `inspect`
and `tasks` of the command line. The isaacsim embodiment is a wrapper around a simulator with no
state of its own.

Left out of the modules, by part:

- `Rollout`: action dimensions beyond one, what the frame store writes (that it fails is modelled),
  latencies, the ensembling manager.
- `EvalRun`: side-car files (their failures only warn), the reducers' arithmetic, the text of the log.
- `Sinks`: the `bind` hooks, an interrupt inside the live sink's own write, the throttle's clock
  (a throttled write is written or not).
- `OperatorSession`: editing keys within a line and how the rows are drawn.
- `VoiceInput`, `Speaker`: the models, resampling, loudness; an open utterance is at most a few blocks.
- `RosArm`: joint arithmetic, images, the bridge's encodings. `XPolicy`: frame encodings.
- `CapxPolicy`: the prompt, grasp geometry. The servers' retries under one deadline are modelled; no
  property but the type invariant speaks of them.
- `AgentWire`: the encodings, usage, and where the `responses` and Messages clients put cache
  breakpoints; the Live client reads one answer per exchange, not what an earlier exchange left in the
  socket. `AgentAct`: the prompt and the wording of observations.
- `CliRun`: where a lock file lives, and which grader the options select (`_select_grader_name`). `Judging`: score arithmetic beyond yes and no.

Next, in this order:

1. Liveness of the threads around a trial under weak fairness of each: `close()` of the microphone
   and of the speaker returns, the echo pump is joined, a disowned Rerun worker never holds up the end
   of an evaluation.
2. An abstract conversation that `AgentWire` implements on every wire, in place of
   `AnswerSeesHistory`.
3. `compat.py` and `spaces.py` as operators, against a reference definition over small spaces.
