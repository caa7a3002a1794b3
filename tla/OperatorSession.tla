--------------------------- MODULE OperatorSession ---------------------------
(***************************************************************************)
(* session.py and console.py: the operator's terminal during an attended   *)
(* run.  Two threads share one line editor: the rollout's, which polls,    *)
(* and the echo pump's, which lives from begin_trial() to end_trial().     *)
(* Between trials the terminal is in its own mode and the same stdin is    *)
(* read by blocking prompts.                                               *)
(*                                                                         *)
(* A byte is what it does to the editor and, for text, the trial it was    *)
(* typed in (0 outside any): what is on a line is the set of those trials. *)
(* The bytes of one key may arrive in two reads, but within the grace.     *)
(***************************************************************************)
EXTENDS Integers, Sequences, FiniteSets

CONSTANTS
    Sessions,   \* bound: trials of the run
    MaxKeys     \* bound: keys the operator presses

ASSUME SessionAssumption == Sessions \in Nat /\ MaxKeys \in Nat

VARIABLES
    app,        \* where the rollout thread is
    sTrial,     \* the trial in progress, or the last one
    keys, fd, tail, hup,   \* keys pressed; bytes readable; not yet arrived; hung up
    footer, raw,           \* _footer_active; the terminal is in cbreak mode
    editor,                \* the line editor: its line, _escape_pending, _csi_discard
    lines,                 \* _line_queue
    pumpEof,               \* _pump_eof
    stamp,                 \* _esc_stamp: not armed, armed, or armed longer than the grace
    statusOpen,            \* _status_open
    lock, fed,             \* who holds the lock, and whether its pump was fed
    pump, stopEvent, handle,  \* the echo thread, its stop event, _pump_thread is not None
    pumpError,             \* _pump_error
    consoleEof, partial,   \* the console's _eof and _buffer
    voice,                 \* the attached input is healthy
    verdict,               \* of the last trial: its judgement, its note, its event
    escs, ends,            \* Esc keys pressed; end requests the editor made
    loose,                 \* Ctrl-C left a pump behind: in its start, or in its join
    heard                  \* the lines delivered as messages in the trial

keyboard == <<keys, fd, tail, hup, escs>>
window == <<footer, raw, statusOpen>>
editing == <<editor, lines, pumpEof, stamp, ends>>
threads == <<lock, fed, pump, stopEvent, handle, pumpError, loose>>
console == <<consoleEof, partial, voice, heard>>
sessionVars == <<app, sTrial, keyboard, window, editing, threads, console, verdict>>

EmptyEditor == [line |-> {}, esc |-> FALSE, csi |-> FALSE]
NoVerdict == [judgement |-> "none", note |-> FALSE, event |-> FALSE]
END == {-1}     \* END_SENTINEL, a line of its own

SInit ==
    /\ app = "gate" /\ sTrial = 0
    /\ keys = 0 /\ fd = <<>> /\ tail = <<>> /\ hup = FALSE /\ escs = 0
    /\ footer = FALSE /\ raw = FALSE /\ statusOpen = FALSE
    /\ editor = EmptyEditor /\ lines = <<>> /\ pumpEof = FALSE /\ stamp = "none" /\ ends = 0
    /\ lock = "free" /\ fed = FALSE /\ pump = "off" /\ stopEvent = FALSE /\ handle = FALSE
    /\ pumpError = FALSE /\ loose = FALSE
    /\ consoleEof = FALSE /\ partial = {} /\ voice = TRUE /\ heard = {}
    /\ verdict = NoVerdict

----------------------------------------------------------------------------
\* The operator. Text is tagged with the trial whose window is open.

InTrial == app \in {"trial", "settling", "reading", "merging", "ended"} \/ (app = "draining" /\ footer)
Tag == IF InTrial THEN sTrial ELSE 0
Byte(k) == [k |-> k, t |-> Tag]
KeyBytes ==
    [Esc |-> <<"esc">>, Arrow |-> <<"esc", "[", "final">>, Enter |-> <<"newline">>,
     Text |-> <<"text">>, CtrlU |-> <<"kill">>]

Press(key) ==
    /\ keys < MaxKeys /\ tail = <<>> /\ ~hup
    /\ keys' = keys + 1
    /\ escs' = IF key = "Esc" THEN escs + 1 ELSE escs
    /\ \E n \in 1..Len(KeyBytes[key]) :
         LET bytes == [i \in DOMAIN KeyBytes[key] |-> Byte(KeyBytes[key][i])]
         IN  fd' = fd \o SubSeq(bytes, 1, n) /\ tail' = SubSeq(bytes, n + 1, Len(bytes))
    /\ UNCHANGED <<app, sTrial, hup, window, editing, threads, console, verdict>>

TailArrives ==
    /\ tail # <<>> /\ fd' = fd \o [i \in DOMAIN tail |-> Byte(tail[i].k)] /\ tail' = <<>>
    /\ UNCHANGED <<app, sTrial, keys, hup, escs, window, editing, threads, console, verdict>>

HangUp ==
    /\ ~hup /\ tail = <<>> /\ hup' = TRUE
    /\ UNCHANGED <<app, sTrial, keys, fd, tail, escs, window, editing, threads, console, verdict>>

\* The rest of a key that has begun to arrive comes within the grace, and a pump
\* is short beside it.
GraceElapses ==
    /\ stamp = "armed" /\ tail = <<>> /\ lock = "free" /\ stamp' = "elapsed"
    /\ UNCHANGED <<app, sTrial, keyboard, window, editor, lines, pumpEof, ends, threads,
                   console, verdict>>

----------------------------------------------------------------------------
\* The line editor: one byte, and a whole read.

Feed1(acc, b) ==
    LET e == acc.e  k == b.k
        Complete(line, ed) == [e |-> ed, out |-> Append(acc.out, line)]
        Becomes(ed) == [acc EXCEPT !.e = ed]
    IN  CASE e.csi -> Becomes(IF k \in {"[", "final", "text"} THEN [e EXCEPT !.csi = FALSE] ELSE e)
          [] ~e.csi /\ e.esc /\ k = "esc" -> Complete(END, e)
          [] ~e.csi /\ e.esc /\ k = "[" -> Becomes([e EXCEPT !.esc = FALSE, !.csi = TRUE])
          [] ~e.csi /\ e.esc /\ k = "newline" -> Complete(END, [e EXCEPT !.esc = FALSE])
          [] ~e.csi /\ e.esc /\ k \notin {"esc", "[", "newline"} -> Becomes([e EXCEPT !.esc = FALSE])
          [] ~e.csi /\ ~e.esc /\ k = "esc" -> Becomes([e EXCEPT !.esc = TRUE])
          [] ~e.csi /\ ~e.esc /\ k = "kill" -> Becomes([e EXCEPT !.line = {}])
          [] ~e.csi /\ ~e.esc /\ k = "newline" -> Complete(e.line, [e EXCEPT !.line = {}])
          [] OTHER -> Becomes([e EXCEPT !.line = e.line \cup {b.t}])

Feed(ed, bytes) ==
    LET fedUpTo[i \in 0..Len(bytes)] ==
            IF i = 0 THEN [e |-> ed, out |-> <<>>] ELSE Feed1(fedUpTo[i - 1], bytes[i])
    IN  fedUpTo[Len(bytes)]

EndsIn(out) == Cardinality({i \in DOMAIN out : out[i] = END})

\* _pump_input: everything readable goes to the editor.
PumpReads ==
    LET r == Feed(editor, fd)
    IN  /\ editor' = r.e /\ lines' = lines \o r.out /\ ends' = ends + EndsIn(r.out)
        /\ fed' = (fd # <<>>) /\ fd' = <<>> /\ pumpEof' = (pumpEof \/ hup)

\* Wrong on purpose: a read that resolves the escape leaves the grace armed
\* (breaks EndsAreAsked).
SettleArmed ==
    IF fed
      THEN stamp' = (IF editor.esc THEN "armed" ELSE stamp) /\ UNCHANGED <<editor, lines, ends>>
      ELSE IF stamp = "elapsed" /\ ~pumpEof
             THEN /\ stamp' = "none" /\ editor' = [editor EXCEPT !.esc = FALSE]
                  /\ lines' = Append(lines, END) /\ ends' = ends + 1
             ELSE UNCHANGED <<stamp, editor, lines, ends>>

\* _pump_input, after its reads: a pump that was fed arms or disarms the grace, a
\* quiet one tests it.
Settle ==
    IF fed
      THEN stamp' = (IF editor.esc THEN "armed" ELSE "none") /\ UNCHANGED <<editor, lines, ends>>
      ELSE IF stamp = "elapsed" /\ ~pumpEof
             THEN /\ stamp' = "none" /\ editor' = [editor EXCEPT !.esc = FALSE]
                  /\ lines' = Append(lines, END) /\ ends' = ends + 1
             ELSE UNCHANGED <<stamp, editor, lines, ends>>

----------------------------------------------------------------------------
\* The echo pump's thread. Its read and its settling are one hold of the lock; a
\* wait that has returned is followed by a pump whatever the stop event says.

PumpWakes ==
    /\ pump = "waiting" /\ ~stopEvent /\ pump' = "woken"
    /\ UNCHANGED <<app, sTrial, keyboard, window, editing, lock, fed, stopEvent, handle,
                   pumpError, loose, console, verdict>>

PumpPumps ==
    /\ pump = "woken" /\ lock = "free" /\ lock' = "pump" /\ pump' = "pumping"
    /\ PumpReads
    /\ UNCHANGED <<app, sTrial, keys, tail, hup, escs, window, stamp, stopEvent, handle,
                   pumpError, loose, console, verdict>>

PumpSettles ==
    /\ pump = "pumping" /\ Settle
    /\ pump' = "waiting" /\ lock' = "free"
    /\ UNCHANGED <<app, sTrial, keyboard, window, pumpEof, fed, stopEvent, handle, pumpError,
                   loose, console, verdict>>

\* A raising pump is stored and ends the thread.
PumpFails ==
    /\ pump = "pumping"
    /\ pumpError' = TRUE /\ pump' = "off" /\ lock' = "free"
    /\ UNCHANGED <<app, sTrial, keyboard, window, editing, fed, stopEvent, handle, loose,
                   console, verdict>>

PumpStops ==
    /\ pump = "waiting" /\ stopEvent /\ pump' = "off"
    /\ UNCHANGED <<app, sTrial, keyboard, window, editing, lock, fed, stopEvent, handle,
                   pumpError, loose, console, verdict>>

----------------------------------------------------------------------------
\* The ends of a window.

ResetFooterState ==
    /\ footer' = FALSE /\ statusOpen' = FALSE
    /\ editor' = EmptyEditor /\ lines' = <<>> /\ pumpEof' = FALSE /\ stamp' = "none"
    /\ pumpError' = FALSE

\* _restore_terminal, with the terminal it was saved from.
RestoreTerminal == raw' = FALSE /\ stopEvent' = (stopEvent \/ (raw /\ handle))

----------------------------------------------------------------------------
\* The rollout's thread.

\* gate(): stale input is flushed, then a line is read.
Gate ==
    /\ app = "gate" /\ sTrial < Sessions
    /\ fd' = <<>> /\ statusOpen' = FALSE
    /\ app' = IF hup THEN "exiting" ELSE "begin"
    /\ UNCHANGED <<sTrial, keys, tail, hup, escs, footer, raw, editing, threads, console, verdict>>

\* _try_enter_footer() stays plain, without a terminal or when cbreak mode fails.
StayPlain ==
    /\ app = "begin" /\ app' = "draining" /\ sTrial' = sTrial + 1
    /\ heard' = {} /\ verdict' = NoVerdict
    /\ UNCHANGED <<keyboard, window, editing, threads, consoleEof, partial, voice>>

\* _enter_footer(): it drains what was typed before the window, and starts the
\* echo thread. The handle is kept after the start only: Ctrl-C in the start, or a
\* start that fails, takes the abort path without it. An earlier thread that was
\* left behind is not followed beyond the start of a new one.
EnterFooter ==
    /\ app = "begin" /\ sTrial' = sTrial + 1 /\ heard' = {} /\ verdict' = NoVerdict
    /\ fd' = <<>>
    /\ \/ /\ app' = "draining" /\ footer' = TRUE /\ raw' = TRUE /\ statusOpen' = FALSE
          /\ editor' = EmptyEditor /\ lines' = <<>> /\ stamp' = "none"
          /\ pumpEof' = (pumpEof \/ hup)
          /\ pump' = "waiting" /\ stopEvent' = FALSE /\ handle' = TRUE
          /\ UNCHANGED <<pumpError, loose>>
       \/ /\ app' = "ending" /\ pump' \in {pump, "waiting"}
          /\ loose' = (loose \/ pump' # pump)
          /\ raw' = FALSE /\ ResetFooterState /\ UNCHANGED <<stopEvent, handle>>
    /\ lock' = (IF pump' = pump THEN lock ELSE "free")
    /\ UNCHANGED <<keys, tail, hup, escs, ends, fed, consoleEof, partial, voice>>

\* Wrong on purpose: text typed before the trial stays in the console's buffer
\* (breaks HeardInThisTrial).
DrainConsoleKeepingText ==
    /\ app = "draining" /\ lock = "free" /\ app' = "trial"
    /\ lines' = (IF footer /\ ~consoleEof THEN <<>> ELSE lines)
    /\ fd' = (IF ~footer /\ ~consoleEof THEN <<>> ELSE fd)
    /\ consoleEof' = (consoleEof \/ IF footer THEN pumpEof ELSE hup)
    /\ voice' \in {voice, FALSE}
    /\ UNCHANGED <<sTrial, keys, tail, hup, escs, window, editor, pumpEof, stamp, ends, threads,
                   partial, heard, verdict>>

\* The console's begin_trial(), under the lock, and the attached input's.
DrainConsole ==
    /\ app = "draining" /\ lock = "free" /\ app' = "trial"
    /\ lines' = (IF footer /\ ~consoleEof THEN <<>> ELSE lines)
    /\ fd' = (IF ~footer /\ ~consoleEof THEN <<>> ELSE fd)
    /\ partial' = (IF consoleEof THEN partial ELSE {})
    /\ consoleEof' = (consoleEof \/ IF footer THEN pumpEof ELSE hup)
    /\ voice' \in {voice, FALSE}
    /\ UNCHANGED <<sTrial, keys, tail, hup, escs, window, editor, pumpEof, stamp, ends, threads,
                   heard, verdict>>

\* status() and write_line() redraw under the lock, in a window.
ShowStatus ==
    /\ app = "trial" /\ (footer => lock = "free")
    /\ statusOpen' \in BOOLEAN
    /\ UNCHANGED <<app, sTrial, keyboard, footer, raw, editing, threads, console, verdict>>

\* poll(): an error of the echo thread is raised here, once, and the rollout
\* closes the console for the rest of the trial.
PollRaises ==
    /\ app = "trial" /\ lock = "free" /\ pumpError
    /\ pumpError' = FALSE /\ app' = "ending"
    /\ UNCHANGED <<sTrial, keyboard, window, editing, lock, fed, pump, stopEvent, handle, loose,
                   console, verdict>>

PollPumps ==
    /\ app = "trial" /\ lock = "free" /\ ~pumpError /\ footer
    /\ lock' = "rollout" /\ app' = "settling"
    /\ PumpReads
    /\ UNCHANGED <<sTrial, keys, tail, hup, escs, window, stamp, pump, stopEvent, handle,
                   pumpError, loose, console, verdict>>

\* What the console makes of complete lines: messages, and whether one ends the
\* trial; a blank line only earns the usage reminder.
Messages(ls) == {ls[i] : i \in DOMAIN ls} \ {END, {}}
Ended(ls) == \E i \in DOMAIN ls : ls[i] = END

\* The console's poll() in a window: the queued lines first, then the latch of EOF.
PollSettles ==
    /\ app = "settling" /\ Settle /\ app' = "reading"
    /\ UNCHANGED <<sTrial, keyboard, window, pumpEof, threads, console, verdict>>

PollReads ==
    /\ app = "reading" /\ lock' = "free"
    /\ consoleEof' = (consoleEof \/ pumpEof)
    /\ IF consoleEof THEN UNCHANGED <<heard, lines>> /\ app' = "merging"
       ELSE /\ heard' = heard \cup Messages(lines) /\ lines' = <<>>
            /\ app' = IF Ended(lines) THEN "ended" ELSE "merging"
    /\ UNCHANGED <<sTrial, keyboard, window, editor, pumpEof, stamp, ends, fed, pump, stopEvent,
                   handle, pumpError, loose, partial, voice, verdict>>

\* The console's poll() without a window: the terminal's own line discipline has
\* taken care of editing, and what is left of an unfinished line is kept.
Plain1(acc, b) ==
    IF b.k = "newline" THEN [line |-> {}, out |-> Append(acc.out, acc.line)]
                       ELSE [acc EXCEPT !.line = acc.line \cup {b.t}]

ReadPlain(line, bytes) ==
    LET readUpTo[i \in 0..Len(bytes)] ==
            IF i = 0 THEN [line |-> line, out |-> <<>>] ELSE Plain1(readUpTo[i - 1], bytes[i])
    IN  readUpTo[Len(bytes)]

PollPlain ==
    /\ app = "trial" /\ lock = "free" /\ ~pumpError /\ ~footer
    /\ app' = "merging"
    /\ IF consoleEof THEN UNCHANGED <<fd, partial, heard, consoleEof>>
       ELSE LET r == ReadPlain(partial, fd)
            IN  /\ fd' = <<>> /\ heard' = heard \cup Messages(r.out)
                /\ consoleEof' = hup /\ partial' = IF hup THEN {} ELSE r.line
    /\ UNCHANGED <<sTrial, keys, tail, hup, escs, window, editing, threads, voice, verdict>>

\* Attached inputs are merged outside the lock; one that raises is detached, and
\* saying so takes the lock again.
Merge ==
    /\ app \in {"merging", "ended"} /\ app' = IF app = "ended" THEN "ending" ELSE "trial"
    /\ voice' \in {voice, FALSE} /\ (voice' # voice /\ footer => lock = "free")
    /\ UNCHANGED <<sTrial, keyboard, window, editing, threads, consoleEof, partial, heard, verdict>>

\* However the trial ends, rollout() calls end_trial().
TrialEnds ==
    /\ app \in {"trial", "merging", "draining"} /\ app' = "ending"
    /\ UNCHANGED <<sTrial, keyboard, window, editing, threads, console, verdict>>

\* end_trial() stops and joins the echo thread, then clears the rows and restores
\* the terminal.
StopPump ==
    /\ app = "ending"
    /\ IF handle THEN stopEvent' = TRUE /\ app' = "joining"
                 ELSE app' = "clearing" /\ UNCHANGED stopEvent
    /\ UNCHANGED <<sTrial, keyboard, window, editing, lock, fed, pump, handle, pumpError, loose,
                   console, verdict>>

\* Wrong on purpose: end_trial() does not wait for the thread (breaks PromptReadsAlone).
JoinNothing ==
    /\ app = "joining" /\ handle' = FALSE /\ app' = "clearing"
    /\ UNCHANGED <<sTrial, keyboard, window, editing, lock, fed, pump, stopEvent, pumpError,
                   loose, console, verdict>>

JoinPump ==
    /\ app = "joining" /\ pump = "off" /\ handle' = FALSE /\ app' = "clearing"
    /\ UNCHANGED <<sTrial, keyboard, window, editing, lock, fed, pump, stopEvent, pumpError,
                   loose, console, verdict>>

\* Ctrl-C in the join: the rows are abandoned, the terminal is restored. Where
\* the call was made in the trial, rollout()'s finally clause makes it again.
JoinInterrupted ==
    /\ app = "joining" /\ loose' = TRUE
    /\ ResetFooterState /\ RestoreTerminal
    /\ app' \in {"ending", "exiting"}
    /\ UNCHANGED <<sTrial, keyboard, ends, lock, fed, pump, handle, console, verdict>>

\* Clearing the rows may raise; the state is reset and the terminal restored.
ClearRows ==
    /\ app = "clearing" /\ app' \in {"judge", "exiting"}
    /\ IF footer THEN ResetFooterState /\ RestoreTerminal
                 ELSE UNCHANGED <<window, editor, lines, pumpEof, stamp, pumpError, stopEvent>>
    /\ UNCHANGED <<sTrial, keyboard, ends, lock, fed, pump, handle, loose, console, verdict>>

\* prompt_verdict(): a verdict of the console or the embodiment is adopted;
\* otherwise an answer and a note are read, and EOF leaves none.
PromptVerdict ==
    /\ app = "judge" /\ app' = "gate"
    /\ statusOpen' = FALSE
    /\ \/ verdict' = [judgement |-> "console", note |-> FALSE, event |-> FALSE] /\ UNCHANGED fd
       \/ verdict' = [judgement |-> "embodiment", note |-> FALSE, event |-> TRUE] /\ UNCHANGED fd
       \/ fd' = <<>> /\ UNCHANGED verdict
       \/ /\ fd' = <<>> /\ ~hup
          /\ \E answer \in {"answer", "skip"}, note \in BOOLEAN :
               verdict' = [judgement |-> IF answer = "skip" THEN "none" ELSE answer,
                           note |-> note, event |-> answer # "skip" \/ note]
    /\ UNCHANGED <<sTrial, keys, tail, hup, escs, footer, raw, editing, threads, console>>

\* The interpreter exits: the crash net restores the terminal.
AtExit ==
    /\ app = "exiting" \/ (app = "gate" /\ sTrial = Sessions)
    /\ app' = "gone" /\ RestoreTerminal
    /\ UNCHANGED <<sTrial, keyboard, footer, statusOpen, editing, lock, fed, pump, handle,
                   pumpError, loose, console, verdict>>

SNext ==
    \/ /\ app # "gone"
       /\ \/ \E key \in DOMAIN KeyBytes : Press(key)
          \/ TailArrives \/ HangUp \/ GraceElapses
          \/ PumpWakes \/ PumpPumps \/ PumpSettles \/ PumpFails \/ PumpStops
          \/ Gate \/ StayPlain \/ EnterFooter \/ DrainConsole \/ ShowStatus
          \/ PollRaises \/ PollPumps \/ PollSettles \/ PollReads \/ PollPlain \/ Merge
          \/ TrialEnds \/ StopPump \/ JoinPump \/ JoinInterrupted \/ ClearRows
          \/ PromptVerdict \/ AtExit
    \/ app = "gone" /\ UNCHANGED sessionVars

SessionSpec == SInit /\ [][SNext]_sessionVars

----------------------------------------------------------------------------
\* Properties.

Lines == (SUBSET (0..Sessions)) \cup {END}

SessionTypeOK ==
    /\ app \in {"gate", "begin", "draining", "trial", "settling", "reading", "merging", "ended", "ending",
                "joining", "clearing", "judge", "exiting", "gone"}
    /\ sTrial \in 0..Sessions /\ keys \in 0..MaxKeys /\ escs \in 0..MaxKeys
    /\ \A s \in {fd, tail} : \A i \in DOMAIN s : s[i].t \in 0..Sessions
    /\ {hup, footer, raw, statusOpen, pumpEof, fed, stopEvent, handle, pumpError,
        consoleEof, voice, loose} \subseteq BOOLEAN
    /\ editor.line \subseteq 0..Sessions /\ {editor.esc, editor.csi} \subseteq BOOLEAN
    /\ \A i \in DOMAIN lines : lines[i] \in Lines
    /\ stamp \in {"none", "armed", "elapsed"} /\ ends \in 0..MaxKeys
    /\ lock \in {"free", "pump", "rollout"}
    /\ pump \in {"off", "waiting", "woken", "pumping"}
    /\ partial \subseteq 0..Sessions /\ heard \subseteq SUBSET (0..Sessions)

\* The editor asks for the end of the episode at most once for each Esc key, and
\* never for an arrow key, however the key's bytes are split over reads of the
\* two threads and whichever of them settles the grace. A pump that Ctrl-C left
\* behind competes with the prompts for the bytes, and is excepted.
EndsAreAsked == ~loose => ends <= escs

\* A message delivered to the policy holds nothing that was typed outside its
\* trial, in a window or without one, also when the line was begun before it.
HeardInThisTrial == \A line \in heard : line \subseteq {sTrial}

\* When a blocking prompt reads stdin the terminal is in its own mode, no window
\* is open and no echo thread reads with it, unless Ctrl-C left one behind.
PromptReadsAlone ==
    app \in {"gate", "judge"} => ~raw /\ ~footer /\ (pump = "off" \/ loose)
=============================================================================
