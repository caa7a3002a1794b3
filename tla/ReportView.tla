---- MODULE ReportView ----
(* `view` over a directory of logs while runs write there: passes that       *)
(* render one page per log and an index, incrementally, and the serving      *)
(* loop that repeats them.  A run's live snapshot comes, is replaced, and    *)
(* disappears when its log is written, between any two steps of a pass.      *)
(* What a page looks like is left out; a page is the version it was made of. *)
EXTENDS Integers, SequencesExt

CONSTANTS
  Runs,      \* runs logging into the directory
  MaxWrites, \* bound on writes of log files
  MaxPasses, \* bound on passes
  Baseline   \* ticks between passes of an idle directory

ASSUME ReportAssumption == IsFiniteSet(Runs) /\ {MaxWrites, MaxPasses, Baseline} \subseteq Nat

VARIABLES
  files,   \* mtime of each log file, 0 when absent
  writes,  \* writes so far; the clock
  pages,   \* [ver, stamp, tier, finished] of each page
  view,    \* the command: [mode, tier, force, passes, ticks, live, asked, server, signal]
  vpc,     \* what it does
  work,    \* the pass: [todo, globbed, seen, read, moved, failed]
  rows,    \* index entries built so far
  index    \* the index written

reportVars == <<files, writes, pages, view, vpc, work, rows, index>>

Files == Runs \X {"live", "final"}
IsLive(f) == f[2] = "live"

\* Versions of a page that are no log's: none, a half-written one, a redirect.
Missing == 0
Torn == -1
Stub == -2
NoPage == [ver |-> Missing, stamp |-> 0, tier |-> "full", finished |-> FALSE]

(* Time, in slack units: writes are Tick apart.  A page that a lighter pass  *)
(* rendered is stamped Delta before its log; stored stamps round down by     *)
(* less than Slack.                                                          *)
Tick == 4
Slack == 1
Delta == 2
Now == Tick * writes + 1
StampOf(mtime) == IF view.tier = "light" THEN mtime - Delta ELSE mtime

Present == {f \in Files : files[f] # 0}
LiveNow == {f \in Present : IsLive(f)}

ReportInit ==
  /\ files = [f \in Files |-> 0] /\ writes = 0
  /\ pages = [f \in Files |-> NoPage]
  /\ view = [mode |-> "none", tier |-> "full", force |-> FALSE, passes |-> 0, ticks |-> 0,
             live |-> {}, asked |-> {}, server |-> "none", signal |-> FALSE]
  /\ vpc = "idle" /\ work = [todo |-> <<>>, globbed |-> {}, seen |-> 0, read |-> 0,
                             moved |-> FALSE, failed |-> FALSE]
  /\ rows = {} /\ index = {}

-----------------------------------------------------------------------------
(* The runs.  A snapshot is replaced atomically; the log is written before   *)
(* its snapshot is removed.                                                  *)

Touch(f) ==
  /\ writes < MaxWrites /\ writes' = writes + 1
  /\ files' = [files EXCEPT ![f] = Tick * (writes + 1)]
  /\ work' = [work EXCEPT !.moved = TRUE]
  /\ UNCHANGED <<pages, view, vpc, rows, index>>

LogWritten(r) == \E kind \in {"live", "final"} : Touch(<<r, kind>>)

SnapshotRemoved(r) ==
  /\ files[<<r, "live">>] # 0 /\ files[<<r, "final">>] # 0
  /\ files' = [files EXCEPT ![<<r, "live">>] = 0]
  /\ work' = [work EXCEPT !.moved = TRUE]
  /\ UNCHANGED <<writes, pages, view, vpc, rows, index>>

-----------------------------------------------------------------------------
(* The command starts: --serve, --no-video and --force.                      *)
StartView ==
  /\ vpc = "idle" /\ view.passes < MaxPasses
  /\ \E mode \in {"once", "serve"}, tier \in {"full", "light"}, force \in BOOLEAN :
       /\ mode = "serve" => tier = "light"
       /\ view' = [view EXCEPT !.mode = mode, !.tier = tier, !.force = force,
                               !.ticks = 0, !.live = {}, !.asked = {}, !.server = "none", !.signal = FALSE]
  /\ vpc' = "glob" /\ UNCHANGED <<files, writes, pages, work, rows, index>>

(* A pass lists the logs; an empty directory is an error unless serving.     *)
(* Only the first pass is forced.                                            *)
Glob ==
  /\ vpc = "glob" /\ view.passes < MaxPasses
  /\ Present # {} \/ view.mode = "serve"
  /\ vpc' = "stat" /\ rows' = {}
  /\ work' = [todo |-> SetToSeq(Present), globbed |-> Present, seen |-> 0, read |-> 0,
              moved |-> FALSE, failed |-> FALSE]
  /\ view' = [view EXCEPT !.passes = @ + 1, !.force = IF view.server = "none" THEN @ ELSE FALSE]
  /\ UNCHANGED <<files, writes, pages, index>>

Log == Head(work.todo)
NextLog(row) == /\ work' = [work EXCEPT !.todo = Tail(@)] /\ rows' = rows \cup row /\ vpc' = "stat"

(* A log is read; one that is gone is skipped if live, an error row if not.  *)
Stat ==
  /\ vpc = "stat" /\ work.todo # <<>> /\ files[Log] # 0
  /\ work' = [work EXCEPT !.seen = files[Log]] /\ vpc' = "read"
  /\ UNCHANGED <<files, writes, pages, view, rows, index>>

Vanished ==
  /\ vpc \in {"stat", "read"} /\ work.todo # <<>> /\ files[Log] = 0
  /\ NextLog(IF IsLive(Log) THEN {} ELSE {<<Log, "error">>})
  /\ UNCHANGED <<files, writes, pages, view, index>>

(* Reading, and deciding from the mtime of before whether the page is fresh. *)
Fresh == ~view.force /\ ~IsLive(Log) /\ pages[Log].ver # Missing
         /\ pages[Log].stamp >= StampOf(work.seen) - Slack

Read ==
  /\ vpc = "read" /\ files[Log] # 0
  /\ IF Fresh THEN NextLog({<<Log, "ok">>})
     ELSE /\ work' = [work EXCEPT !.read = files[Log]] /\ vpc' = "render" /\ UNCHANGED rows
  /\ UNCHANGED <<files, writes, pages, view, index>>

(* A live log's page is replaced atomically and not stamped; a completed     *)
(* log's is written in place, then stamped.                                  *)
RenderLive ==
  /\ vpc = "render" /\ IsLive(Log)
  /\ pages' = [pages EXCEPT ![Log] = [ver |-> work.read, stamp |-> Now, tier |-> view.tier, finished |-> TRUE]]
  /\ NextLog({<<Log, "ok">>}) /\ UNCHANGED <<files, writes, view, index>>

RenderBegin ==
  /\ vpc = "render" /\ ~IsLive(Log)
  /\ pages' = [pages EXCEPT ![Log] = [ver |-> Torn, stamp |-> Now, tier |-> view.tier, finished |-> FALSE]]
  /\ vpc' = "writing" /\ UNCHANGED <<files, writes, view, work, rows, index>>

RenderEnd ==
  /\ vpc = "writing"
  /\ pages' = [pages EXCEPT ![Log].ver = work.read, ![Log].stamp = Now]
  /\ vpc' = "stamp" /\ UNCHANGED <<files, writes, view, work, rows, index>>

(* A mutant: the page is stamped with the mtime the log has by then.         *)
LatestMtime == files[Log]

StampFrom == work.seen

Stamp ==
  /\ vpc = "stamp"
  /\ \E rounded \in 0..Slack :
       pages' = [pages EXCEPT ![Log].stamp = StampOf(StampFrom) - rounded, ![Log].finished = TRUE]
  /\ NextLog({<<Log, "ok">>}) /\ UNCHANGED <<files, writes, view, index>>

(* Anything else that fails on one log becomes its row.                      *)
LogFails ==
  /\ vpc \in {"read", "render", "writing", "stamp"}
  /\ work' = [work EXCEPT !.todo = Tail(@), !.failed = TRUE]
  /\ rows' = rows \cup {<<Log, "error">>} /\ vpc' = "stat"
  /\ UNCHANGED <<files, writes, pages, view, index>>

(* A mutant: orphans are judged by the listing made before this pass.        *)
BackedByCaller == view.asked

Backed == {f \in work.globbed : IsLive(f)}

(* Live pages without a log become redirects to the index; one that cannot   *)
(* be written is left.                                                       *)
Redirect ==
  /\ vpc = "stat" /\ work.todo = <<>>
  /\ LET orphans == {f \in Files \ Backed : IsLive(f) /\ pages[f].ver \notin {Missing, Stub}}
     IN \E done \in {orphans} \cup {orphans \ {f} : f \in orphans} :
          /\ pages' = [f \in Files |-> IF f \in done THEN [pages[f] EXCEPT !.ver = Stub] ELSE pages[f]]
          /\ work' = [work EXCEPT !.failed = @ \/ done # orphans]
  /\ vpc' = "index" /\ UNCHANGED <<files, writes, view, rows, index>>

WriteIndex ==
  /\ vpc = "index" /\ index' = rows
  /\ IF view.mode = "once" THEN vpc' = "idle" /\ UNCHANGED view
     ELSE IF view.server = "none" THEN vpc' = "bind" /\ UNCHANGED view
     ELSE vpc' = "sleep" /\ view' = [view EXCEPT !.ticks = 0, !.live = view.asked]
  /\ UNCHANGED <<files, writes, pages, work, rows>>

(* A pass fails as a whole: fatal at first, a warning while serving; the     *)
(* count of ticks starts again, the live set stays the last one shown.       *)
PassFails ==
  /\ vpc \in {"glob", "index"}
  /\ IF view.server = "none" THEN vpc' = "idle" /\ UNCHANGED view
     ELSE vpc' = "sleep" /\ view' = [view EXCEPT !.ticks = 0]
  /\ work' = [work EXCEPT !.failed = TRUE]
  /\ UNCHANGED <<files, writes, pages, rows, index>>

-----------------------------------------------------------------------------
(* Serving. *)

Bind ==
  /\ vpc = "bind"
  /\ \/ vpc' = "idle" /\ UNCHANGED view
     \/ vpc' = "signal" /\ view' = [view EXCEPT !.server = "bound"]
  /\ UNCHANGED <<files, writes, pages, work, rows, index>>

InstallSignal ==
  /\ vpc = "signal" /\ vpc' = "thread" /\ view' = [view EXCEPT !.signal = TRUE]
  /\ UNCHANGED <<files, writes, pages, work, rows, index>>

StartThread ==
  /\ vpc = "thread" /\ vpc' = "sleep" /\ view' = [view EXCEPT !.server = "serving"]
  /\ UNCHANGED <<files, writes, pages, work, rows, index>>

(* Each tick: a pass if the live set changed or is not empty, or the         *)
(* baseline period is over.                                                  *)
ServeTick ==
  /\ vpc = "sleep" /\ view.passes < MaxPasses
  /\ view' = [view EXCEPT !.ticks = @ + 1, !.asked = LiveNow]
  /\ vpc' = IF LiveNow # view.live \/ LiveNow # {} \/ view.ticks + 1 >= Baseline THEN "glob" ELSE "sleep"
  /\ UNCHANGED <<files, writes, pages, work, rows, index>>

(* Ctrl-C after the bind and before the try, while the addresses are printed: *)
(* the socket is left to the end of the process.                             *)
InterruptedUnserved ==
  /\ vpc = "signal" /\ vpc' = "idle" /\ view' = [view EXCEPT !.server = "left"]
  /\ UNCHANGED <<files, writes, pages, work, rows, index>>

(* Ctrl-C or SIGTERM, wherever the loop is: the server is shut down only if  *)
(* it runs, closed, and the signal handler given back.                       *)
Interrupted ==
  /\ vpc \notin {"idle", "unwind"}
  /\ IF view.server = "none" THEN vpc' = "idle" /\ UNCHANGED view
     ELSE vpc' = "unwind" /\ view' = [view EXCEPT !.server = IF @ = "serving" THEN "stopping" ELSE @]
  /\ UNCHANGED <<files, writes, pages, work, rows, index>>

CloseServer ==
  /\ vpc = "unwind" /\ vpc' = "idle"
  /\ view' = [view EXCEPT !.server = "closed", !.signal = FALSE]
  /\ UNCHANGED <<files, writes, pages, work, rows, index>>

ReportNext ==
  \/ \E r \in Runs : LogWritten(r) \/ SnapshotRemoved(r)
  \/ StartView \/ Glob \/ Stat \/ Vanished \/ Read \/ RenderLive \/ RenderBegin \/ RenderEnd
  \/ Stamp \/ LogFails \/ Redirect \/ WriteIndex \/ PassFails
  \/ Bind \/ InstallSignal \/ StartThread \/ ServeTick
  \/ InterruptedUnserved \/ Interrupted \/ CloseServer

ReportSpec == ReportInit /\ [][ReportNext]_reportVars

-----------------------------------------------------------------------------
ReportTypeOK ==
  /\ \A f \in Files : pages[f].ver \in {Torn, Stub} \cup Nat /\ pages[f].tier \in {"full", "light"}
  /\ view.server \in {"none", "bound", "serving", "stopping", "closed", "left"}
  /\ work.globbed \subseteq Files

(* A page that would be taken for fresh shows the log as it is, whatever was *)
(* written between the stat, the read and the stamp; and a page the full     *)
(* view takes for fresh was not rendered by a lighter one.  Pages whose      *)
(* writing was cut short are not covered: those do pass for fresh.           *)
NoStalePage ==
  \A r \in Runs :
    LET f == <<r, "final">> IN
      (files[f] # 0 /\ pages[f].finished /\ pages[f].stamp >= StampOf(files[f]) - Slack) =>
        /\ pages[f].ver = files[f]
        /\ view.tier = "full" => pages[f].tier = "full"

(* A live page backed by a log this pass saw is not replaced by a redirect;  *)
(* after a pass in which nothing moved or failed, the index lists the logs   *)
(* there are, and every other live page leads to it.                         *)
PassIsComplete ==
  vpc = "index" =>
    /\ \A f \in work.globbed : IsLive(f) /\ <<f, "ok">> \in rows => pages[f].ver # Stub
    /\ ~work.moved /\ ~work.failed =>
         /\ rows = {<<f, "ok">> : f \in Present}
         /\ \A f \in Files : IsLive(f) /\ files[f] = 0 => pages[f].ver \in {Missing, Stub}
         /\ \A f \in Present : IsLive(f) => pages[f].ver = files[f]

(* However serving ends, no server is left and SIGTERM is the caller's; only *)
(* a Ctrl-C before the try leaves the bound socket to the end of the process. *)
ServingUnwinds == vpc = "idle" => view.server \in {"none", "closed", "left"} /\ ~view.signal
====
