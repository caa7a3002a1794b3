---- MODULE Judging ----
(* Judging a trial, scoring it, and correcting the judgement afterwards.     *)
(* A grader captures one verdict per trial; the evaluation scores the        *)
(* trial's rubrics from it and saves the log; editors append annotations to  *)
(* a file beside the log; re-scoring recomputes from those annotations only  *)
(* what changed; an export writes the re-scored log and a copy of the file.  *)
(* What else happens in an evaluation is in EvalRun.                         *)
EXTENDS Integers, SequencesExt

CONSTANTS
  JConfigs, \* [rubrics, reducer, scenes, grader, ends, console]; see JConfigOK
  Editors,  \* `edit` commands that may run at once
  Corrections, \* [trial, value, given]: what an editor may ask, given "none" without --rubric
  MaxEdits  \* bound on annotations appended

(* A rubric is not called "none", which stands for no rubric. *)
ASSUME JudgingAssumption ==
  /\ MaxEdits \in Nat
  /\ \A c \in JConfigs :
       /\ DOMAIN c.rubrics = 1..Len(c.rubrics) /\ Len(c.rubrics) \in Nat
       /\ \A k \in DOMAIN c.rubrics : c.rubrics[k].name # "none"
       /\ DOMAIN c.scenes = 1..Len(c.scenes) /\ Len(c.scenes) \in Nat

VARIABLES
  jcfg,     \* the run's rubrics, reducer and grader
  preflight,\* of the vlm grader: "untried", "ok", "refused"
  records,  \* the trials judged so far
  saved,    \* the log, or Unsaved
  edits,    \* the annotations file
  drafts,  \* per editor: the annotation it is about to append
  loaded,   \* per scorer: the annotations file `score --out` has read
  exported  \* what `score --out` wrote: [log, edits]

judgeVars == <<jcfg, preflight, records, saved, edits, drafts, loaded, exported>>

None == "none"
Unsaved == [epochs |-> <<>>]
Idle == [trial |-> 0]
NoId == <<"none", 0>>

JConfigOK(c) ==
  /\ c.reducer \in {"mean", "pass_at_2"}
  /\ c.grader \in {None, "operator", "vlm", "custom"}
  /\ \A k \in DOMAIN c.rubrics : c.rubrics[k].scorer \in {"operator", "judging", "other"}

Names == {jcfg.rubrics[k].name : k \in DOMAIN jcfg.rubrics}
RubricOf(r) == jcfg.rubrics[CHOOSE k \in DOMAIN jcfg.rubrics : jcfg.rubrics[k].name = r]
\* Of each trial: its scene, and how it may end; the verdict the console may take.
TrialsOf == DOMAIN jcfg.scenes

(* A scorer with score_annotations reads a judgement. *)
ReadsJudgement(rubric) == rubric.scorer \in {"operator", "judging"}
FirstOf(rubrics) == IF rubrics = {} THEN None ELSE jcfg.rubrics[Min(rubrics)].name

-----------------------------------------------------------------------------
(* Grading: the fields of a record a grader may set.                         *)

Definitive(rec) == rec.end \in {"success", "failure"}
Judgeable == {k \in DOMAIN jcfg.rubrics : ReadsJudgement(jcfg.rubrics[k])}
SafetyToJudge(rec) ==
  IF Definitive(rec) THEN FirstOf({k \in Judgeable : jcfg.rubrics[k].safety}) ELSE None
Adopts(rec) == Definitive(rec) /\ SafetyToJudge(rec) = None

(* The vlm grader's choice of rubric; its name is a hint only if that rubric *)
(* is scored from judgements.                                                *)
VLMHint(rec) == IF SafetyToJudge(rec) # None THEN SafetyToJudge(rec)
                ELSE FirstOf({k \in Judgeable : jcfg.rubrics[k].text})

Judged(rec, verdict, hint) == [rec EXCEPT !.verdict = verdict, !.hint = hint]
Adopted(rec) == Judged(rec, IF rec.end = "success" THEN "y" ELSE "n", None)

(* What the operator answers, the vlm grader infers, and a custom grader may *)
(* leave on the record.                                                      *)
Decided(rec) ==
  {[Judged(rec, v, SafetyToJudge(rec)) EXCEPT !.note = n] : v \in {"y", "n", "partial", None}, n \in BOOLEAN}
Inferred(rec) ==
  {[rec EXCEPT !.error = TRUE]}
  \cup {[Judged(rec, v, VLMHint(rec)) EXCEPT !.note = TRUE] : v \in {"y", "n"}}
Customised(rec) ==
  {[Judged(rec, v, h) EXCEPT !.error = e] : v \in {"y", None}, e \in BOOLEAN, h \in Names \cup {None, "bogus"}}

Graded(rec) ==
  CASE jcfg.grader = None -> {rec}
    [] jcfg.grader = "custom" -> Customised(rec)
    [] rec.verdict # None /\ jcfg.grader \in {"operator", "vlm"} -> {rec}
    [] rec.verdict = None /\ Adopts(rec) /\ jcfg.grader \in {"operator", "vlm"} -> {Adopted(rec)}
    [] rec.verdict = None /\ ~Adopts(rec) /\ jcfg.grader = "operator" -> Decided(rec)
    [] rec.verdict = None /\ ~Adopts(rec) /\ jcfg.grader = "vlm" -> Inferred(rec)

(* _judged_rubric: which of several judgement rubrics the verdict is for. *)
Scoped(rec) ==
  LET names == {r \in Names : ReadsJudgement(RubricOf(r))}
  IN [rec EXCEPT !.hint =
        IF Cardinality(names) < 2 \/ rec.verdict = None THEN None
        ELSE IF rec.hint \in names THEN rec.hint ELSE FirstOf(Judgeable)]

Affirmative(verdict) == IF verdict = "y" THEN "yes" ELSE "no"

OperatorScore(rec) ==
  IF rec.verdict # None THEN Affirmative(rec.verdict)
  ELSE IF rec.error THEN "abstain" ELSE "no"

(* Scores of a judged record; another scorer's value comes from the steps.   *)
ScoresOf(rec) ==
  {s \in [Names -> {"yes", "no", "abstain"}] :
     \A r \in Names :
       CASE rec.hint \notin {None, r} /\ ReadsJudgement(RubricOf(r)) -> s[r] = "abstain"
         [] RubricOf(r).scorer = "operator" /\ rec.hint \in {None, r} -> s[r] = OperatorScore(rec)
         [] OTHER -> s[r] \in {"yes", "no"}}

-----------------------------------------------------------------------------
(* Reducing a rubric's values over a scene, and the metric over the scenes.  *)
(* A missing metric and one that is None read the same.                      *)

\* A rubric's values over a scene, trial by trial.
Column(epochs, scene, r) ==
  [t \in DOMAIN epochs |-> IF jcfg.scenes[t] = scene /\ r \in DOMAIN epochs[t]
                            THEN epochs[t][r] ELSE "unscored"]
EpochsOf(epochs, scene, r) == Remove(Column(epochs, scene, r), "unscored")

Scale == 12 \* a mean of up to four values is a whole number of twelfths
Reduce(values) ==
  LET voted == Remove(values, "abstain")
      yes == Len(Remove(voted, "no"))
  IN IF voted = <<>> THEN <<"abstain">>
     ELSE IF jcfg.reducer = "mean" THEN <<"mean", (yes * Scale) \div Len(voted)>>
     ELSE IF Len(voted) < 2 THEN <<"failed">> ELSE <<"pass", Len(voted) - yes < 2>>

ReducedOf(epochs, scene, r) ==
  IF EpochsOf(epochs, scene, r) = <<>> THEN <<"failed">> ELSE Reduce(EpochsOf(epochs, scene, r))

MetricOf(reduced) == {<<s, reduced[s]>> : s \in {x \in DOMAIN reduced : reduced[x] \notin {<<"abstain">>, <<"failed">>}}}
AbstentionsOf(epochs, r) ==
  Cardinality({t \in DOMAIN epochs : r \in DOMAIN epochs[t] /\ epochs[t][r] = "abstain"})

Scenes == {jcfg.scenes[t] : t \in TrialsOf}
Account(epochs) ==
  LET reduced == [r \in Names |-> [s \in Scenes |-> ReducedOf(epochs, s, r)]]
  IN [epochs |-> epochs, reduced |-> reduced,
      metrics |-> [r \in Names |-> MetricOf(reduced[r])],
      abstentions |-> [r \in Names |-> AbstentionsOf(epochs, r)]]

-----------------------------------------------------------------------------
(* Annotations. *)

Annotation(t, kind, value, rubric, id) ==
  [trial |-> t, kind |-> kind, value |-> value, rubric |-> rubric, id |-> id, supersedes |-> NoId]
OnlyIf(test, annotation) == IF test THEN {annotation} ELSE {}

(* A mutant: rubrics the run did not judge are not marked so.                *)
LiftVerdictOnly(rec, t) ==
  OnlyIf(rec.verdict # None, Annotation(t, "judgement", rec.verdict, rec.hint, <<"run", t>>))
  \cup OnlyIf(rec.error, Annotation(t, "error", None, None, <<"error", t>>))

(* lift_annotations of one trial: its verdict or its note, and what abstains.*)
(* It lifts one of a kind at most, so that their order does not matter.      *)
LiftTrial(rec, t) ==
  OnlyIf(rec.verdict # None, Annotation(t, "judgement", rec.verdict, rec.hint, <<"run", t>>))
  \cup OnlyIf(rec.verdict = None /\ rec.note, Annotation(t, "note", "text", None, <<"note", t>>))
  \cup OnlyIf(rec.error \/ (rec.verdict # None /\ rec.hint # None),
              Annotation(t, "error", None, None, <<"error", t>>))

(* An errored trial was never graded: its lists hold None. *)
Lift == UNION {LiftTrial(records[t], t) : t \in {u \in TrialsOf : records[u].end # "error"}}

(* All annotations of a log: the lifted ones, then the file's, line by line. *)
AnnotationsWith(file) == [run |-> Lift, file |-> file]
Entries(all) == all.run \cup {all.file[k] : k \in DOMAIN all.file}

(* An annotation retires only one with the same rubric. *)
Superseded(all) ==
  {a.supersedes : a \in {x \in Entries(all) :
     \A y \in Entries(all) : y.id = x.supersedes => y.rubric = x.rubric}}

Absent == [value |-> None, id |-> NoId, rubric |-> None]
Newest(all, chosen) ==
  LET lines == {k \in DOMAIN all.file : all.file[k] \in chosen}
  IN IF chosen = {} THEN Absent
     ELSE IF lines = {} THEN CHOOSE a \in chosen : TRUE ELSE all.file[Max(lines)]

(* `current`: the annotation of this kind that counts, for rubric r or all.  *)
Current(all, t, kind, r) ==
  LET retired == Superseded(all)
      live == {a \in Entries(all) : a.trial = t /\ a.kind = kind /\ a.id \notin retired}
      specific == {a \in live : r # None /\ a.rubric = r}
  IN Newest(all, IF specific # {} THEN specific ELSE {a \in live : a.rubric = None})

(* score_annotations of the operator scorer. *)
ScoreFrom(all, t, r) ==
  IF Current(all, t, "judgement", r).id # NoId THEN Affirmative(Current(all, t, "judgement", r).value)
  ELSE IF Current(all, t, "error", r).id # NoId THEN "abstain" ELSE "no"

(* Only the builtin operator scorer can be rebuilt from a log. *)
Rescored(epochs, all) ==
  [t \in DOMAIN epochs |->
     [r \in DOMAIN epochs[t] |->
        IF RubricOf(r).scorer = "operator" THEN ScoreFrom(all, t, r) ELSE epochs[t][r]]]

(* A mutant: a rubric is recomputed only where its scene reduction changed.  *)
ChangedReductions(log, epochs) ==
  {r \in Names : \E s \in Scenes : log.reduced[r][s] # ReducedOf(epochs, s, r)}

Changed(log, epochs) ==
  {r \in Names : \E t \in DOMAIN epochs : r \in DOMAIN epochs[t] /\ epochs[t][r] # log.epochs[t][r]}

(* Only the scenes of a changed rubric whose trials changed are reduced      *)
(* again, and only the metrics of changed rubrics.                           *)
Rescore(log, all) ==
  LET epochs == Rescored(log.epochs, all)
      changed == Changed(log, epochs)
      touched(r, s) == \E t \in DOMAIN epochs : jcfg.scenes[t] = s /\ r \in DOMAIN epochs[t]
                                                  /\ epochs[t][r] # log.epochs[t][r]
      reduced == [r \in Names |-> [s \in Scenes |->
                    IF r \in changed /\ touched(r, s) THEN ReducedOf(epochs, s, r) ELSE log.reduced[r][s]]]
  IN [epochs |-> epochs, reduced |-> reduced,
      metrics |-> [r \in Names |-> IF r \in changed THEN MetricOf(reduced[r]) ELSE log.metrics[r]],
      abstentions |-> [r \in Names |-> IF r \in changed THEN AbstentionsOf(epochs, r) ELSE log.abstentions[r]]]

-----------------------------------------------------------------------------
JudgeInit ==
  /\ jcfg \in {c \in JConfigs : JConfigOK(c)} /\ preflight = "untried"
  /\ records = <<>> /\ saved = Unsaved /\ edits = <<>>
  /\ drafts = [e \in Editors |-> Idle] /\ loaded = <<>> /\ exported = <<>>

(* One test request; a rejection is kept and raised before any rollout, an   *)
(* outage only warns.  Repeated calls send nothing.                          *)
Preflight ==
  /\ preflight = "untried" /\ jcfg.grader = "vlm"
  /\ preflight' \in {"ok", "refused"}
  /\ UNCHANGED <<jcfg, records, saved, edits, drafts, loaded, exported>>

(* A trial ends, perhaps judged at the console, and is graded if it is to be *)
(* scored.                                                                   *)
Trial ==
  /\ saved = Unsaved /\ Len(records) < Len(jcfg.scenes)
  /\ jcfg.grader = "vlm" => preflight = "ok"
  /\ \E end \in jcfg.ends[Len(records) + 1], console \in {None, jcfg.console} :
       LET rec == [end |-> end, verdict |-> console, note |-> FALSE, error |-> FALSE, hint |-> None]
       IN \E graded \in IF end = "error" THEN {rec} ELSE Graded(rec) :
            records' = Append(records, IF end = "error" THEN graded ELSE Scoped(graded))
  /\ UNCHANGED <<jcfg, preflight, saved, edits, drafts, loaded, exported>>

(* Every trial is scored when it is judged; the log holds the result.        *)
Save ==
  /\ saved = Unsaved /\ Len(records) = Len(jcfg.scenes)
  /\ \E scores \in [TrialsOf -> [Names -> {"yes", "no", "abstain"}]] :
       /\ \A t \in TrialsOf : records[t].end # "error" => scores[t] \in ScoresOf(records[t])
       /\ \A t \in TrialsOf : records[t].end = "error" => scores[t] = [r \in Names |-> "no"]
       /\ saved' = Account([t \in TrialsOf |->
            IF records[t].end = "error" THEN [r \in {} |-> "no"] ELSE scores[t]])
  /\ UNCHANGED <<jcfg, preflight, records, edits, drafts, loaded, exported>>

(* A mutant: an edit that names no rubric stays general. *)
RubricAsGiven(t, given) == given

(* _cmd_edit: without --rubric, the correction is for the rubric judged.     *)
EditRubric(t, given) == IF given = None /\ records[t].end # "error" THEN records[t].hint ELSE given

EditRead(e) ==
  /\ saved # Unsaved /\ drafts[e] = Idle
  /\ \E c \in {x \in Corrections : x.trial \in TrialsOf} :
       LET rubric == EditRubric(c.trial, c.given)
           previous == Current(AnnotationsWith(edits), c.trial, "judgement", rubric)
       IN drafts' = [drafts EXCEPT ![e] =
            [trial |-> c.trial, value |-> c.value, given |-> c.given, rubric |-> rubric,
             supersedes |-> IF previous.rubric = rubric THEN previous.id ELSE NoId]]
  /\ UNCHANGED <<jcfg, preflight, records, saved, edits, loaded, exported>>

(* One line, appended and flushed; another editor may have come between.     *)
EditAppend(e) ==
  /\ drafts[e] # Idle /\ Len(edits) < MaxEdits
  /\ edits' = Append(edits,
       [trial |-> drafts[e].trial, kind |-> "judgement", value |-> drafts[e].value,
        rubric |-> drafts[e].rubric, id |-> <<"edit", Len(edits) + 1>>,
        supersedes |-> drafts[e].supersedes, given |-> drafts[e].given])
  /\ drafts' = [drafts EXCEPT ![e] = Idle]
  /\ UNCHANGED <<jcfg, preflight, records, saved, loaded, exported>>

(* _cmd_score --out, in two steps: the annotations it scores from are read   *)
(* first, the file is copied after the re-scored log is written.             *)
ScoreLoad ==
  /\ saved # Unsaved /\ loaded = <<>> /\ exported = <<>>
  /\ loaded' = <<edits>>
  /\ UNCHANGED <<jcfg, preflight, records, saved, edits, drafts, exported>>

ScoreExport ==
  /\ loaded # <<>>
  /\ exported' = <<[log |-> Rescore(saved, AnnotationsWith(loaded[1])), edits |-> edits]>>
  /\ loaded' = <<>>
  /\ UNCHANGED <<jcfg, preflight, records, saved, edits, drafts>>

JudgeNext ==
  \/ Preflight \/ Trial \/ Save \/ ScoreLoad \/ ScoreExport
  \/ \E e \in Editors : EditRead(e) \/ EditAppend(e)

JudgeSpec == JudgeInit /\ [][JudgeNext]_judgeVars

-----------------------------------------------------------------------------
JudgingTypeOK ==
  /\ preflight \in {"untried", "ok", "refused"}
  /\ \A t \in DOMAIN records : records[t].hint \in Names \cup {None} \/ records[t].end = "error"
  /\ Len(edits) <= MaxEdits

(* A log with no edits re-scores to exactly its stored results, whatever the *)
(* grader left on the records.                                               *)
UneditedStaysAsStored ==
  (saved # Unsaved /\ edits = <<>>) => Rescore(saved, AnnotationsWith(<<>>)) = saved

(* Re-scoring recomputes only what changed and still gives what accounting   *)
(* for all the trials afresh would.                                          *)
RescoringIsAccounting ==
  saved # Unsaved =>
    LET all == AnnotationsWith(edits) IN Rescore(saved, all) = Account(Rescored(saved.epochs, all))

(* The last correction of a trial counts for the rubric it names, or, naming *)
(* none, for the rubric the run judged, however two editors interleave; a    *)
(* correction of one rubric never changes another.                           *)
LastWordCounts ==
  saved # Unsaved =>
    \A t \in TrialsOf, r \in Names :
      LET judged == IF records[t].end = "error" THEN None ELSE records[t].hint
          own == {k \in DOMAIN edits : edits[k].trial = t /\
                    (edits[k].given = r \/ (edits[k].given = None /\ judged = r))}
          forAll == {k \in DOMAIN edits : edits[k].trial = t /\ edits[k].given = None /\ judged = None}
          run == Current(AnnotationsWith(<<>>), t, "judgement", r)
      IN Current(AnnotationsWith(edits), t, "judgement", r).value =
           IF own # {} THEN edits[Max(own)].value
           ELSE IF forAll # {} THEN edits[Max(forAll)].value ELSE run.value

(* An exported log, re-scored from the file copied beside it, gives what the *)
(* original gives from the same annotations.                                 *)
ExportAgrees ==
  exported # <<>> =>
    LET all == AnnotationsWith(exported[1].edits)
    IN Rescore(exported[1].log, all) = Rescore(saved, all)

(* A judgement nobody corrected stays as the run stored it, a corrected one *)
(* counts by its last correction, and the export says the same.             *)
JudgementsCount == UneditedStaysAsStored /\ RescoringIsAccounting /\ LastWordCounts /\ ExportAgrees
====
