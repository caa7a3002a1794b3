--------------------------- MODULE JudgingProofs ---------------------------
(***************************************************************************)
(* What TLAPS proves of Judging, for every set of rubrics, every reducer   *)
(* and grader, any number of trials, editors and corrections: that the     *)
(* judgements count as they were made (JudgementsCount).                   *)
(***************************************************************************)
EXTENDS Judging, SequenceTheorems, NumberProofs, TLAPS

----------------------------------------------------------------------------
\* The inductive invariant, in named parts.

Ends == UNION {UNION {c.ends[k] : k \in DOMAIN c.scenes} : c \in JConfigs} \cup {"error"}
Verdicts == {"y", "n", "partial", None} \cup {c.console : c \in JConfigs}
RubricNames == UNION {{c.rubrics[k].name : k \in DOMAIN c.rubrics} : c \in JConfigs}
Hints == RubricNames \cup {None, "bogus"}
RecordShape == [end : Ends, verdict : Verdicts, note : BOOLEAN, error : BOOLEAN, hint : Hints]

\* A trial is judged for a rubric of the run only when it was judged at all.
RecordOK(rec) ==
    /\ rec.hint \in Names \cup {None}
    /\ rec.hint # None => rec.verdict # None

RecordsInv ==
    /\ records \in Seq(RecordShape)
    /\ \A k \in 1..Len(records) : RecordOK(records[k])

\* The log is the account of scores each trial's grade allows.
ScoredAsGraded(epochs) ==
    /\ epochs = [t \in TrialsOf |-> epochs[t]]
    /\ \A t \in TrialsOf :
         IF records[t].end = "error" THEN epochs[t] = [r \in {} |-> "no"]
         ELSE epochs[t] \in ScoresOf(records[t])

SavedInv ==
    saved # Unsaved =>
        /\ Len(records) = Len(jcfg.scenes)
        /\ saved = Account(saved.epochs)
        /\ ScoredAsGraded(saved.epochs)

Givens == {c.given : c \in Corrections}
EntryIds == {"none", "run", "note", "error", "edit"} \X Nat
EditShape ==
    [trial : Nat, kind : {"judgement"}, value : {c.value : c \in Corrections},
     rubric : Givens \cup Hints, id : EntryIds, supersedes : EntryIds,
     given : Givens]

\* What the correction at line n of a file may retire: nothing, the run's own judgement
\* of that rubric, or an earlier correction of the same trial and rubric.
Retires(a, file, n) ==
    \/ a.supersedes = NoId
    \/ /\ a.supersedes = <<"run", a.trial>>
       /\ records[a.trial].end # "error" /\ records[a.trial].verdict # None
       /\ records[a.trial].hint = a.rubric
    \/ \E m \in 1..(n - 1) :
         /\ a.supersedes = <<"edit", m>>
         /\ file[m].trial = a.trial /\ file[m].rubric = a.rubric

Follows(a, file, n) ==
    /\ a.trial \in TrialsOf
    /\ a.rubric = EditRubric(a.trial, a.given)
    /\ Retires(a, file, n)

FileOK(file) ==
    /\ file \in Seq(EditShape)
    /\ \A k \in 1..Len(file) : file[k].id = <<"edit", k>> /\ Follows(file[k], file, k)

DraftShape ==
    [trial : Nat, value : {c.value : c \in Corrections}, given : Givens,
     rubric : Givens \cup Hints, supersedes : EntryIds]
Drafting(d) == d # Idle => d \in DraftShape /\ Follows(d, edits, Len(edits) + 1)

EditsInv ==
    /\ saved = Unsaved =>
         edits = <<>> /\ drafts = [e \in Editors |-> Idle] /\ loaded = <<>> /\ exported = <<>>
    /\ saved # Unsaved => FileOK(edits)
    /\ DOMAIN drafts = Editors
    /\ \A e \in Editors : Drafting(drafts[e])
    /\ Len(edits) <= MaxEdits

\* What was exported accounts for the saved scores under some annotations.
ExportInv == exported # <<>> => \E all : exported[1].log = Account(Rescored(saved.epochs, all))

JudgeInv ==
    /\ jcfg \in JConfigs /\ JConfigOK(jcfg) /\ preflight \in {"untried", "ok", "refused"}
    /\ RecordsInv /\ SavedInv /\ EditsInv /\ ExportInv

----------------------------------------------------------------------------
\* The greatest line of a file that is of a kind.
LEMMA GreatestOf ==
    ASSUME NEW n \in Nat, NEW S \in SUBSET (1..n), S # {}
    PROVE  Max(S) \in S /\ \A m \in S : m <= Max(S)
<1>1. \E g \in S : \A m \in S : g >= m
  BY GreatestNumber
<1>2. Max(S) \in S /\ \A m \in S : Max(S) >= m
  BY <1>1 DEF Max
<1> QED BY <1>2

\* Rubrics have names, and none is named "none".
LEMMA NamesAreNames ==
    ASSUME jcfg \in JConfigs
    PROVE  Names \subseteq RubricNames /\ None \notin Names
BY JudgingAssumption DEF Names, RubricNames, None

\* The first of some of the rubrics is one of the run's rubrics, or none.
LEMMA FirstIsARubric ==
    ASSUME jcfg \in JConfigs, NEW S \in SUBSET DOMAIN jcfg.rubrics
    PROVE  FirstOf(S) \in Names \cup {None}
<1>1. CASE S = {}
  BY <1>1 DEF FirstOf
<1>2. CASE S # {}
  <2>1. S \in SUBSET Nat
    BY JudgingAssumption
  <2>2. \E n \in S : \A m \in S : n <= m
    BY <1>2, <2>1, LeastNumber
  <2>3. Min(S) \in S
    BY <2>2 DEF Min
  <2> QED BY <1>2, <2>3 DEF FirstOf, Names
<1> QED BY <1>1, <1>2

----------------------------------------------------------------------------
\* Grading keeps the records well formed.

LEMMA GradedShape ==
    ASSUME jcfg \in JConfigs, JConfigOK(jcfg), NEW rec \in RecordShape, NEW graded \in Graded(rec)
    PROVE  graded \in RecordShape
<1>2. /\ Names \cup {None, "bogus"} \subseteq Hints /\ None \in Hints
      /\ {"y", "n", "partial", None} \subseteq Verdicts /\ {"y", "n"} \subseteq Verdicts
      /\ {"y", None} \subseteq Verdicts /\ None \in Verdicts
  BY NamesAreNames DEF Hints, Verdicts
<1>3. \A S \in SUBSET DOMAIN jcfg.rubrics : FirstOf(S) \in Hints
  BY <1>2, FirstIsARubric
<1>4. SafetyToJudge(rec) \in Hints /\ VLMHint(rec) \in Hints
  <2>1. \A k \in Judgeable : k \in DOMAIN jcfg.rubrics
    BY DEF Judgeable
  <2>2. FirstOf({k \in Judgeable : jcfg.rubrics[k].safety}) \in Hints
        /\ FirstOf({k \in Judgeable : jcfg.rubrics[k].text}) \in Hints
    BY <1>3, <2>1
  <2> QED BY <1>2, <2>2 DEF SafetyToJudge, VLMHint
<1>5. Adopted(rec) \in RecordShape
  <2>1. (IF rec.end = "success" THEN "y" ELSE "n") \in Verdicts
    BY <1>2
  <2> QED BY <1>2, <2>1 DEF Adopted, Judged, RecordShape
<1>6. Decided(rec) \subseteq RecordShape
  <2> SUFFICES ASSUME NEW v \in {"y", "n", "partial", None}, NEW n \in BOOLEAN
               PROVE  [Judged(rec, v, SafetyToJudge(rec)) EXCEPT !.note = n] \in RecordShape
    BY DEF Decided
  <2> QED BY <1>2, <1>4 DEF Judged, RecordShape
<1>7. Inferred(rec) \subseteq RecordShape
  <2>1. [rec EXCEPT !.error = TRUE] \in RecordShape
    BY DEF RecordShape
  <2>2. \A v \in {"y", "n"} : [Judged(rec, v, VLMHint(rec)) EXCEPT !.note = TRUE] \in RecordShape
    BY <1>2, <1>4 DEF Judged, RecordShape
  <2> QED BY <2>1, <2>2 DEF Inferred
<1>8. Customised(rec) \subseteq RecordShape
  <2> SUFFICES ASSUME NEW v \in {"y", None}, NEW e \in BOOLEAN, NEW h \in Names \cup {None, "bogus"}
               PROVE  [Judged(rec, v, h) EXCEPT !.error = e] \in RecordShape
    BY DEF Customised
  <2> QED BY <1>2 DEF Judged, RecordShape
<1>9. jcfg.grader \in {None, "operator", "vlm", "custom"}
  BY DEF JConfigOK
<1>10. Graded(rec) \in {{rec}, {Adopted(rec)}, Decided(rec), Inferred(rec), Customised(rec)}
  BY <1>9 DEF Graded, None
<1> QED BY <1>5, <1>6, <1>7, <1>8, <1>10

LEMMA ScopedOK ==
    ASSUME jcfg \in JConfigs, NEW rec \in RecordShape
    PROVE  Scoped(rec) \in RecordShape /\ RecordOK(Scoped(rec))
<1> DEFINE names == {r \in Names : ReadsJudgement(RubricOf(r))}
           hint == IF Cardinality(names) < 2 \/ rec.verdict = None THEN None
                   ELSE IF rec.hint \in names THEN rec.hint ELSE FirstOf(Judgeable)
<1>1. Scoped(rec) = [rec EXCEPT !.hint = hint]
  BY DEF Scoped
<1>2. names \subseteq Names
  OBVIOUS
<1>3. FirstOf(Judgeable) \in Names \cup {None}
  BY FirstIsARubric DEF Judgeable
<1>4. hint \in Names \cup {None} /\ (hint # None => rec.verdict # None)
  <2> HIDE DEF names
  <2> QED BY <1>2, <1>3
<1> HIDE DEF hint
<1>6. hint \in Hints
  BY <1>4, NamesAreNames DEF Hints
<1>7. Scoped(rec) \in RecordShape /\ Scoped(rec).hint = hint /\ Scoped(rec).verdict = rec.verdict
  BY <1>1, <1>6 DEF RecordShape
<1> QED BY <1>4, <1>7 DEF RecordOK

----------------------------------------------------------------------------
\* Accounting and re-scoring.

\* Re-scoring keeps who is scored for what.
LEMMA RescoredSameTrials ==
    ASSUME NEW epochs, NEW all
    PROVE  /\ DOMAIN Rescored(epochs, all) = DOMAIN epochs
           /\ \A t \in DOMAIN epochs : DOMAIN Rescored(epochs, all)[t] = DOMAIN epochs[t]
BY DEF Rescored

\* Where no value of a rubric over a scene changed, its reduction did not.
LEMMA SameColumnSameReduction ==
    ASSUME NEW e1, NEW e2, NEW s, NEW r,
           DOMAIN e2 = DOMAIN e1,
           \A t \in DOMAIN e1 : DOMAIN e2[t] = DOMAIN e1[t],
           \A t \in DOMAIN e1 : jcfg.scenes[t] = s /\ r \in DOMAIN e1[t] => e2[t][r] = e1[t][r]
    PROVE  ReducedOf(e2, s, r) = ReducedOf(e1, s, r)
<1>1. Column(e2, s, r) = Column(e1, s, r)
  BY DEF Column
<1>2. EpochsOf(e2, s, r) = EpochsOf(e1, s, r)
  BY <1>1 DEF EpochsOf
<1> QED BY <1>2 DEF ReducedOf

\* Recomputing what changed gives what accounting afresh does.
LEMMA RescoreIsAccount ==
    ASSUME NEW epochs, NEW all
    PROVE  Rescore(Account(epochs), all) = Account(Rescored(epochs, all))
<1> DEFINE log == Account(epochs)
           e2 == Rescored(epochs, all)
           changed == Changed(log, e2)
           touched(r, s) == \E t \in DOMAIN e2 : jcfg.scenes[t] = s /\ r \in DOMAIN e2[t]
                                                  /\ e2[t][r] # log.epochs[t][r]
           reduced == [r \in Names |-> [s \in Scenes |->
                         IF r \in changed /\ touched(r, s) THEN ReducedOf(e2, s, r) ELSE log.reduced[r][s]]]
           old == [r \in Names |-> [s \in Scenes |-> ReducedOf(epochs, s, r)]]
           new == [r \in Names |-> [s \in Scenes |-> ReducedOf(e2, s, r)]]
           mets == [r \in Names |-> IF r \in changed THEN MetricOf(reduced[r]) ELSE log.metrics[r]]
           abst == [r \in Names |-> IF r \in changed THEN AbstentionsOf(e2, r) ELSE log.abstentions[r]]
<1>1. log = [epochs |-> epochs, reduced |-> old,
             metrics |-> [r \in Names |-> MetricOf(old[r])],
             abstentions |-> [r \in Names |-> AbstentionsOf(epochs, r)]]
  BY DEF Account
<1>2. Account(e2) = [epochs |-> e2, reduced |-> new,
             metrics |-> [r \in Names |-> MetricOf(new[r])],
             abstentions |-> [r \in Names |-> AbstentionsOf(e2, r)]]
  BY DEF Account
<1>3. log.epochs = epochs
  BY <1>1
<1>4. Rescore(log, all) = [epochs |-> e2, reduced |-> reduced, metrics |-> mets, abstentions |-> abst]
  BY <1>3 DEF Rescore
<1>5. DOMAIN e2 = DOMAIN epochs /\ \A t \in DOMAIN epochs : DOMAIN e2[t] = DOMAIN epochs[t]
  BY RescoredSameTrials
<1>6. changed \subseteq Names
      /\ \A r \in Names \ changed : \A t \in DOMAIN epochs : r \in DOMAIN epochs[t] => e2[t][r] = epochs[t][r]
  <2> HIDE DEF e2, log
  <2> QED BY <1>3, <1>5 DEF Changed
<1> HIDE DEF e2, changed
<1>7. ASSUME NEW r \in Names, NEW s \in Scenes, ~(r \in changed /\ touched(r, s))
      PROVE  ReducedOf(e2, s, r) = ReducedOf(epochs, s, r)
  <2>1. \A t \in DOMAIN epochs : jcfg.scenes[t] = s /\ r \in DOMAIN epochs[t] => e2[t][r] = epochs[t][r]
    <3> HIDE DEF log
    <3> QED BY <1>3, <1>5, <1>6, <1>7
  <2> QED BY <1>5, <2>1, SameColumnSameReduction
<1>8. \A r \in Names, s \in Scenes : log.reduced[r][s] = ReducedOf(epochs, s, r)
  BY <1>1
<1>9. \A r \in Names : log.metrics[r] = MetricOf(old[r]) /\ log.abstentions[r] = AbstentionsOf(epochs, r)
  <2> HIDE DEF old
  <2> QED BY <1>1
<1>10. reduced = new
  <2> HIDE DEF log, touched
  <2> QED BY <1>7, <1>8
<1>11. \A r \in Names \ changed : old[r] = new[r]
  <2> SUFFICES ASSUME NEW r \in Names, r \notin changed PROVE old[r] = new[r]
    OBVIOUS
  <2>1. \A s \in Scenes : ReducedOf(e2, s, r) = ReducedOf(epochs, s, r)
    <3> HIDE DEF log, touched
    <3> QED BY <1>7
  <2> QED BY <2>1
<1>12. mets = [r \in Names |-> MetricOf(new[r])]
  <2> HIDE DEF reduced, new, old, log
  <2> QED BY <1>9, <1>10, <1>11
<1>13. \A r \in Names \ changed : AbstentionsOf(e2, r) = AbstentionsOf(epochs, r)
  <2> SUFFICES ASSUME NEW r \in Names, r \notin changed PROVE AbstentionsOf(e2, r) = AbstentionsOf(epochs, r)
    OBVIOUS
  <2>1. {t \in DOMAIN e2 : r \in DOMAIN e2[t] /\ e2[t][r] = "abstain"}
          = {t \in DOMAIN epochs : r \in DOMAIN epochs[t] /\ epochs[t][r] = "abstain"}
    BY <1>5, <1>6
  <2> QED BY <2>1 DEF AbstentionsOf
<1>14. abst = [r \in Names |-> AbstentionsOf(e2, r)]
  <2> HIDE DEF log
  <2> QED BY <1>9, <1>13
<1> HIDE DEF log, mets, abst, reduced, new
<1> QED BY <1>2, <1>4, <1>10, <1>12, <1>14 DEF log, e2

\* Only the last annotations re-scored from matter.
LEMMA RescoredTwice ==
    ASSUME NEW epochs, NEW first, NEW all
    PROVE  Rescored(Rescored(epochs, first), all) = Rescored(epochs, all)
<1>1. \A t \in DOMAIN epochs : \A r \in DOMAIN epochs[t] :
        RubricOf(r).scorer # "operator" => Rescored(epochs, first)[t][r] = epochs[t][r]
  BY DEF Rescored
<1>2. /\ DOMAIN Rescored(epochs, first) = DOMAIN epochs
      /\ \A t \in DOMAIN epochs : DOMAIN Rescored(epochs, first)[t] = DOMAIN epochs[t]
  BY RescoredSameTrials
<1> DEFINE e1 == Rescored(epochs, first)
           Row(e, t) == [r \in DOMAIN e[t] |->
                           IF RubricOf(r).scorer = "operator" THEN ScoreFrom(all, t, r) ELSE e[t][r]]
<1>3. \A e : Rescored(e, all) = [t \in DOMAIN e |-> Row(e, t)]
  BY DEF Rescored
<1> HIDE DEF e1
<1>4. \A t \in DOMAIN epochs : Row(e1, t) = Row(epochs, t)
  BY <1>1, <1>2 DEF e1
<1> HIDE DEF Row
<1> QED BY <1>2, <1>3, <1>4 DEF e1


----------------------------------------------------------------------------
\* What a log's own annotations say, and which of them are retired.

\* The run's judgement of a trial, and what it left unjudged, as lifted.
RunJudgement(t) == Annotation(t, "judgement", records[t].verdict, records[t].hint, <<"run", t>>)
RunError(t) == Annotation(t, "error", None, None, <<"error", t>>)
Stands(t) == records[t].end # "error" /\ records[t].verdict # None
Abstained(t) ==
    records[t].end # "error" /\ (records[t].error \/ (records[t].verdict # None /\ records[t].hint # None))
RunOf(t) == {a \in {RunJudgement(t)} : Stands(t)}
RunFor(t, rubric) == {a \in RunOf(t) : a.rubric = rubric}
ErrorOf(t) == {a \in {RunError(t)} : Abstained(t)}

\* Every lifted annotation is of its own trial and retires nothing.
LEMMA LiftedShape ==
    ASSUME NEW a \in Lift
    PROVE  /\ a.trial \in TrialsOf /\ a.supersedes = NoId
           /\ a.id \in {<<"run", a.trial>>, <<"note", a.trial>>, <<"error", a.trial>>}
<1>1. PICK t \in TrialsOf : records[t].end # "error" /\ a \in LiftTrial(records[t], t)
  BY DEF Lift
<1>2. \/ a = Annotation(t, "judgement", records[t].verdict, records[t].hint, <<"run", t>>)
      \/ a = Annotation(t, "note", "text", None, <<"note", t>>)
      \/ a = Annotation(t, "error", None, None, <<"error", t>>)
  BY <1>1 DEF LiftTrial, OnlyIf
<1> QED BY <1>2 DEF Annotation

LEMMA LiftedJudgement ==
    ASSUME NEW t \in TrialsOf
    PROVE  {a \in Lift : a.trial = t /\ a.kind = "judgement"} = RunOf(t)
<1>1. ASSUME NEW a \in Lift, a.trial = t, a.kind = "judgement" PROVE a \in RunOf(t)
  <2>1. PICK u \in TrialsOf : records[u].end # "error" /\ a \in LiftTrial(records[u], u)
    BY DEF Lift
  <2>2. \/ a = Annotation(u, "judgement", records[u].verdict, records[u].hint, <<"run", u>>)
           /\ records[u].verdict # None
        \/ a = Annotation(u, "note", "text", None, <<"note", u>>)
        \/ a = Annotation(u, "error", None, None, <<"error", u>>)
    BY <2>1 DEF LiftTrial, OnlyIf
  <2>3. u = t /\ a = RunJudgement(t) /\ records[t].verdict # None
    BY <1>1, <2>2 DEF Annotation, RunJudgement
  <2> QED BY <2>1, <2>3 DEF RunOf, Stands
<1>2. ASSUME NEW a \in RunOf(t) PROVE a \in Lift /\ a.trial = t /\ a.kind = "judgement"
  <2>1. a = RunJudgement(t) /\ records[t].end # "error" /\ records[t].verdict # None
    BY <1>2 DEF RunOf, Stands
  <2>2. a \in LiftTrial(records[t], t)
    BY <2>1 DEF LiftTrial, OnlyIf, RunJudgement
  <2>3. a \in Lift
    BY <2>1, <2>2 DEF Lift
  <2> QED BY <2>1, <2>3 DEF RunJudgement, Annotation
<1> QED BY <1>1, <1>2

LEMMA LiftedError ==
    ASSUME NEW t \in TrialsOf
    PROVE  {a \in Lift : a.trial = t /\ a.kind = "error"} = ErrorOf(t)
<1>1. ASSUME NEW a \in Lift, a.trial = t, a.kind = "error" PROVE a \in ErrorOf(t)
  <2>1. PICK u \in TrialsOf : records[u].end # "error" /\ a \in LiftTrial(records[u], u)
    BY DEF Lift
  <2>2. \/ a = Annotation(u, "judgement", records[u].verdict, records[u].hint, <<"run", u>>)
        \/ a = Annotation(u, "note", "text", None, <<"note", u>>)
        \/ a = Annotation(u, "error", None, None, <<"error", u>>)
           /\ (records[u].error \/ (records[u].verdict # None /\ records[u].hint # None))
    BY <2>1 DEF LiftTrial, OnlyIf
  <2>3. u = t /\ a = RunError(t)
        /\ (records[t].error \/ (records[t].verdict # None /\ records[t].hint # None))
    BY <1>1, <2>2 DEF Annotation, RunError
  <2> QED BY <2>1, <2>3 DEF ErrorOf, Abstained
<1>2. ASSUME NEW a \in ErrorOf(t) PROVE a \in Lift /\ a.trial = t /\ a.kind = "error"
  <2>1. a = RunError(t) /\ Abstained(t)
    BY <1>2 DEF ErrorOf
  <2>2. a \in LiftTrial(records[t], t)
    BY <2>1 DEF LiftTrial, OnlyIf, RunError, Abstained
  <2>3. a \in Lift
    BY <2>1, <2>2 DEF Lift, Abstained
  <2> QED BY <2>1, <2>3 DEF RunError, Annotation
<1> QED BY <1>1, <1>2

\* Only a correction retires, and only its own trial's annotation of its own rubric: the
\* run's judgement or an earlier correction.
LEMMA WhatIsRetired ==
    ASSUME NEW file, FileOK(file), NEW id \in Superseded(AnnotationsWith(file)), id # NoId
    PROVE  \E k \in 1..Len(file) :
             \/ id = <<"run", file[k].trial>> /\ Stands(file[k].trial)
                /\ records[file[k].trial].hint = file[k].rubric
             \/ \E m \in 1..(k - 1) : id = <<"edit", m>> /\ file[m].trial = file[k].trial
                                      /\ file[m].rubric = file[k].rubric
<1>1. PICK a \in Entries(AnnotationsWith(file)) : id = a.supersedes
  BY DEF Superseded
<1>2. a \notin Lift
  BY <1>1, LiftedShape
<1>3. PICK k \in DOMAIN file : a = file[k]
  BY <1>1, <1>2 DEF Entries, AnnotationsWith
<1>4. k \in 1..Len(file)
  BY <1>3 DEF FileOK
<1>5. Retires(file[k], file, k)
  BY <1>4 DEF FileOK, Follows
<1> QED BY <1>1, <1>3, <1>4, <1>5 DEF Retires, Stands

\* The corrections of a trial for a rubric, and what of all the annotations counts of them.
Lines(file, t, rubric) == {k \in 1..Len(file) : file[k].trial = t /\ file[k].rubric = rubric}
Live(all, t, kind) == {a \in Entries(all) : a.trial = t /\ a.kind = kind /\ a.id \notin Superseded(all)}
Class(all, t, kind, rubric) == {a \in Live(all, t, kind) : a.rubric = rubric}

LEMMA CurrentByClass ==
    ASSUME NEW all, NEW t, NEW kind, NEW r, r # None
    PROVE  Current(all, t, kind, r) =
             IF Class(all, t, kind, r) # {} THEN Newest(all, Class(all, t, kind, r))
             ELSE Newest(all, Class(all, t, kind, None))
<1>1. {a \in Live(all, t, kind) : r # None /\ a.rubric = r} = Class(all, t, kind, r)
  BY DEF Class
<1>2. {a \in Live(all, t, kind) : a.rubric = None} = Class(all, t, kind, None)
  BY DEF Class
<1>3. Current(all, t, kind, r) =
        Newest(all, IF {a \in Live(all, t, kind) : r # None /\ a.rubric = r} # {}
                    THEN {a \in Live(all, t, kind) : r # None /\ a.rubric = r}
                    ELSE {a \in Live(all, t, kind) : a.rubric = None})
  BY DEF Current, Live
<1> QED BY <1>1, <1>2, <1>3

\* The last correction of a trial for a rubric is never retired, and is the newest.
LEMMA LastLineCounts ==
    ASSUME NEW file, FileOK(file), NEW t, NEW rubric, Lines(file, t, rubric) # {}
    PROVE  /\ Class(AnnotationsWith(file), t, "judgement", rubric) # {}
           /\ Newest(AnnotationsWith(file), Class(AnnotationsWith(file), t, "judgement", rubric))
                = file[Max(Lines(file, t, rubric))]
<1> DEFINE all == AnnotationsWith(file)
           own == Lines(file, t, rubric)
           last == Max(own)
           class == Class(all, t, "judgement", rubric)
<1>1. Len(file) \in Nat /\ DOMAIN file = 1..Len(file)
  BY DEF FileOK
<1>2. last \in own /\ \A m \in own : m <= last
  <2>1. own \in SUBSET (1..Len(file))
    BY DEF Lines
  <2> HIDE DEF own
  <2> QED BY <1>1, <2>1, GreatestOf DEF own
<1>3. /\ last \in 1..Len(file) /\ file[last].trial = t /\ file[last].rubric = rubric
      /\ file[last].id = <<"edit", last>> /\ file[last].kind = "judgement"
  <2>1. last \in 1..Len(file) /\ file[last].trial = t /\ file[last].rubric = rubric
    BY <1>2 DEF Lines
  <2> HIDE DEF last
  <2>2. file[last] \in EditShape
    BY <2>1 DEF FileOK
  <2> QED BY <2>1, <2>2 DEF FileOK, EditShape
<1>4. <<"edit", last>> \notin Superseded(all)
  <2> SUFFICES ASSUME <<"edit", last>> \in Superseded(all) PROVE FALSE
    OBVIOUS
  <2>1. <<"edit", last>> # NoId
    BY DEF NoId
  <2> HIDE DEF last
  <2>2. PICK k \in 1..Len(file) :
             \/ <<"edit", last>> = <<"run", file[k].trial>>
             \/ \E m \in 1..(k - 1) : <<"edit", last>> = <<"edit", m>> /\ file[m].trial = file[k].trial
                                      /\ file[m].rubric = file[k].rubric
    BY <2>1, WhatIsRetired
  <2>3. PICK m \in 1..(k - 1) : <<"edit", last>> = <<"edit", m>> /\ file[m].trial = file[k].trial
                                /\ file[m].rubric = file[k].rubric
    BY <2>2
  <2>4. last = m
    BY <2>3
  <2>5. k \in own
    BY <1>3, <2>3, <2>4 DEF Lines
  <2>6. k <= last
    BY <1>2, <2>5
  <2> QED BY <1>1, <1>3, <2>4, <2>6
<1>5. file[last] \in class
  <2>1. file[last] \in Entries(all)
    <3> HIDE DEF last
    <3> QED BY <1>1, <1>3 DEF Entries, AnnotationsWith
  <2> HIDE DEF last
  <2> QED BY <1>3, <1>4, <2>1 DEF Class, Live
<1>6. {k \in DOMAIN all.file : all.file[k] \in class} \subseteq own
  <2> SUFFICES ASSUME NEW k \in DOMAIN all.file, all.file[k] \in class PROVE k \in own
    OBVIOUS
  <2>1. all.file = file
    BY DEF AnnotationsWith
  <2>2. file[k].trial = t /\ file[k].rubric = rubric
    BY <2>1 DEF Class, Live
  <2>3. k \in 1..Len(file)
    BY <1>1, <2>1
  <2> QED BY <2>2, <2>3 DEF Lines
<1>7. last \in {k \in DOMAIN all.file : all.file[k] \in class}
  <2> HIDE DEF last, class
  <2> QED BY <1>1, <1>3, <1>5 DEF AnnotationsWith
<1> DEFINE lines == {k \in DOMAIN all.file : all.file[k] \in class}
<1>8. Max(lines) = last
  <2>1. lines \in SUBSET (1..Len(file)) /\ lines # {}
    BY <1>1, <1>7 DEF AnnotationsWith
  <2>2. Max(lines) \in lines /\ \A m \in lines : m <= Max(lines)
    <3> HIDE DEF lines
    <3> QED BY <1>1, <2>1, GreatestOf
  <2>3. Max(lines) <= last /\ last <= Max(lines)
    <3> HIDE DEF lines, last, own
    <3> QED BY <1>2, <1>6, <1>7, <2>2 DEF lines
  <2>4. Max(lines) \in 1..Len(file) /\ last \in 1..Len(file)
    <3> HIDE DEF lines, last
    <3> QED BY <1>3, <2>1, <2>2
  <2> HIDE DEF lines, last
  <2> QED BY <1>1, <2>3, <2>4
<1>9. Newest(all, class) = all.file[Max(lines)]
  <2>1. class # {} /\ lines # {}
    BY <1>5, <1>7
  <2> HIDE DEF class
  <2> QED BY <2>1 DEF Newest, lines
<1>10. all.file = file
  BY DEF AnnotationsWith
<1> HIDE DEF lines, last, class
<1> QED BY <1>5, <1>8, <1>9, <1>10 DEF last, class


\* With no correction of a trial for a rubric, the run's own judgement counts, if it was
\* for that rubric.
LEMMA RunCountsUncorrected ==
    ASSUME NEW file, FileOK(file), NEW t \in TrialsOf, NEW rubric, Lines(file, t, rubric) = {}
    PROVE  /\ Class(AnnotationsWith(file), t, "judgement", rubric) = RunFor(t, rubric)
           /\ Newest(AnnotationsWith(file), RunFor(t, rubric))
                = IF RunFor(t, rubric) = {} THEN Absent ELSE RunJudgement(t)
<1> DEFINE all == AnnotationsWith(file)
           run == {a \in RunOf(t) : a.rubric = rubric}
           class == Class(all, t, "judgement", rubric)
<1>1. Len(file) \in Nat /\ DOMAIN file = 1..Len(file) /\ all.file = file /\ all.run = Lift
  BY DEF FileOK, AnnotationsWith
<1>2. ASSUME NEW a \in class PROVE a \in run
  <2>1. a \in Entries(all) /\ a.trial = t /\ a.kind = "judgement" /\ a.rubric = rubric
    BY <1>2 DEF Class, Live
  <2>2. a \in Lift
    <3> SUFFICES ASSUME NEW k \in 1..Len(file), a = file[k] PROVE FALSE
      BY <1>1, <2>1 DEF Entries
    <3>1. k \in Lines(file, t, rubric)
      BY <2>1 DEF Lines
    <3> QED BY <3>1
  <2> QED BY <2>1, <2>2, LiftedJudgement
<1>3. ASSUME NEW a \in run PROVE a \in class
  <2>1. a = RunJudgement(t) /\ Stands(t) /\ a.rubric = rubric
    BY <1>3 DEF RunOf
  <2>2. a \in Lift /\ a.trial = t /\ a.kind = "judgement"
    BY <1>3, LiftedJudgement
  <2>3. a.id = <<"run", t>> /\ records[t].hint = rubric
    BY <2>1 DEF RunJudgement, Annotation
  <2>4. <<"run", t>> \notin Superseded(all)
    <3> SUFFICES ASSUME <<"run", t>> \in Superseded(all) PROVE FALSE
      OBVIOUS
    <3>1. <<"run", t>> # NoId
      BY DEF NoId
    <3>2. PICK k \in 1..Len(file) :
             \/ <<"run", t>> = <<"run", file[k].trial>> /\ records[file[k].trial].hint = file[k].rubric
             \/ \E m \in 1..(k - 1) : <<"run", t>> = <<"edit", m>>
      BY <3>1, WhatIsRetired
    <3>3. t = file[k].trial /\ records[t].hint = file[k].rubric
      BY <3>2
    <3>4. k \in Lines(file, t, rubric)
      BY <2>3, <3>3 DEF Lines
    <3> QED BY <3>4
  <2>5. a \in Entries(all)
    BY <1>1, <2>2 DEF Entries
  <2> QED BY <2>1, <2>2, <2>3, <2>4, <2>5 DEF Class, Live
<1>4. class = run
  <2> HIDE DEF class, run
  <2> QED BY <1>2, <1>3
<1>5. Newest(all, run) = IF run = {} THEN Absent ELSE RunJudgement(t)
  <2>1. ASSUME run # {} PROVE run = {RunJudgement(t)}
    BY <2>1 DEF RunOf
  <2>2. ASSUME NEW k \in DOMAIN all.file PROVE all.file[k] \notin run
    <3> SUFFICES ASSUME all.file[k] \in run PROVE FALSE
      OBVIOUS
    <3>1. file[k] = RunJudgement(t)
      BY <1>1 DEF RunOf
    <3>2. file[k].id = <<"edit", k>>
      BY <1>1, <2>2 DEF FileOK
    <3>3. file[k].id = <<"run", t>>
      BY <3>1 DEF RunJudgement, Annotation
    <3> QED BY <3>2, <3>3
  <2> HIDE DEF run
  <2>3. {k \in DOMAIN all.file : all.file[k] \in run} = {}
    BY <2>2
  <2>4. Newest(all, run) = IF run = {} THEN Absent ELSE CHOOSE a \in run : TRUE
    BY <2>3 DEF Newest
  <2>5. ASSUME run # {} PROVE (CHOOSE a \in run : TRUE) = RunJudgement(t)
    BY <2>1, <2>5
  <2> QED BY <2>4, <2>5
<1>6. run = RunFor(t, rubric)
  BY DEF RunFor
<1> HIDE DEF run
<1> QED BY <1>4, <1>5, <1>6

\* A log alone is a file of no corrections.
LEMMA NoCorrections == FileOK(<<>>)
BY DEF FileOK

\* The annotation of a log alone that counts for a trial and a rubric.
LEMMA CurrentOfLog ==
    ASSUME NEW t \in TrialsOf, NEW r, r # None
    PROVE  /\ Current(AnnotationsWith(<<>>), t, "judgement", r) =
                IF Stands(t) /\ records[t].hint \in {r, None} THEN RunJudgement(t) ELSE Absent
           /\ Current(AnnotationsWith(<<>>), t, "error", r) =
                IF Abstained(t) THEN RunError(t) ELSE Absent
<1> DEFINE all == AnnotationsWith(<<>>)
<1>1. RunJudgement(t).rubric = records[t].hint /\ RunError(t).rubric = None
      /\ RunError(t).id = <<"error", t>> /\ RunError(t).trial = t /\ RunError(t).kind = "error"
  BY DEF RunJudgement, RunError, Annotation
<1>2. \A rubric : Lines(<<>>, t, rubric) = {}
  BY DEF Lines
<1>3. \A rubric : /\ Class(all, t, "judgement", rubric) = RunFor(t, rubric)
                  /\ Newest(all, RunFor(t, rubric)) = IF RunFor(t, rubric) = {} THEN Absent ELSE RunJudgement(t)
  <2> SUFFICES ASSUME NEW rubric
               PROVE  /\ Class(all, t, "judgement", rubric) = RunFor(t, rubric)
                      /\ Newest(all, RunFor(t, rubric)) = IF RunFor(t, rubric) = {} THEN Absent ELSE RunJudgement(t)
    OBVIOUS
  <2>1. Lines(<<>>, t, rubric) = {}
    BY <1>2
  <2> QED BY <2>1, NoCorrections, RunCountsUncorrected
<1>4. \A rubric : RunFor(t, rubric) = {} <=> ~(Stands(t) /\ records[t].hint = rubric)
  BY <1>1 DEF RunOf, RunFor
<1>5. Current(all, t, "judgement", r) =
        IF Stands(t) /\ records[t].hint \in {r, None} THEN RunJudgement(t) ELSE Absent
  <2>1. Current(all, t, "judgement", r) =
          IF RunFor(t, r) # {} THEN Newest(all, RunFor(t, r)) ELSE Newest(all, RunFor(t, None))
    <3> HIDE DEF all
    <3> QED BY <1>3, CurrentByClass
  <2> HIDE DEF all
  <2> QED BY <1>3, <1>4, <2>1
<1>6. Superseded(all) \subseteq {NoId}
  <2> SUFFICES ASSUME NEW id \in Superseded(all), id # NoId PROVE FALSE
    OBVIOUS
  <2>1. \E k \in 1..Len(<<>>) : TRUE
    BY NoCorrections, WhatIsRetired
  <2> QED BY <2>1
<1>7. Entries(all) = Lift
  BY DEF Entries, AnnotationsWith
<1>8. Live(all, t, "error") = ErrorOf(t)
  <2>1. \A a \in ErrorOf(t) : a.id # NoId
    BY <1>1 DEF ErrorOf, NoId
  <2>2. {a \in Lift : a.trial = t /\ a.kind = "error"} = ErrorOf(t)
    BY LiftedError
  <2> HIDE DEF all
  <2> QED BY <1>6, <1>7, <2>1, <2>2 DEF Live
<1>9. Class(all, t, "error", r) = {} /\ Class(all, t, "error", None) = ErrorOf(t)
  <2> HIDE DEF all
  <2> QED BY <1>1, <1>8 DEF Class, ErrorOf
<1>10. Newest(all, ErrorOf(t)) = IF Abstained(t) THEN RunError(t) ELSE Absent
  <2>1. {k \in DOMAIN all.file : all.file[k] \in ErrorOf(t)} = {}
    BY DEF AnnotationsWith
  <2>2. Newest(all, ErrorOf(t)) = IF ErrorOf(t) = {} THEN Absent ELSE CHOOSE a \in ErrorOf(t) : TRUE
    BY <2>1 DEF Newest
  <2>3. CASE Abstained(t)
    <3>1. ErrorOf(t) = {RunError(t)}
      BY <2>3 DEF ErrorOf
    <3> QED BY <2>2, <2>3, <3>1
  <2>4. CASE ~Abstained(t)
    <3>1. ErrorOf(t) = {}
      BY <2>4 DEF ErrorOf
    <3> QED BY <2>2, <2>4, <3>1
  <2> QED BY <2>3, <2>4
<1>11. Current(all, t, "error", r) = IF Abstained(t) THEN RunError(t) ELSE Absent
  <2> HIDE DEF all
  <2> QED BY <1>9, <1>10, CurrentByClass
<1> QED BY <1>5, <1>11


----------------------------------------------------------------------------
\* The parts of JudgementsCount, of any state of the invariant.

\* Re-scoring recomputes only what changed and still gives what accounting afresh does.
LEMMA ScoringIsAccounting ==
    ASSUME JudgeInv
    PROVE  RescoringIsAccounting
<1> SUFFICES ASSUME saved # Unsaved
             PROVE  \A all : Rescore(saved, all) = Account(Rescored(saved.epochs, all))
  BY DEF RescoringIsAccounting
<1>1. saved = Account(saved.epochs)
  BY DEF JudgeInv, SavedInv
<1> DEFINE epochs == saved.epochs
<1>2. saved = Account(epochs)
  BY <1>1
<1> HIDE DEF epochs
<1>3. \A all : Rescore(Account(epochs), all) = Account(Rescored(epochs, all))
  BY RescoreIsAccount
<1> QED BY <1>2, <1>3 DEF epochs

\* An exported log re-scores as the original does.
LEMMA ExportsAgree ==
    ASSUME JudgeInv
    PROVE  ExportAgrees
<1> SUFFICES ASSUME exported # <<>>, NEW all
             PROVE  Rescore(exported[1].log, all) = Rescore(saved, all)
  BY DEF ExportAgrees
<1>1. saved = Account(saved.epochs)
  BY DEF JudgeInv, SavedInv, EditsInv
<1>2. PICK first : exported[1].log = Account(Rescored(saved.epochs, first))
  BY DEF JudgeInv, ExportInv
<1>3. Rescore(exported[1].log, all) = Account(Rescored(Rescored(saved.epochs, first), all))
  BY <1>2, RescoreIsAccount
<1>4. Rescore(Account(saved.epochs), all) = Account(Rescored(saved.epochs, all))
  BY RescoreIsAccount
<1>5. Rescored(Rescored(saved.epochs, first), all) = Rescored(saved.epochs, all)
  BY RescoredTwice
<1> QED BY <1>1, <1>3, <1>4, <1>5

\* The operator scorer reads from a log alone the score it gave.
LEMMA ScoreReadBack ==
    ASSUME JudgeInv, saved # Unsaved, NEW t \in TrialsOf, NEW r \in DOMAIN saved.epochs[t],
           RubricOf(r).scorer = "operator"
    PROVE  ScoreFrom(AnnotationsWith(<<>>), t, r) = saved.epochs[t][r]
<1> DEFINE rec == records[t]
           all == AnnotationsWith(<<>>)
           s == saved.epochs[t]
<1>1. rec.end # "error" /\ s \in ScoresOf(rec)
  BY DEF JudgeInv, SavedInv, ScoredAsGraded
<1>2. r \in Names /\ r # None
  <2>1. s \in [Names -> {"yes", "no", "abstain"}]
    BY <1>1 DEF ScoresOf
  <2>2. r \in Names
    BY <2>1
  <2> QED BY <2>2, NamesAreNames DEF JudgeInv
<1>3. rec.hint # None => rec.verdict # None
  <2>1. t \in 1..Len(records)
    BY JudgingAssumption DEF JudgeInv, SavedInv, TrialsOf
  <2> QED BY <2>1 DEF JudgeInv, RecordsInv, RecordOK
<1>4. IF rec.hint \notin {None, r} THEN s[r] = "abstain" ELSE s[r] = OperatorScore(rec)
  <2>1. (CASE rec.hint \notin {None, r} /\ ReadsJudgement(RubricOf(r)) -> s[r] = "abstain"
           [] RubricOf(r).scorer = "operator" /\ rec.hint \in {None, r} -> s[r] = OperatorScore(rec)
           [] OTHER -> s[r] \in {"yes", "no"})
    BY <1>1, <1>2 DEF ScoresOf
  <2>2. ReadsJudgement(RubricOf(r))
    BY DEF ReadsJudgement
  <2> HIDE DEF s, rec
  <2> QED BY <2>1, <2>2
<1>5. /\ Current(all, t, "judgement", r) =
           IF Stands(t) /\ rec.hint \in {r, None} THEN RunJudgement(t) ELSE Absent
      /\ Current(all, t, "error", r) = IF Abstained(t) THEN RunError(t) ELSE Absent
  BY <1>2, CurrentOfLog
<1>6. /\ RunJudgement(t).id # NoId /\ RunJudgement(t).value = rec.verdict
      /\ RunError(t).id # NoId /\ Absent.id = NoId
  BY DEF RunJudgement, RunError, Annotation, NoId, Absent
<1>7. CASE rec.hint \notin {None, r}
  <2>1. Abstained(t)
    BY <1>1, <1>3, <1>7 DEF Abstained
  <2>2. ScoreFrom(all, t, r) = "abstain"
    <3> HIDE DEF all
    <3> QED BY <1>5, <1>6, <1>7, <2>1 DEF ScoreFrom
  <2> QED BY <1>4, <1>7, <2>2
<1>8. CASE rec.hint \in {None, r} /\ rec.verdict # None
  <2>1. Stands(t)
    BY <1>1, <1>8 DEF Stands
  <2>2. ScoreFrom(all, t, r) = Affirmative(rec.verdict)
    <3> HIDE DEF all
    <3> QED BY <1>5, <1>6, <1>8, <2>1 DEF ScoreFrom
  <2> QED BY <1>4, <1>8, <2>2 DEF OperatorScore
<1>9. CASE rec.verdict = None
  <2>1. ~Stands(t) /\ (Abstained(t) <=> rec.error)
    BY <1>1, <1>9 DEF Stands, Abstained
  <2>2. rec.hint \in {None, r}
    BY <1>3, <1>9
  <2>3. ScoreFrom(all, t, r) = IF rec.error THEN "abstain" ELSE "no"
    <3> HIDE DEF all
    <3> QED BY <1>5, <1>6, <2>1 DEF ScoreFrom
  <2> QED BY <1>4, <1>9, <2>2, <2>3 DEF OperatorScore
<1> QED BY <1>7, <1>8, <1>9

\* A log nobody corrected re-scores to itself.
LEMMA UneditedStays ==
    ASSUME JudgeInv
    PROVE  UneditedStaysAsStored
<1> SUFFICES ASSUME saved # Unsaved PROVE Rescore(saved, AnnotationsWith(<<>>)) = saved
  BY DEF UneditedStaysAsStored
<1> DEFINE all == AnnotationsWith(<<>>)
           epochs == saved.epochs
<1>1. saved = Account(epochs) /\ DOMAIN epochs = TrialsOf
      /\ \A t \in TrialsOf : DOMAIN epochs[t] = {} \/ epochs[t] \in ScoresOf(records[t])
  BY DEF JudgeInv, SavedInv, ScoredAsGraded
<1>2. \A t \in TrialsOf : \A r \in DOMAIN epochs[t] :
        RubricOf(r).scorer = "operator" => ScoreFrom(all, t, r) = epochs[t][r]
  BY ScoreReadBack
<1>3. Rescored(epochs, all) = epochs
  <2>1. Rescored(epochs, all) =
          [t \in TrialsOf |-> [r \in DOMAIN epochs[t] |->
             IF RubricOf(r).scorer = "operator" THEN ScoreFrom(all, t, r) ELSE epochs[t][r]]]
    BY <1>1 DEF Rescored
  <2>2. \A t \in TrialsOf :
          [r \in DOMAIN epochs[t] |->
             IF RubricOf(r).scorer = "operator" THEN ScoreFrom(all, t, r) ELSE epochs[t][r]] = epochs[t]
    <3> SUFFICES ASSUME NEW t \in TrialsOf
                 PROVE  [r \in DOMAIN epochs[t] |->
                           IF RubricOf(r).scorer = "operator" THEN ScoreFrom(all, t, r) ELSE epochs[t][r]]
                        = epochs[t]
      OBVIOUS
    <3>1. epochs[t] = [r \in DOMAIN epochs[t] |-> epochs[t][r]]
      BY <1>1 DEF ScoresOf, SavedInv, JudgeInv, ScoredAsGraded
    <3> HIDE DEF epochs, all
    <3>2. \A r \in DOMAIN epochs[t] : RubricOf(r).scorer = "operator" => ScoreFrom(all, t, r) = epochs[t][r]
      BY <1>2
    <3> QED BY <3>1, <3>2
  <2>3. epochs = [t \in TrialsOf |-> epochs[t]]
    BY DEF JudgeInv, SavedInv, ScoredAsGraded
  <2> HIDE DEF epochs, all
  <2> QED BY <2>1, <2>2, <2>3
<1>4. Rescore(Account(epochs), all) = Account(Rescored(epochs, all))
  BY RescoreIsAccount
<1> HIDE DEF epochs, all
<1> QED BY <1>1, <1>3, <1>4 DEF epochs, all

\* The last correction of a trial for a rubric counts for it.
LEMMA LastCounts ==
    ASSUME JudgeInv
    PROVE  LastWordCounts
<1> SUFFICES ASSUME saved # Unsaved, NEW t \in TrialsOf, NEW r \in Names
             PROVE  LET judged == IF records[t].end = "error" THEN None ELSE records[t].hint
                        own == {k \in DOMAIN edits : edits[k].trial = t /\
                                  (edits[k].given = r \/ (edits[k].given = None /\ judged = r))}
                        forAll == {k \in DOMAIN edits : edits[k].trial = t /\ edits[k].given = None /\ judged = None}
                        run == Current(AnnotationsWith(<<>>), t, "judgement", r)
                    IN Current(AnnotationsWith(edits), t, "judgement", r).value =
                         IF own # {} THEN edits[Max(own)].value
                         ELSE IF forAll # {} THEN edits[Max(forAll)].value ELSE run.value
  BY DEF LastWordCounts
<1> DEFINE judged == IF records[t].end = "error" THEN None ELSE records[t].hint
           own == {k \in DOMAIN edits : edits[k].trial = t /\
                     (edits[k].given = r \/ (edits[k].given = None /\ judged = r))}
           forAll == {k \in DOMAIN edits : edits[k].trial = t /\ edits[k].given = None /\ judged = None}
           log == AnnotationsWith(<<>>)
           all == AnnotationsWith(edits)
<1>1. FileOK(edits) /\ DOMAIN edits = 1..Len(edits) /\ r # None
  BY NamesAreNames DEF JudgeInv, EditsInv, FileOK
<1>2. \A k \in 1..Len(edits) : edits[k].trial = t =>
        edits[k].rubric = IF edits[k].given = None THEN judged ELSE edits[k].given
  BY <1>1 DEF FileOK, Follows, EditRubric
<1>3. own = Lines(edits, t, r) /\ forAll = Lines(edits, t, None)
  <2> HIDE DEF judged
  <2> QED BY <1>1, <1>2 DEF Lines
<1>4. Current(all, t, "judgement", r) =
        IF Class(all, t, "judgement", r) # {} THEN Newest(all, Class(all, t, "judgement", r))
        ELSE Newest(all, Class(all, t, "judgement", None))
  BY <1>1, CurrentByClass
<1>5. \A rubric : Lines(edits, t, rubric) # {} =>
        /\ Class(all, t, "judgement", rubric) # {}
        /\ Newest(all, Class(all, t, "judgement", rubric)) = edits[Max(Lines(edits, t, rubric))]
  <2> SUFFICES ASSUME NEW rubric, Lines(edits, t, rubric) # {}
               PROVE  /\ Class(all, t, "judgement", rubric) # {}
                      /\ Newest(all, Class(all, t, "judgement", rubric)) = edits[Max(Lines(edits, t, rubric))]
    OBVIOUS
  <2> QED BY <1>1, LastLineCounts
<1>6. \A rubric : Lines(edits, t, rubric) = {} =>
        /\ Class(all, t, "judgement", rubric) = RunFor(t, rubric)
        /\ Newest(all, RunFor(t, rubric)) = IF RunFor(t, rubric) = {} THEN Absent ELSE RunJudgement(t)
  <2> SUFFICES ASSUME NEW rubric, Lines(edits, t, rubric) = {}
               PROVE  /\ Class(all, t, "judgement", rubric) = RunFor(t, rubric)
                      /\ Newest(all, RunFor(t, rubric)) = IF RunFor(t, rubric) = {} THEN Absent ELSE RunJudgement(t)
    OBVIOUS
  <2> QED BY <1>1, RunCountsUncorrected
<1>7. \A rubric : RunFor(t, rubric) = {} <=> ~(Stands(t) /\ records[t].hint = rubric)
  <2>1. RunJudgement(t).rubric = records[t].hint
    BY DEF RunJudgement, Annotation
  <2> QED BY <2>1 DEF RunFor, RunOf
<1>8. Current(log, t, "judgement", r) =
        IF Stands(t) /\ records[t].hint \in {r, None} THEN RunJudgement(t) ELSE Absent
  BY <1>1, CurrentOfLog
<1>9. Stands(t) => judged = records[t].hint
  BY DEF Stands
<1>10. forAll # {} => judged = None
  OBVIOUS
<1> HIDE DEF all, log, judged, own, forAll
<1>11. ASSUME own # {}
       PROVE  Current(all, t, "judgement", r) = edits[Max(own)]
  BY <1>3, <1>4, <1>5, <1>11
<1>12. ASSUME own = {}, forAll # {}
       PROVE  Current(all, t, "judgement", r) = edits[Max(forAll)]
  <2>1. RunFor(t, r) = {}
    BY <1>1, <1>7, <1>9, <1>10, <1>12
  <2>2. Class(all, t, "judgement", r) = {}
    BY <1>3, <1>6, <1>12, <2>1
  <2> QED BY <1>3, <1>4, <1>5, <1>12, <2>2
<1>13. ASSUME own = {}, forAll = {}
       PROVE  Current(all, t, "judgement", r) = Current(log, t, "judgement", r)
  <2>1. Current(all, t, "judgement", r) =
          IF RunFor(t, r) # {} THEN Newest(all, RunFor(t, r)) ELSE Newest(all, RunFor(t, None))
    BY <1>3, <1>4, <1>6, <1>13
  <2>2. \A rubric \in {r, None} :
          Newest(all, RunFor(t, rubric)) = IF RunFor(t, rubric) = {} THEN Absent ELSE RunJudgement(t)
    BY <1>3, <1>6, <1>13
  <2> QED BY <1>7, <1>8, <2>1, <2>2
<1>14. Current(all, t, "judgement", r).value =
         IF own # {} THEN edits[Max(own)].value
         ELSE IF forAll # {} THEN edits[Max(forAll)].value ELSE Current(log, t, "judgement", r).value
  BY <1>11, <1>12, <1>13
<1> QED BY <1>14 DEF own, forAll, judged, all, log

LEMMA JudgeInvCounts == JudgeInv => JudgementsCount
BY ScoringIsAccounting, ExportsAgree, UneditedStays, LastCounts DEF JudgementsCount


----------------------------------------------------------------------------
\* While the run's configuration and records stay, so does all that is read from them.

LEMMA SameConfigSameNames ==
    ASSUME jcfg' = jcfg
    PROVE  /\ Names' = Names /\ TrialsOf' = TrialsOf /\ Scenes' = Scenes
           /\ \A r : RubricOf(r)' = RubricOf(r)
BY DEF Names, TrialsOf, Scenes, RubricOf

LEMMA SameConfigSameAccount ==
    ASSUME jcfg' = jcfg, NEW e
    PROVE  Account(e)' = Account(e)
<1>1. \A s, r : Column(e, s, r)' = Column(e, s, r)
  BY DEF Column
<1>2. \A s, r : EpochsOf(e, s, r)' = EpochsOf(e, s, r)
  BY <1>1 DEF EpochsOf
<1>3. \A v : Reduce(v)' = Reduce(v)
  BY DEF Reduce
<1>4. \A s, r : ReducedOf(e, s, r)' = ReducedOf(e, s, r)
  BY <1>2, <1>3 DEF ReducedOf
<1>5. Names' = Names /\ Scenes' = Scenes
  BY SameConfigSameNames
<1> QED BY <1>4, <1>5 DEF Account

LEMMA SameConfigSameRescored ==
    ASSUME jcfg' = jcfg, NEW e, NEW all
    PROVE  Rescored(e, all)' = Rescored(e, all)
<1>1. \A r : RubricOf(r)' = RubricOf(r)
  BY SameConfigSameNames
<1> QED BY <1>1 DEF Rescored

LEMMA SameConfigSameScores ==
    ASSUME jcfg' = jcfg, NEW rec
    PROVE  ScoresOf(rec)' = ScoresOf(rec)
<1>1. Names' = Names /\ \A r : RubricOf(r)' = RubricOf(r)
  BY SameConfigSameNames
<1> QED BY <1>1 DEF ScoresOf

LEMMA SameRunSameRecords ==
    ASSUME RecordsInv, UNCHANGED <<jcfg, records>>
    PROVE  RecordsInv'
<1>1. Names' = Names
  BY SameConfigSameNames
<1> QED BY <1>1 DEF RecordsInv, RecordOK

LEMMA SameRunSameSaved ==
    ASSUME SavedInv, UNCHANGED <<jcfg, records, saved>>
    PROVE  SavedInv'
<1> SUFFICES ASSUME saved # Unsaved, NEW e, e = saved.epochs PROVE SavedInv'
  BY DEF SavedInv
<1>1. Account(e)' = Account(e) /\ TrialsOf' = TrialsOf
  BY SameConfigSameAccount, SameConfigSameNames
<1>2. \A rec : ScoresOf(rec)' = ScoresOf(rec)
  BY SameConfigSameScores
<1>3. saved' = Account(e)' /\ Len(records') = Len(jcfg'.scenes)
  BY <1>1 DEF SavedInv
<1>4. e = [t \in TrialsOf |-> e[t]]
      /\ \A t \in TrialsOf :
           IF records[t].end = "error" THEN e[t] = [r \in {} |-> "no"] ELSE e[t] \in ScoresOf(records[t])
  BY DEF SavedInv, ScoredAsGraded
<1>5. ScoredAsGraded(e)'
  BY <1>1, <1>2, <1>4 DEF ScoredAsGraded
<1> QED BY <1>3, <1>5 DEF SavedInv

LEMMA SameRunSameExport ==
    ASSUME ExportInv, UNCHANGED <<jcfg, saved, exported>>
    PROVE  ExportInv'
<1> SUFFICES ASSUME exported # <<>> PROVE ExportInv'
  BY DEF ExportInv
<1>1. PICK all : exported[1].log = Account(Rescored(saved.epochs, all))
  BY DEF ExportInv
<1> DEFINE e == saved.epochs
<1>2. PICK x : x = Rescored(e, all)
  OBVIOUS
<1>3. Rescored(e, all)' = x
  BY <1>2 DEF Rescored, RubricOf
<1>4. Account(x)' = Account(x)
  BY SameConfigSameAccount
<1> QED BY <1>1, <1>2, <1>3, <1>4 DEF ExportInv

\* What a correction may retire stays so while the file only grows.
LEMMA StillFollows ==
    ASSUME UNCHANGED <<jcfg, records>>, NEW a, NEW file, NEW longer, NEW n \in Nat,
           Follows(a, file, n), \A m \in 1..(n - 1) : longer[m] = file[m], NEW k \in Nat, n <= k
    PROVE  Follows(a, longer, k)'
<1>1. TrialsOf' = TrialsOf
  BY SameConfigSameNames
<1>2. EditRubric(a.trial, a.given)' = EditRubric(a.trial, a.given)
  BY DEF EditRubric
<1>3. Retires(a, file, n)
  BY DEF Follows
<1>4. Retires(a, longer, k)'
  BY <1>3 DEF Retires
<1> QED BY <1>1, <1>2, <1>4 DEF Follows

LEMMA SameRunSameEdits ==
    ASSUME EditsInv, UNCHANGED <<jcfg, records, saved, edits, drafts>>,
           saved = Unsaved => loaded' = loaded /\ exported' = exported
    PROVE  EditsInv'
<1>1. ASSUME FileOK(edits) PROVE FileOK(edits)'
  <2>1. edits \in Seq(EditShape) /\ Len(edits) \in Nat
    BY <1>1 DEF FileOK
  <2>2. ASSUME NEW k \in 1..Len(edits)
        PROVE  edits[k].id = <<"edit", k>> /\ Follows(edits[k], edits, k)'
    <3> DEFINE a == edits[k]
               file == edits
    <3>1. Follows(a, file, k) /\ a.id = <<"edit", k>> /\ k \in Nat
      BY <1>1, <2>1 DEF FileOK
    <3> QED BY <3>1, StillFollows
  <2> QED BY <2>1, <2>2 DEF FileOK
<1>2. ASSUME NEW e \in Editors PROVE Drafting(drafts[e])'
  <2> SUFFICES ASSUME drafts[e] # Idle PROVE Drafting(drafts[e])'
    BY DEF Drafting, Idle
  <2> DEFINE d == drafts[e]
             file == edits
             n == Len(edits) + 1
  <2>1. d \in DraftShape /\ Follows(d, file, n) /\ saved # Unsaved
    BY DEF EditsInv, Drafting
  <2>2. n \in Nat
    BY <2>1 DEF EditsInv, FileOK
  <2>3. Follows(d, file, n)'
    BY <2>1, <2>2, StillFollows
  <2> QED BY <2>1, <2>3 DEF Drafting
<1> QED BY <1>1, <1>2 DEF EditsInv


----------------------------------------------------------------------------
\* The invariant is inductive.

LEMMA InitJudgeInv == JudgeInit => JudgeInv
<1> SUFFICES ASSUME JudgeInit PROVE JudgeInv
  OBVIOUS
<1>1. jcfg \in JConfigs /\ JConfigOK(jcfg) /\ preflight \in {"untried", "ok", "refused"}
  BY DEF JudgeInit
<1>2. RecordsInv /\ SavedInv /\ ExportInv
  BY DEF JudgeInit, RecordsInv, SavedInv, ExportInv
<1>3. EditsInv
  BY JudgingAssumption DEF JudgeInit, EditsInv, Drafting
<1> QED BY <1>1, <1>2, <1>3 DEF JudgeInv

LEMMA PreflightStep == ASSUME JudgeInv, Preflight PROVE JudgeInv'
<1>1. UNCHANGED <<jcfg, records, saved, edits, drafts, loaded, exported>>
      /\ preflight' \in {"untried", "ok", "refused"}
  BY DEF Preflight
<1>2. JConfigOK(jcfg)'
  BY <1>1 DEF JudgeInv, JConfigOK
<1> QED BY <1>1, <1>2, SameRunSameRecords, SameRunSameSaved, SameRunSameEdits, SameRunSameExport
        DEF JudgeInv

LEMMA TrialStep == ASSUME JudgeInv, Trial PROVE JudgeInv'
<1>1. /\ saved = Unsaved /\ Len(records) < Len(jcfg.scenes)
      /\ UNCHANGED <<jcfg, preflight, saved, edits, drafts, loaded, exported>>
  BY DEF Trial
<1>2. PICK end \in jcfg.ends[Len(records) + 1], console \in {None, jcfg.console} :
        LET rec == [end |-> end, verdict |-> console, note |-> FALSE, error |-> FALSE, hint |-> None]
        IN \E graded \in IF end = "error" THEN {rec} ELSE Graded(rec) :
             records' = Append(records, IF end = "error" THEN graded ELSE Scoped(graded))
  BY DEF Trial
<1> DEFINE rec == [end |-> end, verdict |-> console, note |-> FALSE, error |-> FALSE, hint |-> None]
<1>3. PICK graded \in IF end = "error" THEN {rec} ELSE Graded(rec) :
        records' = Append(records, IF end = "error" THEN graded ELSE Scoped(graded))
  BY <1>2
<1>4. records \in Seq(RecordShape) /\ Len(records) \in Nat
  BY DEF JudgeInv, RecordsInv
<1>5. rec \in RecordShape
  <2>1. Len(records) + 1 \in DOMAIN jcfg.scenes
    BY <1>1, <1>4, JudgingAssumption DEF JudgeInv
  <2>2. end \in Ends
    <3> DEFINE of(c) == UNION {c.ends[k] : k \in DOMAIN c.scenes}
    <3>1. end \in of(jcfg)
      BY <2>1
    <3>2. jcfg \in JConfigs
      BY DEF JudgeInv
    <3>3. Ends = UNION {of(c) : c \in JConfigs} \cup {"error"}
      BY DEF Ends
    <3> HIDE DEF of
    <3> QED BY <3>1, <3>2, <3>3
  <2>3. console \in Verdicts /\ None \in Hints
    BY DEF JudgeInv, Verdicts, Hints
  <2> QED BY <2>2, <2>3 DEF RecordShape
<1> DEFINE new == IF end = "error" THEN graded ELSE Scoped(graded)
<1>6. new \in RecordShape /\ RecordOK(new)
  <2>1. CASE end = "error"
    <3>1. new = rec
      BY <1>3, <2>1
    <3>2. RecordOK(rec)
      BY DEF RecordOK
    <3> HIDE DEF rec, new
    <3> QED BY <1>5, <3>1, <3>2
  <2>2. CASE end # "error"
    <3>1. graded \in RecordShape
      <4> HIDE DEF rec
      <4> QED BY <1>3, <1>5, <2>2, GradedShape DEF JudgeInv
    <3>2. Scoped(graded) \in RecordShape /\ RecordOK(Scoped(graded))
      BY <3>1, ScopedOK DEF JudgeInv
    <3> QED BY <2>2, <3>2
  <2> QED BY <2>1, <2>2
<1> HIDE DEF rec, new
<1>7. records' = Append(records, new)
  BY <1>3 DEF new
<1>8. RecordsInv'
  <2>1. records' \in Seq(RecordShape) /\ Len(records') = Len(records) + 1
    BY <1>4, <1>6, <1>7, AppendProperties
  <2>2. ASSUME NEW k \in 1..Len(records') PROVE RecordOK(records'[k])
    <3>1. CASE k = Len(records) + 1
      <4>1. records'[k] = new
        BY <1>4, <1>6, <1>7, <3>1, AppendProperties
      <4> QED BY <1>6, <4>1
    <3>2. CASE k # Len(records) + 1
      <4>1. k \in 1..Len(records) /\ records'[k] = records[k]
        BY <1>4, <1>6, <1>7, <2>1, <3>2, AppendProperties
      <4> QED BY <4>1 DEF JudgeInv, RecordsInv
    <3> QED BY <3>1, <3>2
  <2>3. Names' = Names
    BY <1>1, SameConfigSameNames
  <2> QED BY <2>1, <2>2, <2>3 DEF RecordsInv, RecordOK
<1>9. SavedInv' /\ ExportInv'
  BY <1>1 DEF JudgeInv, SavedInv, EditsInv, ExportInv
<1>10. EditsInv'
  BY <1>1 DEF JudgeInv, EditsInv, Drafting
<1>11. JConfigOK(jcfg)'
  BY <1>1 DEF JudgeInv, JConfigOK
<1> QED BY <1>1, <1>8, <1>9, <1>10, <1>11 DEF JudgeInv

LEMMA SaveStep == ASSUME JudgeInv, Save PROVE JudgeInv'
<1>1. /\ saved = Unsaved /\ Len(records) = Len(jcfg.scenes)
      /\ UNCHANGED <<jcfg, preflight, records, edits, drafts, loaded, exported>>
  BY DEF Save
<1>2. PICK scores \in [TrialsOf -> [Names -> {"yes", "no", "abstain"}]] :
       /\ \A t \in TrialsOf : records[t].end # "error" => scores[t] \in ScoresOf(records[t])
       /\ saved' = Account([t \in TrialsOf |->
            IF records[t].end = "error" THEN [r \in {} |-> "no"] ELSE scores[t]])
  BY DEF Save
<1>3. PICK e : e = [t \in TrialsOf |-> IF records[t].end = "error" THEN [r \in {} |-> "no"] ELSE scores[t]]
  OBVIOUS
<1>4. saved' = Account(e)
  BY <1>2, <1>3
<1>5. Account(e).epochs = e
  BY DEF Account
<1>6. Account(e)' = Account(e) /\ TrialsOf' = TrialsOf
  BY <1>1, SameConfigSameAccount, SameConfigSameNames
<1>7. \A rec : ScoresOf(rec)' = ScoresOf(rec)
  BY <1>1, SameConfigSameScores
<1>8. ScoredAsGraded(e)'
  BY <1>1, <1>2, <1>3, <1>6, <1>7 DEF ScoredAsGraded
<1>9. SavedInv'
  BY <1>1, <1>4, <1>5, <1>6, <1>8 DEF SavedInv
<1>10. edits = <<>> /\ drafts = [e_ \in Editors |-> Idle] /\ loaded = <<>> /\ exported = <<>>
  BY <1>1 DEF JudgeInv, EditsInv
<1>11. EditsInv'
  <2>1. FileOK(<<>>)'
    BY DEF FileOK
  <2> QED BY <1>1, <1>10, <2>1, JudgingAssumption DEF EditsInv, Drafting
<1>12. ExportInv'
  BY <1>1, <1>10 DEF ExportInv
<1>13. JConfigOK(jcfg)'
  BY <1>1 DEF JudgeInv, JConfigOK
<1> QED BY <1>1, <1>9, <1>11, <1>12, <1>13, SameRunSameRecords DEF JudgeInv

LEMMA ScoreLoadStep == ASSUME JudgeInv, ScoreLoad PROVE JudgeInv'
<1>1. /\ saved # Unsaved
      /\ UNCHANGED <<jcfg, preflight, records, saved, edits, drafts, exported>>
  BY DEF ScoreLoad
<1>2. JConfigOK(jcfg)'
  BY <1>1 DEF JudgeInv, JConfigOK
<1> QED BY <1>1, <1>2, SameRunSameRecords, SameRunSameSaved, SameRunSameEdits, SameRunSameExport
        DEF JudgeInv

LEMMA ScoreExportStep == ASSUME JudgeInv, ScoreExport PROVE JudgeInv'
<1>1. /\ loaded # <<>>
      /\ UNCHANGED <<jcfg, preflight, records, saved, edits, drafts>>
      /\ exported' = <<[log |-> Rescore(saved, AnnotationsWith(loaded[1])), edits |-> edits]>>
  BY DEF ScoreExport
<1>2. saved # Unsaved
  BY <1>1 DEF JudgeInv, EditsInv
<1>3. ExportInv'
  <2>1. PICK e : e = saved.epochs
    OBVIOUS
  <2>2. PICK all : all = AnnotationsWith(loaded[1])
    OBVIOUS
  <2>3. saved = Account(e)
    BY <1>2, <2>1 DEF JudgeInv, SavedInv
  <2>4. exported'[1].log = Account(Rescored(e, all))
    <3>1. exported'[1].log = Rescore(Account(e), all)
      BY <1>1, <2>2, <2>3
    <3> QED BY <3>1, RescoreIsAccount
  <2>5. PICK x : x = Rescored(e, all)
    OBVIOUS
  <2>6. Rescored(e, all)' = x /\ Account(x)' = Account(x)
    BY <1>1, <2>5, SameConfigSameRescored, SameConfigSameAccount
  <2>7. saved'.epochs = e
    BY <1>1, <2>1
  <2> QED BY <2>4, <2>5, <2>6, <2>7 DEF ExportInv
<1>4. JConfigOK(jcfg)'
  BY <1>1 DEF JudgeInv, JConfigOK
<1> QED BY <1>1, <1>2, <1>3, <1>4, SameRunSameRecords, SameRunSameSaved, SameRunSameEdits
        DEF JudgeInv


\* What counts of all the annotations is one of them, of that trial and kind, or none is.
LEMMA CurrentIsAnEntry ==
    ASSUME NEW file, FileOK(file), NEW t, NEW r, NEW p,
           p = Current(AnnotationsWith(file), t, "judgement", r)
    PROVE  \/ p = Absent
           \/ p \in Lift /\ p.trial = t /\ p.kind = "judgement"
           \/ \E k \in 1..Len(file) : p = file[k] /\ file[k].trial = t
<1> DEFINE all == AnnotationsWith(file)
           live == Live(all, t, "judgement")
           specific == {a \in live : r # None /\ a.rubric = r}
           chosen == IF specific # {} THEN specific ELSE {a \in live : a.rubric = None}
           lines == {k \in DOMAIN all.file : all.file[k] \in chosen}
<1>1. p = Newest(all, chosen)
  BY DEF Current, Live
<1>2. chosen \subseteq live
  OBVIOUS
<1>3. all.file = file /\ all.run = Lift /\ DOMAIN file = 1..Len(file) /\ Len(file) \in Nat
  BY DEF AnnotationsWith, FileOK
<1> HIDE DEF chosen
<1>4. p = Absent \/ p \in chosen
  <2>1. CASE chosen = {}
    BY <1>1, <2>1 DEF Newest
  <2>2. CASE chosen # {} /\ lines = {}
    <3>1. p = CHOOSE a \in chosen : TRUE
      BY <1>1, <2>2 DEF Newest
    <3> QED BY <2>2, <3>1
  <2>3. CASE chosen # {} /\ lines # {}
    <3>1. lines \in SUBSET (1..Len(file))
      BY <1>3
    <3>2. Max(lines) \in lines
      <4> HIDE DEF lines
      <4> QED BY <1>3, <2>3, <3>1, GreatestOf
    <3>3. p = all.file[Max(lines)]
      BY <1>1, <2>3 DEF Newest
    <3> QED BY <3>2, <3>3
  <2> QED BY <2>1, <2>2, <2>3
<1>5. ASSUME p \in live
      PROVE  \/ p \in Lift /\ p.trial = t /\ p.kind = "judgement"
             \/ \E k \in 1..Len(file) : p = file[k] /\ file[k].trial = t
  <2>1. p \in Entries(all) /\ p.trial = t /\ p.kind = "judgement"
    BY <1>5 DEF Live
  <2>2. p \in Lift \/ \E k \in 1..Len(file) : p = file[k]
    <3> HIDE DEF all
    <3> QED BY <1>3, <2>1 DEF Entries
  <2> QED BY <2>1, <2>2
<1> QED BY <1>2, <1>4, <1>5

LEMMA EditReadStep == ASSUME JudgeInv, NEW e \in Editors, EditRead(e) PROVE JudgeInv'
<1>1. /\ saved # Unsaved
      /\ UNCHANGED <<jcfg, preflight, records, saved, edits, loaded, exported>>
  BY DEF EditRead
<1>2. PICK c \in {x \in Corrections : x.trial \in TrialsOf} :
        LET rubric == EditRubric(c.trial, c.given)
            previous == Current(AnnotationsWith(edits), c.trial, "judgement", rubric)
        IN drafts' = [drafts EXCEPT ![e] =
             [trial |-> c.trial, value |-> c.value, given |-> c.given, rubric |-> rubric,
              supersedes |-> IF previous.rubric = rubric THEN previous.id ELSE NoId]]
  BY DEF EditRead
<1> DEFINE t == c.trial
           rubric == EditRubric(t, c.given)
           previous == Current(AnnotationsWith(edits), t, "judgement", rubric)
           id == IF previous.rubric = rubric THEN previous.id ELSE NoId
           draft == [trial |-> t, value |-> c.value, given |-> c.given, rubric |-> rubric,
                     supersedes |-> id]
           n == Len(edits)
<1>3. drafts' = [drafts EXCEPT ![e] = draft]
  BY <1>2
<1>4. FileOK(edits) /\ n \in Nat
  BY <1>1 DEF JudgeInv, EditsInv, FileOK
<1>5. t \in TrialsOf /\ t \in Nat /\ records[t] \in RecordShape
  <2>1. t \in TrialsOf /\ t \in 1..Len(jcfg.scenes)
    BY JudgingAssumption DEF TrialsOf, JudgeInv
  <2>2. t \in 1..Len(records) /\ records \in Seq(RecordShape)
    BY <1>1, <2>1 DEF JudgeInv, SavedInv, RecordsInv
  <2> QED BY <2>1, <2>2
<1> HIDE DEF previous, rubric
<1>6. \/ previous = Absent
      \/ previous \in Lift /\ previous.trial = t /\ previous.kind = "judgement"
      \/ \E k \in 1..n : previous = edits[k] /\ edits[k].trial = t
  BY <1>4, CurrentIsAnEntry DEF previous
<1>7. \/ id = NoId
      \/ id = <<"run", t>> /\ Stands(t) /\ records[t].hint = rubric
      \/ \E m \in 1..n : id = <<"edit", m>> /\ edits[m].trial = t /\ edits[m].rubric = rubric
  <2>1. CASE previous = Absent \/ previous.rubric # rubric
    BY <2>1 DEF Absent
  <2>2. CASE previous.rubric = rubric /\ previous \in Lift /\ previous.trial = t /\ previous.kind = "judgement"
    <3>1. previous \in RunOf(t)
      BY <1>5, <2>2, LiftedJudgement
    <3>2. previous = RunJudgement(t) /\ Stands(t)
      BY <3>1 DEF RunOf
    <3>3. previous.id = <<"run", t>> /\ previous.rubric = records[t].hint
      BY <3>2 DEF RunJudgement, Annotation
    <3> QED BY <2>2, <3>2, <3>3
  <2>3. CASE previous.rubric = rubric /\ \E k \in 1..n : previous = edits[k] /\ edits[k].trial = t
    <3>1. PICK k \in 1..n : previous = edits[k] /\ edits[k].trial = t
      BY <2>3
    <3>2. previous.id = <<"edit", k>>
      BY <1>4, <3>1 DEF FileOK
    <3> QED BY <2>3, <3>1, <3>2
  <2> QED BY <1>6, <2>1, <2>2, <2>3
<1>8. Retires(draft, edits, n + 1)
  <2>1. \A m \in 1..n : m \in 1..(n + 1 - 1)
    BY <1>4
  <2>2. draft.trial = t /\ draft.rubric = rubric /\ draft.supersedes = id
    OBVIOUS
  <2> HIDE DEF id, n, draft
  <2>3. CASE id = NoId
    BY <2>2, <2>3 DEF Retires
  <2>4. CASE id = <<"run", t>> /\ Stands(t) /\ records[t].hint = rubric
    BY <2>2, <2>4 DEF Retires, Stands
  <2>5. CASE \E m \in 1..n : id = <<"edit", m>> /\ edits[m].trial = t /\ edits[m].rubric = rubric
    <3>1. PICK m \in 1..n : id = <<"edit", m>> /\ edits[m].trial = t /\ edits[m].rubric = rubric
      BY <2>5
    <3>2. m \in 1..(n + 1 - 1) /\ draft.supersedes = <<"edit", m>>
          /\ edits[m].trial = draft.trial /\ edits[m].rubric = draft.rubric
      BY <2>1, <2>2, <3>1
    <3> HIDE DEF t, rubric
    <3>3. PICK next : next = n + 1
      OBVIOUS
    <3>4. m \in 1..(next - 1)
      BY <1>4, <3>1, <3>3
    <3>5. Retires(draft, edits, next)
      BY <3>2, <3>4 DEF Retires
    <3> QED BY <3>3, <3>5
  <2> QED BY <1>7, <2>3, <2>4, <2>5
<1>9. draft \in DraftShape
  <2>1. rubric \in Givens \cup Hints
    BY <1>5 DEF rubric, EditRubric, Givens, RecordShape
  <2>2. id \in EntryIds
    <3> HIDE DEF id
    <3> QED BY <1>4, <1>5, <1>7 DEF EntryIds, NoId
  <2>3. c.value \in {x.value : x \in Corrections} /\ c.given \in Givens
    BY DEF Givens
  <2> HIDE DEF id
  <2> QED BY <1>5, <2>1, <2>2, <2>3 DEF DraftShape
<1>10. Follows(draft, edits, n + 1)
  <2>1. draft.trial \in TrialsOf /\ draft.rubric = EditRubric(draft.trial, draft.given)
    BY <1>5 DEF rubric
  <2> HIDE DEF draft
  <2> QED BY <1>8, <2>1 DEF Follows
<1> HIDE DEF draft, id
<1>13. PICK new : new = draft
  OBVIOUS
<1>11. EditsInv'
  <2>1. FileOK(edits)' /\ Len(edits') <= MaxEdits
    <3>1. (edits \in Seq(EditShape)) /\ edits' = edits
      BY <1>1, <1>4 DEF FileOK
    <3>2. ASSUME NEW k \in 1..n PROVE edits[k].id = <<"edit", k>> /\ Follows(edits[k], edits, k)'
      <4> DEFINE a == edits[k]
                 file == edits
      <4>1. Follows(a, file, k) /\ a.id = <<"edit", k>> /\ k \in Nat
        BY <1>4, <3>2 DEF FileOK
      <4> QED BY <1>1, <4>1, StillFollows
    <3>3. FileOK(edits)'
      BY <3>1, <3>2 DEF FileOK
    <3> QED BY <1>1, <3>3 DEF JudgeInv, EditsInv
  <2>2. DOMAIN drafts' = Editors
    BY <1>3 DEF JudgeInv, EditsInv
  <2>5. PICK file, next : file = edits /\ next = n + 1
    OBVIOUS
  <2>3. ASSUME NEW d, Follows(d, edits, n + 1)
        PROVE  Follows(d, edits, n + 1)'
    <3>1. Follows(d, file, next) /\ next \in Nat /\ next <= next
      BY <1>4, <2>3, <2>5
    <3>2. Follows(d, file, next)'
      BY <1>1, <3>1, StillFollows
    <3>3. edits' = file /\ n' + 1 = next
      BY <1>1, <2>5
    <3> QED BY <3>2, <3>3
  <2>4. ASSUME NEW x \in Editors PROVE Drafting(drafts[x])'
    <3>1. CASE x = e
      <4>1. drafts'[x] = new /\ new \in DraftShape
        BY <1>3, <1>9, <1>13, <3>1 DEF JudgeInv, EditsInv
      <4>2. Follows(new, edits, n + 1)
        BY <1>10, <1>13
      <4>3. Follows(new, edits, n + 1)'
        BY <2>3, <4>2
      <4> QED BY <1>1, <4>1, <4>3 DEF Drafting
    <3>2. CASE x # e
      <4>1. drafts'[x] = drafts[x] /\ Drafting(drafts[x])
        BY <1>3, <3>2 DEF JudgeInv, EditsInv
      <4>2. CASE drafts[x] # Idle
        <5>1. drafts[x] \in DraftShape /\ Follows(drafts[x], edits, n + 1)
          BY <4>1, <4>2 DEF Drafting
        <5> QED BY <1>1, <2>3, <4>1, <5>1 DEF Drafting
      <4> QED BY <4>1, <4>2 DEF Drafting, Idle
    <3> QED BY <3>1, <3>2
  <2> QED BY <1>1, <2>1, <2>2, <2>4 DEF EditsInv
<1>12. JConfigOK(jcfg)'
  BY <1>1 DEF JudgeInv, JConfigOK
<1> QED BY <1>1, <1>11, <1>12, SameRunSameRecords, SameRunSameSaved, SameRunSameExport DEF JudgeInv


LEMMA EditAppendStep == ASSUME JudgeInv, NEW e \in Editors, EditAppend(e) PROVE JudgeInv'
<1> DEFINE d == drafts[e]
           n == Len(edits)
           line == [trial |-> d.trial, kind |-> "judgement", value |-> d.value, rubric |-> d.rubric,
                    id |-> <<"edit", n + 1>>, supersedes |-> d.supersedes, given |-> d.given]
<1>1. /\ d # Idle /\ n < MaxEdits
      /\ edits' = Append(edits, line)
      /\ drafts' = [drafts EXCEPT ![e] = Idle]
      /\ UNCHANGED <<jcfg, preflight, records, saved, loaded, exported>>
  BY DEF EditAppend
<1>2. d \in DraftShape /\ Follows(d, edits, n + 1)
  BY <1>1 DEF JudgeInv, EditsInv, Drafting
<1>3. saved # Unsaved
  BY <1>1 DEF JudgeInv, EditsInv
<1>4. FileOK(edits) /\ edits \in Seq(EditShape) /\ n \in Nat
  BY <1>3 DEF JudgeInv, EditsInv, FileOK
<1>5. line \in EditShape
  BY <1>2, <1>4 DEF DraftShape, EditShape, EntryIds
<1>6. Follows(line, edits, n + 1) /\ line.id = <<"edit", n + 1>>
  <2>1. line.trial = d.trial /\ line.rubric = d.rubric /\ line.supersedes = d.supersedes
        /\ line.given = d.given /\ line.id = <<"edit", n + 1>>
    OBVIOUS
  <2> HIDE DEF line, n, d
  <2> QED BY <1>2, <2>1 DEF Follows, Retires
<1> HIDE DEF line, d
<1>7. edits' \in Seq(EditShape) /\ Len(edits') = n + 1 /\ edits'[n + 1] = line
      /\ \A m \in 1..n : edits'[m] = edits[m]
  BY <1>1, <1>4, <1>5, AppendProperties
<1>8. PICK file, longer, new : file = edits /\ longer = edits' /\ new = line
  OBVIOUS
<1> HIDE DEF n
<1>9. PICK len : len = n
  OBVIOUS
<1>10. ASSUME NEW a, NEW k \in 1..(len + 1), NEW at \in Nat, k <= at, Follows(a, file, k)
       PROVE  Follows(a, longer, at)'
  <2>1. \A m \in 1..(k - 1) : longer[m] = file[m]
    BY <1>4, <1>7, <1>8, <1>9, <1>10
  <2>2. k \in Nat
    BY <1>4, <1>9
  <2> QED BY <1>1, <1>10, <2>1, <2>2, StillFollows
<1>11. FileOK(longer)'
  <2>1. longer \in Seq(EditShape) /\ Len(longer) = len + 1 /\ len \in Nat
    BY <1>4, <1>7, <1>8, <1>9
  <2>2. ASSUME NEW k \in 1..(len + 1) PROVE longer[k].id = <<"edit", k>> /\ Follows(longer[k], longer, k)'
    <3>1. CASE k = len + 1
      <4>1. longer[k] = new /\ Follows(new, file, k) /\ new.id = <<"edit", k>>
        BY <1>6, <1>7, <1>8, <1>9, <3>1
      <4>2. k \in Nat /\ k <= k
        BY <2>1
      <4>3. Follows(new, longer, k)'
        BY <1>10, <4>1, <4>2
      <4> QED BY <4>1, <4>3
    <3>2. CASE k # len + 1
      <4>1. k \in 1..len /\ k \in Nat /\ k <= k
        BY <2>1, <3>2
      <4>2. longer[k] = file[k] /\ Follows(file[k], file, k) /\ file[k].id = <<"edit", k>>
        BY <1>4, <1>7, <1>8, <1>9, <4>1 DEF FileOK, n
      <4>3. Follows(file[k], longer, k)'
        BY <1>10, <4>1, <4>2
      <4> QED BY <4>2, <4>3
    <3> QED BY <3>1, <3>2
  <2> QED BY <2>1, <2>2 DEF FileOK
<1>12. EditsInv'
  <2>1. FileOK(edits)' /\ Len(edits') <= MaxEdits
    <3>1. n + 1 <= MaxEdits
      BY <1>1, <1>4, JudgingAssumption
    <3> QED BY <1>7, <1>8, <1>11, <3>1
  <2>2. DOMAIN drafts' = Editors
    BY <1>1 DEF JudgeInv, EditsInv
  <2>3. ASSUME NEW x \in Editors PROVE Drafting(drafts[x])'
    <3>1. CASE x = e
      BY <1>1, <3>1 DEF JudgeInv, EditsInv, Drafting, Idle
    <3>2. CASE x # e
      <4>1. drafts'[x] = drafts[x] /\ Drafting(drafts[x])
        BY <1>1, <3>2 DEF JudgeInv, EditsInv
      <4>2. CASE drafts[x] # Idle
        <5>1. PICK old : old = drafts[x]
          OBVIOUS
        <5>2. old \in DraftShape /\ Follows(old, file, len + 1)
          BY <1>8, <1>9, <4>1, <4>2, <5>1 DEF Drafting, n
        <5>3. Follows(old, longer, len + 2)'
          <6>1. len + 2 \in Nat /\ len + 1 <= len + 2 /\ len + 1 \in 1..(len + 1)
            BY <1>4, <1>9
          <6> QED BY <1>10, <5>2, <6>1
        <5>4. Len(edits') + 1 = len + 2
          BY <1>4, <1>7, <1>9
        <5> QED BY <1>8, <4>1, <5>1, <5>2, <5>3, <5>4 DEF Drafting
      <4> QED BY <4>1, <4>2 DEF Drafting, Idle
    <3> QED BY <3>1, <3>2
  <2> QED BY <1>1, <1>3, <2>1, <2>2, <2>3 DEF EditsInv
<1>13. JConfigOK(jcfg)'
  BY <1>1 DEF JudgeInv, JConfigOK
<1> QED BY <1>1, <1>12, <1>13, SameRunSameRecords, SameRunSameSaved, SameRunSameExport DEF JudgeInv

LEMMA SameJudgeInv == ASSUME JudgeInv, UNCHANGED judgeVars PROVE JudgeInv'
<1>1. UNCHANGED <<jcfg, preflight, records, saved, edits, drafts, loaded, exported>>
  BY DEF judgeVars
<1>2. JConfigOK(jcfg)'
  BY <1>1 DEF JudgeInv, JConfigOK
<1> QED BY <1>1, <1>2, SameRunSameRecords, SameRunSameSaved, SameRunSameEdits, SameRunSameExport
        DEF JudgeInv

LEMMA NextJudgeInv == JudgeInv /\ [JudgeNext]_judgeVars => JudgeInv'
<1> SUFFICES ASSUME JudgeInv, [JudgeNext]_judgeVars PROVE JudgeInv'
  OBVIOUS
<1>1. CASE Preflight
  BY <1>1, PreflightStep
<1>2. CASE Trial
  BY <1>2, TrialStep
<1>3. CASE Save
  BY <1>3, SaveStep
<1>4. CASE ScoreLoad
  BY <1>4, ScoreLoadStep
<1>5. CASE ScoreExport
  BY <1>5, ScoreExportStep
<1>6. ASSUME NEW e \in Editors, EditRead(e) PROVE JudgeInv'
  BY <1>6, EditReadStep
<1>7. ASSUME NEW e \in Editors, EditAppend(e) PROVE JudgeInv'
  BY <1>7, EditAppendStep
<1>8. CASE UNCHANGED judgeVars
  BY <1>8, SameJudgeInv
<1> QED BY <1>1, <1>2, <1>3, <1>4, <1>5, <1>6, <1>7, <1>8 DEF JudgeNext

LEMMA JudgeInvTyped == JudgeInv => JudgingTypeOK
<1> SUFFICES ASSUME JudgeInv PROVE JudgingTypeOK
  OBVIOUS
<1>1. records \in Seq(RecordShape) /\ \A k \in 1..Len(records) : RecordOK(records[k])
  BY DEF JudgeInv, RecordsInv
<1>2. DOMAIN records = 1..Len(records)
  BY <1>1, LenProperties
<1> QED BY <1>1, <1>2 DEF JudgeInv, EditsInv, RecordOK, JudgingTypeOK

\* A judgement nobody corrected stays as the run stored it, a corrected one counts by its
\* last correction however the editors interleave, re-scoring gives what accounting afresh
\* would, and an export says the same.
THEOREM JudgementsAlwaysCount == JudgeSpec => []JudgementsCount
<1>1. JudgeSpec => []JudgeInv
  BY InitJudgeInv, NextJudgeInv, PTL DEF JudgeSpec
<1> QED BY <1>1, JudgeInvCounts, PTL

=============================================================================
