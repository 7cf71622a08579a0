--------------------------- MODULE JudgingProofs ---------------------------
(***************************************************************************)
(* Theorems about the judging of one id: types, verdicts, artifacts,       *)
(* containers and what was analysed, for every set of problems, any        *)
(* uploads, calls and rules, and any number of attempts.  An attempt may   *)
(* overlap threads of earlier ones.                                        *)
(***************************************************************************)
EXTENDS Judging, TLAPS, FiniteSetTheorems

Makers == {"none", "student", "staff", "judge"}
Stages == {"idle", "prepare", "rules", "analysis", "work", "cases", "closing"}

ToolRec == [job : {"build", "compile"}, att : Attempts,
            pc : {"work", "collect", "send"}, data : 0..MaxAttempts]

Earlier == {"prepare", "start", "run", "talk"}
CaseRec ==
  [att : Attempts, id : CaseIds,
   pc : Earlier \cup {"check", "checking", "keep", "record", "sweep", "closing"},
   prog : Makers, of : 0..MaxAttempts, use : {"none", "ready", "error"},
   ran : {"none", "unprepared", "match", "differ", "TLE", "RE", "talked"},
   said : {"none", "AC", "WA", "other", "crash"},
   left : BOOLEAN, fault : BOOLEAN, v : Verdicts \cup {"none"}]

CloserRec ==
  [att : Attempts, data : 0..MaxAttempts, over : BOOLEAN,
   pc : {"parse", "score", "put", "upload", "forget", "cleanup"}]

ProcRec == [st : {"none", "run", "wait", "exit"},
            res : {"none", "AC", "RE", "TLE", "odd"}]
OrchRec ==
  [pc : {"off", "setup", "first", "second", "poll", "read", "done"},
   try : {1, 2}, stu : ProcRec, tea : ProcRec, toTea : BOOLEAN,
   toStu : BOOLEAN, kick : BOOLEAN, check : {"none", "AC", "WA", "odd"},
   verdict : {"none", "AC", "WA", "CE", "TLE", "RE"}]

StoreRec ==
  [snaps : SUBSET CaseIds, arts : [CaseIds -> [att : 0..MaxAttempts, extra : BOOLEAN]],
   binary : 0..MaxAttempts, sent : BOOLEAN]

(* What the visitors collect has no bearing on the types of the rest.       *)
AnalysisRec ==
  [pc : {"off", "none", "files", "visit", "search", "skipped", "passed", "failed"},
   rules : {analysis.rules}, white : {analysis.white}, files : SUBSET Sources,
   todo : SUBSET analysis.files, graph : {analysis.graph},
   seen : {analysis.seen}, stack : {analysis.stack}, left : {analysis.left},
   found : {analysis.found}, facts : {analysis.facts}]

Globals ==
  /\ problem \in Problems /\ att \in 0..MaxAttempts /\ stage \in Stages
  /\ results \in [CaseIds -> Verdicts \cup {"none"}]
  /\ info \in {"none", "ready", "error"}
  /\ home \in {0, att} /\ src \in [Names -> Makers]
  /\ teacher \in BOOLEAN /\ prebuilt \in BOOLEAN
  /\ compiled \in {"none", "AC", "CE", "JE"}
  /\ overlap \in BOOLEAN
  /\ analysis \in AnalysisRec
  /\ collector \in StoreRec

(* The steps of the dispatcher: what is there at which stage.               *)
Analysing == {"files", "visit", "search"}
Flow ==
  /\ stage # "idle" => att \in Attempts
  /\ stage \in {"prepare", "rules", "analysis", "work", "cases"} => home = att
  /\ home = 0 => src = NoFiles
  /\ analysis.pc \in Analysing => stage = "analysis"
  /\ stage \in {"idle", "prepare", "rules", "analysis"} => compiled = "none"
  /\ stage \in {"idle", "prepare"} => ~prebuilt
  /\ ~problem.py /\ ~NeedsMake => ~prebuilt
  /\ stage = "cases" => prebuilt \/ problem.py \/ compiled # "none"
  /\ stage \in {"prepare", "rules", "analysis", "work"} =>
       \A n \in CaseIds : results[n] = "none"

-----------------------------------------------------------------------------
(* A build or compile thread.  Only one is at work, for the latest attempt, *)
(* and its cases have not been started.                                     *)
ToolOK(t) ==
  /\ t \in ToolRec
  /\ t.att <= att
  /\ t.pc = "work" => /\ t.att = att /\ t.data = 0 /\ stage = "work"
                      /\ t.job = "build" <=> NeedsMake
                      /\ t.job = "compile" => ~problem.py /\ compiled = "none"
  /\ t.pc = "send" /\ ~overlap => t.data = t.att
  /\ ~overlap => t.att = att

ToolsOK == \A t \in tools : ToolOK(t)

-----------------------------------------------------------------------------
(* A case thread: before it has recorded its verdict it is of the latest    *)
(* attempt.                                                                 *)
Early(t) == t.pc \notin {"sweep", "closing"}

Position(t) ==
  /\ t \in CaseRec
  /\ t.att <= att
  /\ t.att = att => stage \in {"cases", "closing", "idle"}
  /\ Early(t) => t.att = att /\ stage = "cases" /\ results[t.id] = "none"
  /\ ~overlap => t.att = att

(* What it has found out ...                                                *)
Reason(t) ==
  /\ t.v = "AC" => IF t.use = "ready" THEN t.said = "AC" /\ t.ran \notin Marks
                                      ELSE t.ran = "match"
  /\ t.v = "WA" => t.said = "WA" \/ (t.use = "none" /\ t.ran = "differ")
  /\ t.v \in Marks => t.ran = t.v
  /\ t.v = "CE" => t.ran = "none"
  /\ problem.short /\ t.v # "CE" => t.v = "JE"

Evidence(t) ==
  /\ t.pc \in Earlier => t.v = "none" /\ t.ran = "none" /\ t.said = "none"
  /\ t.pc = "check" =>
       /\ t.said = "none" /\ t.ran # "talked"
       /\ \/ t.v = "JE"
          \/ ~problem.short /\ t.ran \in {"match", "differ"} \cup Marks
               /\ t.v = Judged(t, t.ran)
  /\ t.pc = "checking" =>
       t.use = "ready" /\ ~problem.short /\ t.ran \in {"match", "differ"}
  /\ ~overlap /\ t.pc \in {"keep", "record", "sweep", "closing"} /\ t.ran # "talked" =>
       Reason(t)

(* ... and what it relies on: the orchestrator's record, the compile        *)
(* result, the checker's information, its snapshot.                         *)
Support(t) ==
  /\ t.att = att /\ t.ran = "talked" =>
       orch[t.id].pc = "done" /\ t.v = orch[t.id].verdict
  /\ Current(t.att) /\ t.ran # "talked" /\ t.v = "CE" => compiled = "CE"
  /\ ~overlap /\ Early(t) /\ t.use = "ready" => info = "ready"
  /\ t.pc \in {"prepare", "check", "checking"} => ~t.left
  /\ t.pc = "keep" /\ t.left => t.ran = "none"
  /\ ~overlap /\ Early(t) /\ t.left => t.id \in collector.snaps

CaseOK(t) == Position(t) /\ Evidence(t) /\ Support(t)

CasesOK ==
  /\ \A t \in cases : CaseOK(t)
  /\ \A t, u \in cases : t.att = u.att /\ t.id = u.id => t = u

(* The orchestrator of a case decides when both programs have ended.        *)
Decided(o) ==
  /\ o.pc = "read" => ~Running(o.stu) /\ ~Running(o.tea)
  /\ o.pc = "done" /\ o.verdict # "CE" =>
       /\ ~Running(o.stu) /\ ~Running(o.tea)
       /\ o.verdict \in {"AC", "WA"} =>
            o.stu.res = "AC" /\ o.tea.res = "AC" /\ o.check = o.verdict
       /\ o.verdict \in Marks => o.verdict \in {o.stu.res, o.tea.res}

OrchOK == orch \in [CaseIds -> OrchRec] /\ \A n \in CaseIds : Decided(orch[n])

-----------------------------------------------------------------------------
(* A thread that completes the submission.  One at most has not released    *)
(* the id yet.                                                              *)
CloserOK(c) ==
  /\ c \in CloserRec
  /\ c.att <= att
  /\ c.pc # "cleanup" => c.att = att /\ stage = "closing"
  /\ c.pc = "cleanup" /\ c.att = att => stage = "idle"
  /\ c.pc \in {"parse", "score", "put"} => c.data = 0
  /\ ~overlap => c.att = att /\ c.data \in {0, att}
  /\ c.pc = "forget" /\ ~overlap /\ ~c.over /\ c.data # 0 =>
       \E u \in uploads : u.kind = "binary" /\ u.by = c.att

ClosersOK ==
  /\ \A c \in closing : CloserOK(c)
  /\ \A c, d \in closing : c.pc # "cleanup" /\ d.pc # "cleanup" => c = d

(* Unless attempts overlap, the collector has only what is of the latest,   *)
(* and nothing of one that has ended.                                       *)
StoreOK ==
  ~overlap =>
    /\ collector.binary \in {0, att}
    /\ \A n \in CaseIds : collector.arts[n].att \in {0, att} /\ ~collector.arts[n].extra
    /\ collector.sent => \E u \in uploads : u.kind = "binary" /\ u.by = att
    /\ stage = "idle" /\ closing = {} => collector = NoStore /\ tools = {}
    /\ \A u \in uploads : u.kind # "resource" /\ u.of = u.by

-----------------------------------------------------------------------------
(* Who made the sources, and which of them were analysed.                   *)
OwnSources == {f \in Sources : src[f] = "student"}

SourcesOK ==
  /\ problem.zip => \A f \in Sources : src[f] \in {"none", "student"}
  /\ ~problem.zip /\ stage = "prepare" => src = Files({"entry"}, "student")
  /\ ~problem.zip /\ stage \in {"rules", "analysis", "work", "cases"} =>
       OwnSources \subseteq {Target}
  /\ stage \in {"analysis", "work", "cases"} /\ analysis.pc \in {"visit", "search", "passed"} =>
       IF problem.zip /\ src.makefile # "none"
         THEN analysis.files \cap OwnSources # {}
         ELSE OwnSources \subseteq analysis.files

(* Who is going to remove a container.                                      *)
Remover(t, b) ==
  \/ t.pc \in {"run", "talk"} /\ b = Mine(t, "run")
  \/ t.pc = "checking" /\ b \in {Mine(t, "check"), Mine(t, "router")}

BoxesOK ==
  \A b \in boxes \ refused :
    \/ \E t \in cases : Remover(t, b)
    \/ \E c \in closing : b = ScoreBox(c) /\ c.pc = "score"

JudgingInv ==
  /\ Globals /\ Flow /\ ToolsOK /\ CasesOK /\ OrchOK /\ ClosersOK /\ StoreOK /\ SourcesOK
  /\ BoxesOK

-----------------------------------------------------------------------------
(* A problem is one of the program's.                                       *)
LEMMA AProblem ==
  ASSUME Globals
  PROVE  /\ problem \in Problem
         /\ problem.py \in BOOLEAN /\ problem.zip \in BOOLEAN
         /\ problem.short \in BOOLEAN /\ problem.keep \in BOOLEAN
         /\ problem.strategy = "functionOnly" => ~problem.zip
BY JudgingAssumption DEF Globals, Problem

(* Initially there is nothing.                                              *)
LEMMA InitJudging == Init => JudgingInv
<1> SUFFICES ASSUME Init PROVE JudgingInv
  OBVIOUS
<1> USE JudgingAssumption DEF Init
<1>1. Globals
  <2>1. NoFiles \in [Names -> Makers]
    BY DEF NoFiles, Makers
  <2>2. Unjudged \in [CaseIds -> Verdicts \cup {"none"}]
    BY DEF Unjudged
  <2>3. analysis \in AnalysisRec /\ analysis.pc = "off"
    BY DEF NoAnalysis, AnalysisRec
  <2>4. collector \in StoreRec
    BY DEF NoStore, NoArtifact, StoreRec
  <2>5. teacher \in BOOLEAN /\ prebuilt \in BOOLEAN /\ overlap \in BOOLEAN
    OBVIOUS
  <2>6. att \in 0..MaxAttempts /\ home \in {0, att} /\ stage \in Stages
    BY DEF Stages
  <2>7. info \in {"none", "ready", "error"} /\ compiled \in {"none", "AC", "CE", "JE"}
    OBVIOUS
  <2>8. problem \in Problems
    OBVIOUS
  <2>9. results \in [CaseIds -> Verdicts \cup {"none"}] /\ src \in [Names -> Makers]
    BY <2>1, <2>2
  <2> QED
    BY <2>3, <2>4, <2>5, <2>6, <2>7, <2>8, <2>9 DEF Globals
<1>0. Flow
  BY DEF Flow, NoAnalysis, Analysing
<1>2. ToolsOK /\ CasesOK /\ ClosersOK /\ BoxesOK
  BY DEF ToolsOK, CasesOK, ClosersOK, BoxesOK
<1>3. OrchOK
  <2>1. NoOrch \in OrchRec /\ Decided(NoOrch)
    BY DEF NoOrch, NoProc, OrchRec, ProcRec, Decided
  <2> QED
    BY <2>1 DEF OrchOK
<1>4. StoreOK
  BY DEF StoreOK, NoStore, NoArtifact
<1>5. SourcesOK
  BY DEF SourcesOK, NoFiles, OwnSources, Sources, Names
<1> QED
  BY <1>0, <1>1, <1>2, <1>3, <1>4, <1>5 DEF JudgingInv

-----------------------------------------------------------------------------
(* Case threads.  A step of one changes its own record; most steps change   *)
(* nothing else that the invariant reads of a case.                         *)
OnlyCases == UNCHANGED <<problem, att, stage, results, info, compiled, orch,
                         overlap, collector>>

(* A case thread whose surroundings do not change keeps what is known of   *)
(* it.                                                                     *)
LEMMA CaseSame ==
  ASSUME OnlyCases, NEW t, CaseOK(t)
  PROVE  CaseOK(t)'
<1>1. Position(t)'
  BY DEF OnlyCases, CaseOK, Position, CaseRec, CaseIds
<1>2. Evidence(t)'
  BY DEF OnlyCases, CaseOK, Evidence, Reason
<1>3. Support(t)'
  BY DEF OnlyCases, CaseOK, Support, Current, Registered
<1> QED
  BY <1>1, <1>2, <1>3 DEF CaseOK

(* A thread that goes on, and one that ends.                                *)
LEMMA CaseMoves ==
  ASSUME CasesOK, NEW t \in cases, NEW u, u.att = t.att, u.id = t.id,
         Move(t, u), CaseOK(u)', \A s \in cases \ {t} : CaseOK(s)'
  PROVE  CasesOK'
BY DEF CasesOK, Move

(* So do all when one of them ends.                                        *)
LEMMA CaseEnds ==
  ASSUME CasesOK, OnlyCases, cases' \subseteq cases
  PROVE  CasesOK'
BY CaseSame DEF CasesOK

(* A step that changes nothing else a case relies on.                       *)
LEMMA QuietMove ==
  ASSUME JudgingInv, OnlyCases, NEW t \in cases, NEW u, Move(t, u), u.att = t.att,
         u.id = t.id, CaseOK(u)
  PROVE  CasesOK'
BY CaseSame, CaseMoves DEF JudgingInv, CasesOK

(* What is known of a thread's record, and of one made from it.             *)
Of(u, t) == /\ u \in CaseRec /\ u.att = t.att /\ u.id = t.id /\ u.use = t.use

(* A record made from that of a thread at work is placed like it.          *)
LEMMA OfPosition ==
  ASSUME JudgingInv, NEW t \in cases, Early(t), NEW u, Of(u, t)
  PROVE  Position(u) /\ u.att = t.att /\ u.id = t.id
<1>1. Position(t)
  BY DEF JudgingInv, CasesOK, CaseOK
<1> QED
  BY <1>1 DEF Position, Of, Early

(* Verdicts that need no reason.                                            *)
LEMMA Failed ==
  ASSUME JudgingInv, NEW t \in cases, Early(t), NEW u, Of(u, t), u.v = "JE",
         u.pc \in {"check", "keep", "record"}, u.ran # "talked", ~u.left,
         u.pc = "check" => u.said = "none"
  PROVE  CaseOK(u)
<1>1. Position(u) /\ CaseOK(t)
  BY OfPosition DEF JudgingInv, CasesOK
<1>2. Evidence(u)
  BY DEF Evidence, Earlier, Reason, Marks
<1>3. Support(u)
  BY <1>1 DEF Support, Of, CaseOK, Early
<1> QED
  BY <1>1, <1>2, <1>3 DEF CaseOK

(* No checker is used: the verdict of the run stands, or it is JE.         *)
LEMMA NoCheckCase ==
  ASSUME JudgingInv, NEW t \in cases, NoCheck(t)
  PROVE  CasesOK'
<1>1. CaseOK(t) /\ t \in CaseRec /\ t.pc = "check" /\ Early(t)
  BY DEF JudgingInv, CasesOK, CaseOK, Position, NoCheck, Early
<1>2. OnlyCases
  BY DEF NoCheck, Judging, OnlyCases, disk, built, store
<1>3. ~t.left /\ t.ran # "talked" /\ t.said = "none"
  BY <1>1 DEF CaseOK, Support, Evidence
<1>4. CASE Move(t, Faulty(t))
  <2> DEFINE u == Faulty(t)
  <2>1. Of(u, t) /\ u.v = "JE" /\ u.pc = "keep" /\ u.ran = t.ran /\ ~u.left
    BY <1>1, <1>3 DEF Faulty, Of, CaseRec, Verdicts
  <2> HIDE DEF u
  <2>2. CaseOK(u) /\ u.att = t.att /\ u.id = t.id
    BY <1>1, <1>3, <2>1, Failed, OfPosition
  <2> QED
    BY <1>2, <1>4, <2>2, QuietMove DEF u
<1>5. CASE /\ Move(t, Keep(t, t.v))
           /\ t.use = "none" \/ (t.use = "ready" /\ (t.v \in Final \/ info # "ready"))
  <2> DEFINE u == Keep(t, t.v)
  <2>1. Of(u, t) /\ u.v = t.v /\ u.pc = "keep" /\ u.ran = t.ran /\ u.left = t.left
        /\ u.said = t.said
    BY <1>1 DEF Keep, Of, CaseRec
  <2> HIDE DEF u
  <2>2. Position(u) /\ u.att = t.att /\ u.id = t.id
    BY <1>1, <2>1, OfPosition
  <2>3. Evidence(u)
    BY <2>1, <1>1, <1>3, <1>5
    DEF CaseOK, Evidence, Reason, Judged, Marks, Final, Earlier, Support, Early, Of
  <2>4. Support(u)
    BY <2>1, <1>1, <1>3 DEF CaseOK, Support, Early, Evidence, Judged, Marks, Of
  <2> QED
    BY <1>2, <1>5, <2>2, <2>3, <2>4, QuietMove DEF u, CaseOK
<1> QED
  BY <1>4, <1>5 DEF NoCheck

(* Every case of these is told that the judge failed.                       *)
LEMMA PrepareCaseFailsCase ==
  ASSUME JudgingInv, NEW t \in cases, PrepareCaseFails(t)
  PROVE  CasesOK'
<1> DEFINE u == [Faulty(t) EXCEPT !.pc = "record", !.ran = "unprepared"]
<1>1. CaseOK(t) /\ t \in CaseRec /\ t.pc = "prepare" /\ Early(t) /\ ~t.left
  BY DEF JudgingInv, CasesOK, CaseOK, Position, Support, PrepareCaseFails, Early
<1>2. OnlyCases /\ Move(t, u)
  BY DEF PrepareCaseFails, Judging, OnlyCases, disk, built, store
<1>3. Of(u, t) /\ u.v = "JE" /\ u.pc = "record" /\ u.ran = "unprepared" /\ ~u.left
  BY <1>1 DEF Faulty, Of, CaseRec, Verdicts
<1> HIDE DEF u
<1> QED
  BY <1>1, <1>2, <1>3, Failed, OfPosition, QuietMove

(* A missing test case makes the verdict JE.                               *)
LEMMA TestcaseMissingCase ==
  ASSUME JudgingInv, NEW t \in cases, TestcaseMissing(t)
  PROVE  CasesOK'
<1> DEFINE u == Cleaned([Faulty(t) EXCEPT !.pc = "check"])
<1>1. CaseOK(t) /\ t \in CaseRec /\ t.pc = "start" /\ Early(t)
  BY DEF JudgingInv, CasesOK, CaseOK, Position, TestcaseMissing, Early
<1>2. OnlyCases /\ Move(t, u)
  BY DEF TestcaseMissing, Judging, OnlyCases, disk, built, store
<1>3. t.ran = "none" /\ t.said = "none"
  BY <1>1 DEF CaseOK, Evidence, Earlier
<1>4. Of(u, t) /\ u.v = "JE" /\ u.pc = "check" /\ u.ran = "none" /\ ~u.left
      /\ u.said = "none"
  BY <1>1, <1>3 DEF Faulty, Cleaned, Of, CaseRec, Verdicts
<1> HIDE DEF u
<1> QED
  BY <1>1, <1>2, <1>4, Failed, OfPosition, QuietMove

(* So does a failed run.                                                   *)
LEMMA RunFailsCase ==
  ASSUME JudgingInv, NEW t \in cases, RunFails(t)
  PROVE  CasesOK'
<1> DEFINE u == Cleaned([Faulty(t) EXCEPT !.pc = "check"])
<1>1. CaseOK(t) /\ t \in CaseRec /\ t.pc = "run" /\ Early(t)
  BY DEF JudgingInv, CasesOK, CaseOK, Position, RunFails, Early
<1>2. OnlyCases /\ Move(t, u)
  BY DEF RunFails, Judging, OnlyCases, disk, built, store
<1>3. t.ran = "none" /\ t.said = "none"
  BY <1>1 DEF CaseOK, Evidence, Earlier
<1>4. Of(u, t) /\ u.v = "JE" /\ u.pc = "check" /\ u.ran = "none" /\ ~u.left
      /\ u.said = "none"
  BY <1>1, <1>3 DEF Faulty, Cleaned, Of, CaseRec, Verdicts
<1> HIDE DEF u
<1> QED
  BY <1>1, <1>2, <1>4, Failed, OfPosition, QuietMove

(* So does a checker without its input or router; the run's outcome is     *)
(* kept.                                                                   *)
LEMMA CheckerUnreadyCase ==
  ASSUME JudgingInv, NEW t \in cases, CheckerUnready(t)
  PROVE  CasesOK'
<1> DEFINE u == Faulty(t)
<1>1. CaseOK(t) /\ t \in CaseRec /\ t.pc = "check" /\ Early(t)
  BY DEF JudgingInv, CasesOK, CaseOK, Position, CheckerUnready, Checkable, Early
<1>2. OnlyCases /\ Move(t, u)
  BY DEF CheckerUnready, Judging, OnlyCases, disk, built, store
<1>3. t.ran # "talked" /\ ~t.left
  BY <1>1 DEF CaseOK, Evidence, Support
<1>4. Of(u, t) /\ u.v = "JE" /\ u.pc = "keep" /\ u.ran = t.ran /\ ~u.left
  BY <1>1, <1>3 DEF Faulty, Of, CaseRec, Verdicts
<1> HIDE DEF u
<1> QED
  BY <1>1, <1>2, <1>3, <1>4, Failed, OfPosition, QuietMove

(* The thread, or its checker, dies.                                        *)
LEMMA DeathCase ==
  ASSUME JudgingInv, NEW t \in cases,
         StartRefused(t) \/ RunRefused(t) \/ CheckerRefused(t)
  PROVE  CasesOK'
<1>1. OnlyCases
  BY DEF StartRefused, RunRefused, CheckerRefused, Judging, OnlyCases, disk, built, store
<1>2. cases' = cases \ {t}
  BY DEF StartRefused, RunRefused, CheckerRefused, Dies
<1> QED
  BY <1>1, <1>2, CaseEnds DEF JudgingInv

(* And a checker that fails; a thread that dies has no verdict.            *)
LEMMA CheckerFailsCase ==
  ASSUME JudgingInv, NEW t \in cases, CheckerFails(t)
  PROVE  CasesOK'
<1> DEFINE u == Faulty(t)
<1>1. CaseOK(t) /\ t \in CaseRec /\ t.pc = "checking" /\ Early(t)
  BY DEF JudgingInv, CasesOK, CaseOK, Position, CheckerFails, Early
<1>2. OnlyCases
  BY DEF CheckerFails, Judging, OnlyCases, disk, built, store
<1>3. CASE Move(t, u)
  <2>1. t.ran # "talked" /\ ~t.left
    BY <1>1 DEF CaseOK, Evidence, Support
  <2>2. Of(u, t) /\ u.v = "JE" /\ u.pc = "keep" /\ u.ran = t.ran /\ ~u.left
    BY <1>1, <2>1 DEF Faulty, Of, CaseRec, Verdicts
  <2> HIDE DEF u
  <2> QED
    BY <1>1, <1>2, <1>3, <2>1, <2>2, Failed, OfPosition, QuietMove
<1>4. CASE cases' = cases \ {t}
  BY <1>2, <1>4, CaseEnds DEF JudgingInv
<1> QED
  BY <1>3, <1>4 DEF CheckerFails, Dies

(* CE is recorded only when the compile result is CE.                      *)
LEMMA NotCompiledCase ==
  ASSUME JudgingInv, NEW t \in cases, NotCompiled(t)
  PROVE  CasesOK'
<1> DEFINE u == IF Interactive THEN Keep(t, "CE") ELSE Cleaned(Keep(t, "CE"))
<1>1. CaseOK(t) /\ t \in CaseRec /\ t.pc = "start" /\ Early(t)
  BY DEF JudgingInv, CasesOK, CaseOK, Position, NotCompiled, Early
<1>2. OnlyCases /\ Move(t, u)
  BY DEF NotCompiled, Judging, OnlyCases, disk, built, store
<1>3. t.ran = "none" /\ t.said = "none"
  BY <1>1 DEF CaseOK, Evidence, Earlier
<1>4. Of(u, t) /\ u.v = "CE" /\ u.pc = "keep" /\ u.ran = "none"
      /\ u.said = "none" /\ (u.left => t.left)
  BY <1>1, <1>3 DEF Keep, Cleaned, Of, CaseRec, Verdicts
<1>5. compiled = "CE"
  BY <1>1 DEF NotCompiled, CompileStatus, CaseOK, Position, Early, JudgingInv, Flow
<1> HIDE DEF u
<1>6. Position(u) /\ u.att = t.att /\ u.id = t.id
  BY <1>1, <1>4, OfPosition
<1>7. Evidence(u)
  BY <1>4 DEF Evidence, Reason, Marks, Earlier
<1>8. Support(u)
  BY <1>1, <1>4, <1>5 DEF CaseOK, Support, Early, Of
<1> QED
  BY <1>2, <1>6, <1>7, <1>8, QuietMove DEF CaseOK

(* The end of a run gives the verdict of its outcome.                      *)
LEMMA EndRunCase ==
  ASSUME JudgingInv, NEW t \in cases, EndRun(t)
  PROVE  CasesOK'
<1>1. CaseOK(t) /\ t \in CaseRec /\ t.pc = "run" /\ Early(t)
  BY DEF JudgingInv, CasesOK, CaseOK, Position, EndRun, Early
<1>2. OnlyCases /\ ~problem.short
  BY DEF EndRun, WaitSuffices, Judging, OnlyCases, disk, built, store
<1>3. PICK ran \in {"match", "differ"} \cup Marks :
        Move(t, Cleaned([t EXCEPT !.pc = "check", !.ran = ran, !.v = Judged(t, ran)]))
  BY DEF EndRun
<1> DEFINE u == Cleaned([t EXCEPT !.pc = "check", !.ran = ran, !.v = Judged(t, ran)])
<1>4. t.said = "none"
  BY <1>1 DEF CaseOK, Evidence, Earlier
<1>5. Judged(t, ran) \in Verdicts
  BY DEF Judged, Verdicts, Marks
<1>6. Of(u, t) /\ u.v = Judged(t, ran) /\ u.pc = "check" /\ u.ran = ran
      /\ u.said = "none" /\ ~u.left
  BY <1>1, <1>4, <1>5 DEF Cleaned, Of, CaseRec, Marks
<1> HIDE DEF u
<1>7. Position(u) /\ u.att = t.att /\ u.id = t.id
  BY <1>1, <1>6, OfPosition
<1>8. Evidence(u)
  BY <1>2, <1>6 DEF Evidence, Marks, Earlier, Of, Judged
<1>9. Support(u)
  BY <1>1, <1>5, <1>6 DEF CaseOK, Support, Early, Of, Judged, Marks
<1> QED
  BY <1>2, <1>3, <1>7, <1>8, <1>9, QuietMove DEF u, CaseOK

(* A checker is started for a thread that read that one is ready.          *)
LEMMA StartCheckerCase ==
  ASSUME JudgingInv, NEW t \in cases, StartChecker(t)
  PROVE  CasesOK'
<1> DEFINE u == [t EXCEPT !.pc = "checking"]
<1>1. CaseOK(t) /\ t \in CaseRec /\ t.pc = "check" /\ Early(t)
  BY DEF JudgingInv, CasesOK, CaseOK, Position, StartChecker, Checkable, Early
<1>2. OnlyCases /\ Move(t, u)
  BY DEF StartChecker, Judging, OnlyCases, disk, built, store
<1>3. t.use = "ready" /\ ~problem.short /\ t.ran \in {"match", "differ"}
  BY <1>1 DEF StartChecker, Checkable, CaseOK, Evidence, Final, Judged, Marks
<1>4. Of(u, t) /\ u.v = t.v /\ u.pc = "checking" /\ u.ran = t.ran
      /\ (u.left => t.left)
  BY <1>1 DEF Of, CaseRec
<1> HIDE DEF u
<1>5. Position(u) /\ u.att = t.att /\ u.id = t.id
  BY <1>1, <1>4, OfPosition
<1>6. Evidence(u)
  BY <1>3, <1>4 DEF Evidence, Earlier, Of
<1>7. t.v # "CE"
  BY DEF StartChecker, Checkable, Final
<1>8. Support(u)
  BY <1>1, <1>3, <1>4, <1>7 DEF CaseOK, Support, Early, Of
<1> QED
  BY <1>2, <1>5, <1>6, <1>8, QuietMove DEF CaseOK

(* The checker's word becomes the verdict.                                 *)
LEMMA EndCheckerCase ==
  ASSUME JudgingInv, NEW t \in cases, EndChecker(t)
  PROVE  CasesOK'
<1>1. CaseOK(t) /\ t \in CaseRec /\ t.pc = "checking" /\ Early(t)
  BY DEF JudgingInv, CasesOK, CaseOK, Position, EndChecker, Early
<1>2. OnlyCases
  BY DEF EndChecker, Judging, OnlyCases, disk, built, store
<1>3. PICK said \in {"AC", "WA", "other"}, exited \in BOOLEAN :
        Move(t, [Keep(t, Spoken(said, exited)) EXCEPT
                  !.said = IF exited THEN said ELSE "crash"])
  BY DEF EndChecker
<1> DEFINE u == [Keep(t, Spoken(said, exited)) EXCEPT
                  !.said = IF exited THEN said ELSE "crash"]
<1>4. t.use = "ready" /\ ~problem.short /\ t.ran \in {"match", "differ"} /\ ~t.left
  BY <1>1 DEF CaseOK, Evidence, Support
<1>5. Spoken(said, exited) \in {"AC", "WA", "JE"}
      /\ (Spoken(said, exited) # "JE" => exited /\ Spoken(said, exited) = said)
  BY DEF Spoken
<1>6. Of(u, t) /\ u.v = Spoken(said, exited) /\ u.pc = "keep" /\ u.ran = t.ran
      /\ u.said = (IF exited THEN said ELSE "crash") /\ ~u.left
  BY <1>1, <1>4, <1>5 DEF Keep, Of, CaseRec, Verdicts
<1> HIDE DEF u
<1>7. Position(u) /\ u.att = t.att /\ u.id = t.id
  BY <1>1, <1>6, OfPosition
<1>8. Evidence(u)
  BY <1>4, <1>5, <1>6 DEF Evidence, Marks, Earlier, Of, Reason
<1>9. Support(u)
  BY <1>1, <1>4, <1>5, <1>6 DEF CaseOK, Support, Early, Of
<1> QED
  BY <1>2, <1>3, <1>7, <1>8, <1>9, QuietMove DEF u, CaseOK

(* The verdict is the one in the orchestrator's final record.              *)
LEMMA EndTalkCase ==
  ASSUME JudgingInv, NEW t \in cases, EndTalk(t)
  PROVE  CasesOK'
<1>1. CaseOK(t) /\ t \in CaseRec /\ t.pc = "talk" /\ Early(t)
  BY DEF JudgingInv, CasesOK, CaseOK, Position, EndTalk, Early
<1> DEFINE u == Cleaned(Keep([t EXCEPT !.ran = "talked"], orch[t.id].verdict))
<1>2. OnlyCases /\ Move(t, u) /\ orch[t.id].pc = "done"
  BY DEF EndTalk, Judging, OnlyCases, disk, built, store
<1>3. orch[t.id].verdict \in Verdicts \cup {"none"}
  BY <1>1 DEF JudgingInv, OrchOK, OrchRec, Verdicts, CaseRec
<1>4. Of(u, t) /\ u.v = orch[t.id].verdict /\ u.pc = "keep" /\ u.ran = "talked"
      /\ ~u.left
  BY <1>1, <1>3 DEF Keep, Cleaned, Of, CaseRec
<1> HIDE DEF u
<1>5. Position(u) /\ u.att = t.att /\ u.id = t.id
  BY <1>1, <1>4, OfPosition
<1>6. Evidence(u)
  BY <1>4 DEF Evidence, Earlier
<1>7. Support(u)
  BY <1>1, <1>2, <1>4, <1>5 DEF CaseOK, Support, Early, Of
<1> QED
  BY <1>2, <1>5, <1>6, <1>7, QuietMove DEF CaseOK

(* The sweep of another case's directory takes a program away at most.      *)
LEMMA SweepCase ==
  ASSUME JudgingInv, NEW t \in cases, Sweep(t)
  PROVE  CasesOK'
<1>1. OnlyCases
  BY DEF Sweep, Judging, OnlyCases, disk, built, store
<1> DEFINE swept(c) == [c EXCEPT !.prog = IF c.id = t.id /\ t.ran # "unprepared"
                                     THEN "none" ELSE c.prog]
<1>2. cases' = {swept(c) : c \in cases \ {t}}
  BY DEF Sweep
<1>3. ASSUME NEW c \in cases PROVE CaseOK(swept(c)) /\ swept(c).att = c.att /\ swept(c).id = c.id
  <2>1. CaseOK(c) /\ c \in CaseRec
    BY DEF JudgingInv, CasesOK, CaseOK, Position
  <2> DEFINE u == swept(c)
  <2>2. u \in CaseRec /\ u.att = c.att /\ u.id = c.id /\ u.pc = c.pc /\ u.use = c.use
    BY <2>1 DEF CaseRec, Makers
  <2>3. u.ran = c.ran /\ u.said = c.said /\ u.left = c.left /\ u.v = c.v
    BY <2>1 DEF CaseRec, Makers
  <2> HIDE DEF u
  <2>4. Position(u)
    BY <2>1, <2>2 DEF CaseOK, Position, Early
  <2>5. Evidence(u)
    BY <2>1, <2>2, <2>3 DEF CaseOK, Evidence, Reason, Judged
  <2>6. Support(u)
    BY <2>1, <2>2, <2>3 DEF CaseOK, Support, Early
  <2> QED
    BY <2>2, <2>4, <2>5, <2>6 DEF CaseOK, u
<1> HIDE DEF swept
<1>4. \A c, d \in cases : c.att = d.att /\ c.id = d.id => c = d
  BY DEF JudgingInv, CasesOK
<1>5. \A c \in cases' : CaseOK(c)'
  BY <1>1, <1>2, <1>3, CaseSame
<1> QED
  BY <1>2, <1>3, <1>4, <1>5 DEF CasesOK

-----------------------------------------------------------------------------
(* Steps that change more.                                                  *)
LEMMA PrepareCaseCase ==
  ASSUME JudgingInv, NEW t \in cases, PrepareCase(t)
  PROVE  CasesOK'
<1>1. CaseOK(t) /\ t \in CaseRec /\ t.pc = "prepare" /\ Early(t)
  BY DEF JudgingInv, CasesOK, CaseOK, Position, PrepareCase, Early
<1>2. UNCHANGED <<problem, att, stage, results, info, compiled, orch, overlap>>
  BY DEF PrepareCase, built
<1>3. PICK u : /\ Move(t, u)
               /\ u = [t EXCEPT !.pc = "start", !.prog = Executable, !.of = home,
                                !.left = problem.keep, !.use = info]
  BY DEF PrepareCase
<1>4. collector.snaps \subseteq collector'.snaps /\ (problem.keep => t.id \in collector'.snaps)
  <2>1. collector \in StoreRec
    BY DEF JudgingInv, Globals
  <2>2. CASE problem.keep
    BY <2>1, <2>2 DEF PrepareCase, Snapshot, StoreRec
  <2>3. CASE ~problem.keep
    BY <2>1, <2>3 DEF PrepareCase, store
  <2> QED
    BY <2>2, <2>3
<1>5. t.v = "none" /\ t.ran = "none" /\ t.said = "none"
  BY <1>1 DEF CaseOK, Evidence, Earlier
<1>6. Executable \in Makers /\ home \in 0..MaxAttempts /\ info \in {"none", "ready", "error"}
      /\ problem.keep \in BOOLEAN
  <2>1. Globals /\ src["entry"] \in Makers /\ src["main"] \in Makers
    BY DEF JudgingInv, Globals, Names
  <2>2. home \in 0..MaxAttempts /\ info \in {"none", "ready", "error"}
    BY <2>1, JudgingAssumption DEF Globals
  <2> QED
    BY <2>1, <2>2, AProblem DEF Executable
<1>7. u \in CaseRec /\ u.att = t.att /\ u.id = t.id /\ u.pc = "start" /\ u.use = info
      /\ u.left = problem.keep
  BY <1>1, <1>3, <1>6 DEF CaseRec, Earlier
<1>8. u.v = "none" /\ u.ran = "none" /\ u.said = "none"
  BY <1>1, <1>3, <1>5 DEF CaseRec
<1>9. CaseOK(u)'
  <2>1. Position(u)'
    BY <1>1, <1>2, <1>7 DEF CaseOK, Position, CaseRec, CaseIds, Early
  <2>2. Evidence(u)'
    BY <1>7, <1>8 DEF Evidence, Earlier
  <2>3. Support(u)'
    BY <1>2, <1>4, <1>7, <1>8 DEF Support
  <2> QED
    BY <2>1, <2>2, <2>3 DEF CaseOK
<1>10. ASSUME NEW s \in cases PROVE CaseOK(s)'
  <2>1. CaseOK(s)
    BY DEF JudgingInv, CasesOK
  <2>2. Position(s)'
    BY <1>2, <2>1 DEF CaseOK, Position, CaseRec, CaseIds
  <2>3. Evidence(s)'
    BY <1>2, <2>1 DEF CaseOK, Evidence, Reason
  <2>4. Support(s)'
    BY <1>2, <1>4, <2>1 DEF CaseOK, Support, Current, Registered
  <2> QED
    BY <2>2, <2>3, <2>4 DEF CaseOK
<1> QED
  BY <1>3, <1>7, <1>9, <1>10, CaseMoves DEF JudgingInv

(* Keeping the artifact changes nothing the verdict rests on.              *)
LEMMA KeepArtifactCase ==
  ASSUME JudgingInv, NEW t \in cases, KeepArtifact(t)
  PROVE  CasesOK'
<1>1. CaseOK(t) /\ t \in CaseRec /\ t.pc = "keep" /\ Early(t)
  BY DEF JudgingInv, CasesOK, CaseOK, Position, KeepArtifact, Early
<1>2. UNCHANGED <<problem, att, stage, results, info, compiled, orch, overlap>>
  BY DEF KeepArtifact, built
<1>3. PICK u : Move(t, u) /\ u = [t EXCEPT !.pc = "record"]
  BY DEF KeepArtifact
<1>4. collector'.snaps = collector.snaps
  <2>1. collector \in StoreRec
    BY DEF JudgingInv, Globals
  <2>2. CASE problem.keep
    BY <2>1, <2>2 DEF KeepArtifact, RecordArtifact, StoreRec
  <2>3. CASE ~problem.keep
    BY <2>1, <2>3 DEF KeepArtifact, store
  <2> QED
    BY <2>2, <2>3
<1>5. u \in CaseRec /\ u.att = t.att /\ u.id = t.id /\ u.pc = "record" /\ u.use = t.use
  BY <1>1, <1>3 DEF CaseRec
<1>6. u.v = t.v /\ u.ran = t.ran /\ u.said = t.said /\ u.left = t.left
  BY <1>1, <1>3 DEF CaseRec
<1>7. CaseOK(u)'
  <2>1. Position(u)'
    BY <1>1, <1>2, <1>5 DEF CaseOK, Position, CaseRec, CaseIds, Early
  <2>2. Evidence(u)'
    BY <1>1, <1>2, <1>5, <1>6 DEF CaseOK, Evidence, Earlier, Reason
  <2>3. Support(u)'
    BY <1>1, <1>2, <1>4, <1>5, <1>6 DEF CaseOK, Support, Current, Registered, Early
  <2> QED
    BY <2>1, <2>2, <2>3 DEF CaseOK
<1>8. ASSUME NEW s \in cases PROVE CaseOK(s)'
  <2>1. CaseOK(s)
    BY DEF JudgingInv, CasesOK
  <2>2. Position(s)'
    BY <1>2, <2>1 DEF CaseOK, Position, CaseRec, CaseIds
  <2>3. Evidence(s)'
    BY <1>2, <2>1 DEF CaseOK, Evidence, Reason
  <2>4. Support(s)'
    BY <1>2, <1>4, <2>1 DEF CaseOK, Support, Current, Registered
  <2> QED
    BY <2>2, <2>3, <2>4 DEF CaseOK
<1> QED
  BY <1>3, <1>5, <1>7, <1>8, CaseMoves DEF JudgingInv

(* The last result is in: no thread of the attempt is still judging.        *)
LEMMA RecordCaseCase ==
  ASSUME JudgingInv, NEW t \in cases, RecordCase(t)
  PROVE  CasesOK'
<1>1. CaseOK(t) /\ t \in CaseRec /\ t.pc = "record" /\ Early(t)
  BY DEF JudgingInv, CasesOK, CaseOK, Position, RecordCase, Early
<1>2. UNCHANGED <<problem, att, info, compiled, orch, overlap, collector>>
  BY DEF RecordCase, built, store
<1>3. t.att = att /\ stage = "cases" /\ results[t.id] = "none" /\ t.id \in CaseIds
  BY <1>1 DEF CaseOK, Position, CaseRec
<1>4. results' = [results EXCEPT ![t.id] = t.v] /\ results \in [CaseIds -> Verdicts \cup {"none"}]
  BY DEF RecordCase, JudgingInv, Globals
<1>5. stage' \in {"cases", "closing"} /\ (stage' = "closing" => \A n \in CaseIds : results'[n] # "none")
  BY <1>2, <1>3 DEF RecordCase, CaseIds
<1>6. PICK p \in {"closing", "sweep"} : Move(t, [t EXCEPT !.pc = p])
  BY DEF RecordCase
<1>7. PICK u : u = [t EXCEPT !.pc = p]
  OBVIOUS
<1>8. u \in CaseRec /\ u.att = t.att /\ u.id = t.id /\ u.pc = p /\ u.use = t.use
  BY <1>1, <1>6, <1>7 DEF CaseRec
<1>9. u.v = t.v /\ u.ran = t.ran /\ u.said = t.said /\ u.left = t.left
  BY <1>1, <1>6, <1>7 DEF CaseRec
<1>10. CaseOK(u)'
  <2>1. Position(u)'
    BY <1>1, <1>2, <1>3, <1>5, <1>6, <1>8 DEF CaseOK, Position, CaseRec, CaseIds, Early
  <2>2. Evidence(u)'
    BY <1>1, <1>2, <1>6, <1>8, <1>9 DEF CaseOK, Evidence, Earlier, Reason
  <2>3. Support(u)'
    BY <1>1, <1>2, <1>3, <1>5, <1>6, <1>8, <1>9 DEF CaseOK, Support, Current, Registered, Early
  <2> QED
    BY <2>1, <2>2, <2>3 DEF CaseOK
<1>11. ASSUME NEW s \in cases \ {t} PROVE CaseOK(s)'
  <2>1. CaseOK(s) /\ (s.att = t.att => s.id # t.id)
    BY DEF JudgingInv, CasesOK
  <2>2. Position(s)'
    <3>1. s \in CaseRec'
      BY <1>2, <2>1 DEF CaseOK, Position, CaseRec, CaseIds
    <3>2. Early(s) => results'[s.id] = "none" /\ s.id \in CaseIds /\ s.att = att
      BY <1>3, <1>4, <2>1 DEF CaseOK, Position, CaseRec
    <3>3. Early(s) => stage' = "cases"
      BY <1>2, <1>5, <3>2 DEF CaseIds
    <3> QED
      BY <1>2, <1>5, <2>1, <3>1, <3>2, <3>3 DEF CaseOK, Position, Early
  <2>3. Evidence(s)'
    BY <1>2, <2>1 DEF CaseOK, Evidence, Reason
  <2>4. Support(s)'
    BY <1>2, <1>3, <2>1 DEF CaseOK, Support, Current, Registered
  <2> QED
    BY <2>2, <2>3, <2>4 DEF CaseOK
<1> QED
  BY <1>6, <1>7, <1>8, <1>10, <1>11, CaseMoves DEF JudgingInv

(* An orchestrator's step is of a case of the latest attempt whose thread   *)
(* waits for it; no other thread reads that record.                         *)
LEMMA OrchSame ==
  ASSUME JudgingInv, NEW t \in cases, t.pc \in Earlier,
         UNCHANGED <<problem, att, stage, results, info, compiled, overlap, collector>>,
         \A n \in CaseIds \ {t.id} : orch'[n] = orch[n],
         NEW s \in cases
  PROVE  CaseOK(s)'
<1>1. CaseOK(s) /\ CaseOK(t) /\ (s.att = t.att /\ s.id = t.id => s = t)
  BY DEF JudgingInv, CasesOK
<1>2. t.ran = "none" /\ t.att = att
  BY <1>1 DEF CaseOK, Evidence, Position, Early, Earlier
<1>3. Position(s)'
  BY <1>1 DEF CaseOK, Position, CaseRec, CaseIds
<1>4. Evidence(s)'
  BY <1>1 DEF CaseOK, Evidence, Reason
<1>5. s.att = att /\ s.ran = "talked" => orch'[s.id] = orch[s.id]
  BY <1>1, <1>2 DEF CaseOK, Position, CaseRec
<1>6. Support(s)'
  BY <1>1, <1>5 DEF CaseOK, Support, Current, Registered
<1> QED
  BY <1>3, <1>4, <1>6 DEF CaseOK

(* A case that starts has nothing found out.                               *)
LEMMA StartRunCase ==
  ASSUME JudgingInv, NEW t \in cases, StartRun(t)
  PROVE  CasesOK'
<1>1. CaseOK(t) /\ t \in CaseRec /\ t.pc = "start" /\ Early(t) /\ t.pc \in Earlier
  BY DEF JudgingInv, CasesOK, CaseOK, Position, StartRun, Early, Earlier
<1>2. UNCHANGED <<problem, att, stage, results, info, compiled, overlap, collector>>
  BY DEF StartRun, built, store
<1>3. \A n \in CaseIds \ {t.id} : orch'[n] = orch[n]
  BY DEF StartRun, JudgingInv, OrchOK
<1>4. PICK p \in {"talk", "run"} : Move(t, [t EXCEPT !.pc = p])
  BY DEF StartRun
<1>5. PICK u : u = [t EXCEPT !.pc = p]
  OBVIOUS
<1>6. t.v = "none" /\ t.ran = "none" /\ t.said = "none"
  BY <1>1 DEF CaseOK, Evidence
<1>7. u \in CaseRec /\ u.att = t.att /\ u.id = t.id /\ u.pc = p /\ u.use = t.use
  BY <1>1, <1>4, <1>5 DEF CaseRec, Earlier
<1>8. u.v = "none" /\ u.ran = "none" /\ u.said = "none" /\ u.left = t.left
  BY <1>1, <1>4, <1>5, <1>6 DEF CaseRec
<1>9. CaseOK(u)'
  <2>1. Position(u)'
    BY <1>1, <1>2, <1>4, <1>7 DEF CaseOK, Position, CaseRec, CaseIds, Early
  <2>2. Evidence(u)'
    BY <1>4, <1>7, <1>8 DEF Evidence, Earlier
  <2>3. Support(u)'
    BY <1>1, <1>2, <1>4, <1>7, <1>8 DEF CaseOK, Support, Early
  <2> QED
    BY <2>1, <2>2, <2>3 DEF CaseOK
<1>10. \A s \in cases : CaseOK(s)'
  BY <1>1, <1>2, <1>3, OrchSame
<1> QED
  BY <1>4, <1>5, <1>7, <1>9, <1>10, CaseMoves DEF JudgingInv

(* An interactive run that is cut off ends with JE.                        *)
LEMMA CutTalkCase ==
  ASSUME JudgingInv, NEW t \in cases, CutTalk(t)
  PROVE  CasesOK'
<1>1. CaseOK(t) /\ t \in CaseRec /\ t.pc = "talk" /\ Early(t) /\ t.pc \in Earlier
  BY DEF JudgingInv, CasesOK, CaseOK, Position, CutTalk, Early, Earlier
<1>2. UNCHANGED <<problem, att, stage, results, info, compiled, overlap, collector>>
  BY DEF CutTalk, built, store, disk
<1>3. \A n \in CaseIds \ {t.id} : orch'[n] = orch[n]
  BY DEF CutTalk, JudgingInv, OrchOK
<1>4. \A s \in cases : CaseOK(s)'
  BY <1>1, <1>2, <1>3, OrchSame
<1>5. CASE Move(t, Cleaned(Faulty(t)))
  <2>1. PICK u : u = Cleaned(Faulty(t))
    OBVIOUS
  <2>2. u \in CaseRec /\ u.att = t.att /\ u.id = t.id /\ u.pc = "keep" /\ u.use = t.use
    BY <1>1, <2>1 DEF CaseRec, Cleaned, Faulty, Verdicts
  <2>3. u.v = "JE" /\ u.ran = t.ran /\ ~u.left
    BY <1>1, <2>1 DEF CaseRec, Cleaned, Faulty
  <2>4. t.ran = "none"
    BY <1>1 DEF CaseOK, Evidence
  <2>5. Position(u)'
    BY <1>1, <1>2, <2>2 DEF CaseOK, Position, CaseRec, CaseIds, Early
  <2>6. Evidence(u)'
    BY <2>2, <2>3 DEF Evidence, Earlier, Reason, Marks
  <2>7. Support(u)'
    BY <1>1, <1>2, <2>2, <2>3, <2>4 DEF CaseOK, Support, Early
  <2> QED
    BY <1>4, <1>5, <2>1, <2>2, <2>5, <2>6, <2>7, CaseMoves DEF JudgingInv, CaseOK
<1>6. CASE cases' = cases \ {t}
  BY <1>4, <1>6 DEF JudgingInv, CasesOK
<1> QED
  BY <1>5, <1>6 DEF CutTalk, Dies

-----------------------------------------------------------------------------
(* The orchestrators.                                                       *)
LEMMA CaseOrchestrates ==
  ASSUME JudgingInv, NEW t \in cases, Orchestrate(t) \/ Act(t)
  PROVE  /\ t.pc = "talk" /\ t.id \in CaseIds
         /\ UNCHANGED <<reg, disk, built, analysis, tools, cases, boxes, store, closing, hist>>
         /\ \E o : orch' = [orch EXCEPT ![t.id] = o]
<1>1. t.pc = "talk" /\ t.id \in CaseIds
  BY DEF JudgingInv, CasesOK, CaseOK, Position, CaseRec, Orchestrate, Act
<1>2. CASE Orchestrate(t)
  BY <1>1, <1>2 DEF Orchestrate, Conductor, Setup, SetupRaises, StartFirst, StartSecond,
     StartRaises, Poll, Deadline, Read, Conduct, Playing
<1>3. CASE Act(t)
  BY <1>1, <1>3 DEF Act, Program, Write, AwaitInput, ReadInput, Exit, WriteCheck, Conduct, Playing
<1> QED
  BY <1>1, <1>2, <1>3

(* The orchestrator and the programs work on a record no other case relies *)
(* on.                                                                     *)
LEMMA OrchestrateCase ==
  ASSUME JudgingInv, NEW t \in cases, Orchestrate(t) \/ Act(t)
  PROVE  CasesOK'
<1>1. /\ UNCHANGED <<problem, att, stage, results, info, compiled, overlap, collector>>
      /\ cases' = cases /\ t.pc \in Earlier
  BY CaseOrchestrates DEF reg, built, store, hist, Earlier
<1>2. \A n \in CaseIds \ {t.id} : orch'[n] = orch[n]
  BY CaseOrchestrates DEF JudgingInv, OrchOK
<1>3. \A s \in cases : CaseOK(s)'
  BY <1>1, <1>2, OrchSame
<1> QED
  BY <1>1, <1>3 DEF JudgingInv, CasesOK

(* What a call of orchestrate() that raises leaves.                         *)
LEMMA RaisedOK ==
  ASSUME NEW o \in OrchRec
  PROVE  Raised(o) \in OrchRec /\ Decided(Raised(o))
<1>1. NoOrch \in OrchRec
  BY DEF NoOrch, NoProc, OrchRec, ProcRec
<1>2. CASE o.try = 1
  <2>1. Raised(o) = [NoOrch EXCEPT !.pc = "setup", !.try = 2, !.check = o.check]
    BY <1>2 DEF Raised
  <2>2. Raised(o) \in OrchRec /\ Raised(o).pc = "setup"
    BY <1>1, <2>1 DEF OrchRec
  <2> QED
    BY <2>2 DEF Decided
<1>3. CASE o.try # 1
  <2>1. Raised(o) = [o EXCEPT !.pc = "done", !.verdict = "CE"]
    BY <1>3 DEF Raised
  <2>2. Raised(o) \in OrchRec /\ Raised(o).pc = "done" /\ Raised(o).verdict = "CE"
    BY <2>1 DEF OrchRec
  <2> QED
    BY <2>2 DEF Decided
<1> QED
  BY <1>2, <1>3

(* A record is replaced by one that is as good.                             *)
LEMMA OrchMoves ==
  ASSUME OrchOK, NEW n \in CaseIds, NEW o \in OrchRec, Decided(o), Conduct(n, o),
         problem' = problem
  PROVE  OrchOK'
<1>1. CaseIds' = CaseIds
  BY DEF CaseIds
<1>2. \A i \in CaseIds : orch'[i] = IF i = n THEN o ELSE orch[i]
  BY DEF Conduct, OrchOK
<1>3. orch' \in [CaseIds -> OrchRec]
  BY DEF Conduct, OrchOK
<1> QED
  BY <1>1, <1>2, <1>3 DEF OrchOK, OrchRec, Decided, Running

(* The orchestrator's own steps: it decides when both programs have ended. *)
LEMMA ConductorOrch ==
  ASSUME JudgingInv, NEW n \in CaseIds, NEW b, Conductor(n, b)
  PROVE  OrchOK'
<1> DEFINE o == orch[n]
<1>1. OrchOK /\ o \in OrchRec /\ Decided(o)
  BY DEF JudgingInv, OrchOK
<1>2. problem' = problem
  BY DEF Conductor, Setup, SetupRaises, StartFirst, StartSecond,
     StartRaises, Poll, Deadline, Read, Playing, reg
<1>3. CASE Setup(n, b)
  <2>1. PICK u : Conduct(n, u) /\ u = [o EXCEPT !.pc = "first"]
    BY <1>3 DEF Setup
  <2>2. u \in OrchRec /\ u.pc = "first"
    BY <1>1, <2>1 DEF OrchRec
  <2> QED
    BY <1>1, <1>2, <2>1, <2>2, OrchMoves DEF Decided
<1>4. CASE SetupRaises(n) \/ StartRaises(n)
  <2>1. Conduct(n, Raised(o))
    BY <1>4 DEF SetupRaises, StartRaises
  <2> HIDE DEF o
  <2> QED
    BY <1>1, <1>2, <2>1, RaisedOK, OrchMoves
<1>5. CASE StartFirst(n)
  <2>1. Started \in ProcRec
    BY DEF Started, ProcRec
  <2>2. PICK u : /\ Conduct(n, u)
                 /\ \/ u = [o EXCEPT !.pc = "second", !.tea = Started]
                    \/ u = [o EXCEPT !.pc = "second", !.stu = Started]
    BY <1>5 DEF StartFirst
  <2>3. u \in OrchRec /\ u.pc = "second"
    BY <1>1, <2>1, <2>2 DEF OrchRec
  <2> QED
    BY <1>1, <1>2, <2>2, <2>3, OrchMoves DEF Decided
<1>6. CASE StartSecond(n)
  <2>1. Started \in ProcRec
    BY DEF Started, ProcRec
  <2>2. PICK u : /\ Conduct(n, u)
                 /\ \/ u = [o EXCEPT !.pc = "poll", !.kick = TRUE, !.tea = Started]
                    \/ u = [o EXCEPT !.pc = "poll", !.kick = TRUE, !.stu = Started]
    BY <1>6 DEF StartSecond
  <2>3. u \in OrchRec /\ u.pc = "poll"
    BY <1>1, <2>1, <2>2 DEF OrchRec
  <2> QED
    BY <1>1, <1>2, <2>2, <2>3, OrchMoves DEF Decided
<1>7. CASE Poll(n)
  <2>1. o.pc = "poll" /\ ~Running(o.stu)
    BY <1>7 DEF Poll
  <2>2. CASE ~Running(o.tea)
    <3>1. PICK u : Conduct(n, u) /\ u = [o EXCEPT !.pc = "read"]
      BY <1>7, <2>2 DEF Poll
    <3>2. u \in OrchRec /\ u.pc = "read" /\ u.stu = o.stu /\ u.tea = o.tea
      BY <1>1, <3>1 DEF OrchRec
    <3> QED
      BY <1>1, <1>2, <2>1, <2>2, <3>1, <3>2, OrchMoves DEF Decided
  <2>3. CASE Running(o.tea)
    <3>1. PICK u : /\ Conduct(n, u)
                   /\ u = [o EXCEPT !.toTea = o.toTea \/ o.kick, !.kick = FALSE]
      BY <1>7, <2>3 DEF Poll
    <3>2. u \in OrchRec /\ u.pc = "poll"
      BY <1>1, <2>1, <3>1 DEF OrchRec
    <3> QED
      BY <1>1, <1>2, <3>1, <3>2, OrchMoves DEF Decided
  <2> QED
    BY <2>2, <2>3
<1>8. CASE Deadline(n)
  <2>1. PICK u : /\ Conduct(n, u)
                 /\ u = [o EXCEPT !.pc = "read", !.stu = Killed(o.stu), !.tea = Killed(o.tea)]
    BY <1>8 DEF Deadline
  <2>2. \A p \in ProcRec : Killed(p) \in ProcRec /\ ~Running(Killed(p))
    BY DEF Killed, Running, ProcRec
  <2>3. o.stu \in ProcRec /\ o.tea \in ProcRec
    BY <1>1 DEF OrchRec
  <2>4. u \in OrchRec /\ u.pc = "read" /\ u.stu = Killed(o.stu) /\ u.tea = Killed(o.tea)
    BY <1>1, <2>1, <2>2, <2>3 DEF OrchRec
  <2> QED
    BY <1>1, <1>2, <2>1, <2>2, <2>3, <2>4, OrchMoves DEF Decided
<1>9. CASE Read(n)
  <2>1. PICK v, u : /\ Conduct(n, u) /\ v \in {"CE", Combine(o)}
                    /\ u = [o EXCEPT !.pc = "done", !.verdict = v]
    BY <1>9 DEF Read
  <2>2. o.pc = "read"
    BY <1>9 DEF Read
  <2>3. v \in {"AC", "WA", "CE", "TLE", "RE"}
        /\ (v \in {"AC", "WA"} => o.stu.res = "AC" /\ o.tea.res = "AC" /\ o.check = v)
        /\ (v \in Marks => v \in {o.stu.res, o.tea.res})
    BY <2>1 DEF Combine, Status, Marks
  <2>4. u \in OrchRec /\ u.pc = "done" /\ u.verdict = v /\ u.stu = o.stu /\ u.tea = o.tea
        /\ u.check = o.check
    BY <1>1, <2>1, <2>3 DEF OrchRec
  <2> HIDE DEF o
  <2>5. Decided(u)
    BY <1>1, <2>2, <2>3, <2>4 DEF Decided
  <2> QED
    BY <1>1, <1>2, <2>1, <2>4, <2>5, OrchMoves
<1> QED
  BY <1>3, <1>4, <1>5, <1>6, <1>7, <1>8, <1>9 DEF Conductor

(* Once the orchestrator reads, no program runs.                            *)
LEMMA ProgramOrch ==
  ASSUME JudgingInv, NEW n \in CaseIds, Program(n)
  PROVE  OrchOK'
<1> DEFINE o == orch[n]
<1>1. OrchOK /\ o \in OrchRec /\ Decided(o)
  BY DEF JudgingInv, OrchOK
<1>2. problem' = problem
  BY DEF Program, Write, AwaitInput, ReadInput, Exit, WriteCheck, Playing, reg
<1>3. (Running(o.stu) \/ Running(o.tea)) /\ o.pc = "done" => o.verdict = "CE"
  BY <1>1 DEF Decided
<1>4. (Running(o.stu) \/ Running(o.tea)) => o.pc # "read"
  BY <1>1 DEF Decided
<1>5. ASSUME NEW u \in OrchRec, Conduct(n, u), u.pc = o.pc, u.verdict = o.verdict,
             Running(o.stu) \/ Running(o.tea)
      PROVE  OrchOK'
  <2>1. Decided(u)
    BY <1>3, <1>4, <1>5 DEF Decided
  <2> QED
    BY <1>1, <1>2, <1>5, <2>1, OrchMoves
<1>6. CASE WriteCheck(n)
  <2>1. PICK c, u : /\ c \in {"AC", "WA", "odd"}
                   /\ Conduct(n, u) /\ u = [o EXCEPT !.check = c]
    BY <1>6 DEF WriteCheck
  <2>2. u \in OrchRec /\ u.pc = o.pc /\ u.verdict = o.verdict
    BY <1>1, <2>1 DEF OrchRec
  <2>3. Running(o.tea)
    BY <1>6 DEF WriteCheck, Running
  <2> QED
    BY <1>5, <2>1, <2>2, <2>3
<1>7. ASSUME NEW p \in {"stu", "tea"},
             Write(n, p) \/ AwaitInput(n, p) \/ ReadInput(n, p) \/ Exit(n, p)
      PROVE  OrchOK'
  <2>1. Running(o.stu) \/ Running(o.tea)
    BY <1>7 DEF Write, AwaitInput, ReadInput, Exit, Running
  <2>2. o.stu \in ProcRec /\ o.tea \in ProcRec
    BY <1>1 DEF OrchRec
  <2>3. CASE Write(n, p)
    <3>1. PICK u : Conduct(n, u) /\ (u = [o EXCEPT !.toTea = TRUE] \/ u = [o EXCEPT !.toStu = TRUE])
      BY <2>3 DEF Write, Outbox
    <3>2. u \in OrchRec /\ u.pc = o.pc /\ u.verdict = o.verdict
      BY <1>1, <3>1 DEF OrchRec
    <3> QED
      BY <1>5, <2>1, <3>1, <3>2
  <2>4. ASSUME NEW q \in ProcRec, NEW u,
               Conduct(n, u), u = [o EXCEPT !.stu = q] \/ u = [o EXCEPT !.tea = q]
        PROVE  OrchOK'
    <3>1. u \in OrchRec /\ u.pc = o.pc /\ u.verdict = o.verdict
      BY <1>1, <2>4 DEF OrchRec
    <3> QED
      BY <1>5, <2>1, <2>4, <3>1
  <2>5. CASE AwaitInput(n, p)
    <3>1. PICK q, u : /\ Conduct(n, u) /\ u = [o EXCEPT ![p] = q]
                      /\ q = [o[p] EXCEPT !.st = "wait"]
      BY <2>5 DEF AwaitInput
    <3>2. q \in ProcRec
      BY <2>2, <3>1 DEF ProcRec
    <3> QED
      BY <2>4, <3>1, <3>2
  <2>6. CASE ReadInput(n, p)
    <3>1. PICK q, r, u : /\ Conduct(n, u) /\ r = [o EXCEPT ![p] = q]
                      /\ q = [o[p] EXCEPT !.st = "run"]
                      /\ u = [r EXCEPT ![Inbox(p)] = FALSE]
      BY <2>6, <1>1 DEF ReadInput, Inbox, OrchRec
    <3>2. q \in ProcRec
      BY <2>2, <3>1 DEF ProcRec
    <3>3. r \in OrchRec /\ r.pc = o.pc /\ r.verdict = o.verdict
      BY <1>1, <3>1, <3>2 DEF OrchRec
    <3>4. u = [r EXCEPT !.toStu = FALSE] \/ u = [r EXCEPT !.toTea = FALSE]
      BY <3>1 DEF Inbox
    <3>5. u \in OrchRec /\ u.pc = o.pc /\ u.verdict = o.verdict
      BY <3>3, <3>4 DEF OrchRec
    <3> QED
      BY <1>5, <2>1, <3>1, <3>5
  <2>7. CASE Exit(n, p)
    <3>1. PICK res, u : /\ res \in {"AC", "RE", "TLE", "odd"}
                        /\ Conduct(n, u) /\ u = [o EXCEPT ![p] = [st |-> "exit", res |-> res]]
      BY <2>7 DEF Exit
    <3>2. [st |-> "exit", res |-> res] \in ProcRec
      BY <3>1 DEF ProcRec
    <3> QED
      BY <2>4, <3>1, <3>2
  <2> QED
    BY <1>7, <2>3, <2>5, <2>6, <2>7
<1> QED
  BY <1>6, <1>7 DEF Program

-----------------------------------------------------------------------------
(* The case threads under the steps of the others.                          *)
LEMMA CasesStay ==
  ASSUME JudgingInv, cases' \subseteq cases, collector'.snaps = collector.snaps,
         UNCHANGED <<problem, att, stage, results, info, compiled, orch, overlap>>
  PROVE  CasesOK'
<1>1. ASSUME NEW s \in cases PROVE CaseOK(s)'
  <2>1. CaseOK(s)
    BY DEF JudgingInv, CasesOK
  <2>2. Position(s)'
    BY <2>1 DEF CaseOK, Position, CaseRec, CaseIds
  <2>3. Evidence(s)'
    BY <2>1 DEF CaseOK, Evidence, Reason
  <2>4. Support(s)'
    BY <2>1 DEF CaseOK, Support, Current, Registered
  <2> QED
    BY <2>2, <2>3, <2>4 DEF CaseOK
<1> QED
  BY <1>1 DEF JudgingInv, CasesOK

(* Before the cases of an attempt are started, only old threads are left.   *)
LEMMA BeforeCases ==
  ASSUME JudgingInv, UNCHANGED <<problem, att, cases, overlap>>,
         stage \in {"prepare", "rules", "analysis", "work"}
  PROVE  CasesOK'
<1>1. ASSUME NEW s \in cases PROVE CaseOK(s)'
  <2>1. CaseOK(s) /\ s.att # att /\ ~Early(s)
    BY DEF JudgingInv, CasesOK, CaseOK, Position
  <2>2. Position(s)'
    BY <2>1 DEF CaseOK, Position, CaseRec, CaseIds, Early
  <2>3. Evidence(s)'
    BY <2>1 DEF CaseOK, Evidence, Reason
  <2>4. Support(s)'
    BY <2>1 DEF CaseOK, Support, Current, Early
  <2> QED
    BY <2>2, <2>3, <2>4 DEF CaseOK
<1> QED
  BY <1>1 DEF JudgingInv, CasesOK

(* After a new submission the threads of earlier attempts are late ones.   *)
LEMMA SubmitCases ==
  ASSUME JudgingInv, Submit
  PROVE  CasesOK'
<1>1. UNCHANGED <<problem, cases, collector>> /\ att' = att + 1 /\ att \in Nat /\ stage = "idle"
  BY JudgingAssumption DEF Submit, JudgingInv, Globals, Registered, store
<1>2. ~overlap' => ~overlap /\ cases = {}
  BY DEF Submit
<1>3. ASSUME NEW s \in cases PROVE CaseOK(s)'
  <2>1. CaseOK(s) /\ ~Early(s) /\ s.att <= att /\ s.att \in Nat
    BY <1>1 DEF JudgingInv, CasesOK, CaseOK, Position, CaseRec, Attempts
  <2>2. s.att # att' /\ s.att <= att'
    BY <1>1, <2>1
  <2>3. Position(s)'
    BY <1>1, <1>2, <2>1, <2>2 DEF CaseOK, Position, CaseRec, CaseIds, Early
  <2>4. Evidence(s)'
    BY <1>1, <1>2, <2>1 DEF CaseOK, Evidence, Reason
  <2>5. Support(s)'
    BY <1>1, <2>1, <2>2 DEF CaseOK, Support, Current, Early
  <2> QED
    BY <2>3, <2>4, <2>5 DEF CaseOK
<1> QED
  BY <1>1, <1>3 DEF JudgingInv, CasesOK

(* The cases that start find no result and no thread of their attempt.     *)
LEMMA StartCasesCases ==
  ASSUME JudgingInv, StartCases
  PROVE  CasesOK'
<1>1. /\ UNCHANGED <<problem, att, results, info, compiled, orch, overlap, collector>>
      /\ stage = "work" /\ stage' = "cases"
      /\ cases' = cases \cup {NewCase(n) : n \in CaseIds}
  BY DEF StartCases, built, store, hist
<1>2. ASSUME NEW s \in cases PROVE CaseOK(s)' /\ s.att # att
  <2>1. CaseOK(s) /\ s.att # att /\ ~Early(s)
    BY <1>1 DEF JudgingInv, CasesOK, CaseOK, Position
  <2>2. Position(s)'
    BY <1>1, <2>1 DEF CaseOK, Position, CaseRec, CaseIds, Early
  <2>3. Evidence(s)'
    BY <1>1, <2>1 DEF CaseOK, Evidence, Reason
  <2>4. Support(s)'
    BY <1>1, <2>1 DEF CaseOK, Support, Current, Early
  <2> QED
    BY <2>1, <2>2, <2>3, <2>4 DEF CaseOK
<1>3. \A n \in CaseIds : results[n] = "none"
  BY <1>1 DEF JudgingInv, Flow
<1>4. att \in Attempts
  BY <1>1 DEF JudgingInv, Flow
<1>5. ASSUME NEW n \in CaseIds, NEW u, u = NewCase(n)
      PROVE  CaseOK(u)' /\ u.att = att /\ u.id = n
  <2>2. u \in CaseRec /\ u.att = att /\ u.id = n /\ u.pc = "prepare" /\ u.use = "none"
    BY <1>4, <1>5, JudgingAssumption DEF NewCase, CaseRec, Earlier, Makers
  <2>3. u.v = "none" /\ u.ran = "none" /\ u.said = "none" /\ ~u.left
    BY <1>5 DEF NewCase
  <2>4. Position(u)'
    BY <1>1, <1>3, <1>4, <2>2, JudgingAssumption DEF Position, CaseRec, CaseIds, Attempts
  <2>5. Evidence(u)'
    BY <2>2, <2>3 DEF Evidence, Earlier
  <2>6. Support(u)'
    BY <2>2, <2>3 DEF Support
  <2> QED
    BY <2>2, <2>4, <2>5, <2>6 DEF CaseOK
<1>6. \A t \in cases' : CaseOK(t)'
  BY <1>1, <1>2, <1>5
<1>7. \A t, u \in cases : t.att = u.att /\ t.id = u.id => t = u
  BY DEF JudgingInv, CasesOK
<1>8. \A t, u \in cases' : t.att = u.att /\ t.id = u.id => t = u
  BY <1>1, <1>2, <1>5, <1>7
<1> QED
  BY <1>6, <1>8 DEF CasesOK

(* Build and compile threads end before the cases of their attempt start,  *)
(* or touch only the program in the collector.                             *)
LEMMA ToolCases ==
  ASSUME JudgingInv, NEW t \in tools, ToolStep(t)
  PROVE  CasesOK'
<1>1. CASE Build(t) \/ BuildFails(t) \/ Compile(t) \/ ToolDies(t)
  <2>1. UNCHANGED <<problem, att, cases, overlap>> /\ t.pc = "work"
    BY <1>1 DEF Build, BuildFails, Compile, ToolDies, reg, hist
  <2>2. stage = "work"
    BY <2>1 DEF JudgingInv, ToolsOK, ToolOK
  <2> QED
    BY <2>1, <2>2, BeforeCases
<1>2. CASE CollectAndSend(t) \/ FinishSend(t)
  <2>1. UNCHANGED <<problem, att, stage, results, info, compiled, orch, overlap, cases>>
    BY <1>2 DEF CollectAndSend, FinishSend, reg, built, hist
  <2>2. collector \in StoreRec
    BY DEF JudgingInv, Globals
  <2>3. collector'.snaps = collector.snaps
    BY <1>2, <2>2 DEF CollectAndSend, FinishSend, Collected, Uploaded, StoreRec
  <2> QED
    BY <2>1, <2>3, CasesStay
<1> QED
  BY <1>1, <1>2 DEF ToolStep

(* Completing takes place when every case of the attempt has recorded its  *)
(* verdict.                                                                *)
LEMMA CloserCases ==
  ASSUME JudgingInv, NEW c \in closing, CloserStep(c)
  PROVE  CasesOK'
<1>1. collector \in StoreRec /\ CloserOK(c)
  BY DEF JudgingInv, Globals, ClosersOK
<1>2. CASE Parse(c) \/ AssertionFails(c) \/ Score(c) \/ ReportFails(c)
  <2>1. /\ UNCHANGED <<problem, att, stage, results, info, compiled, orch, overlap, collector>>
        /\ cases' \subseteq cases
    BY <1>2 DEF Parse, AssertionFails, Score, ReportFails, Closing, reg, built, hist, store
  <2> QED
    BY <2>1, CasesStay
<1>3. CASE Report(c) \/ UploadAll(c)
  <2>1. UNCHANGED <<problem, att, stage, results, info, compiled, orch, overlap, cases>>
    BY <1>3 DEF Report, UploadAll, Closing, built, hist
  <2>2. collector'.snaps = collector.snaps
    BY <1>1, <1>3 DEF Report, UploadAll, Collected, StoreRec
  <2> QED
    BY <2>1, <2>2, CasesStay
<1>4. CASE Forget(c)
  <2>1. UNCHANGED <<problem, att, info, orch, overlap, collector, cases>> /\ stage' = "idle"
        /\ stage = "closing"
    BY <1>1, <1>4 DEF Forget, Closing, hist, store, CloserOK
  <2>2. ASSUME NEW s \in cases PROVE CaseOK(s)'
    <3>1. CaseOK(s) /\ ~Early(s)
      BY <2>1 DEF JudgingInv, CasesOK, CaseOK, Position
    <3>2. Position(s)'
      BY <2>1, <3>1 DEF CaseOK, Position, CaseRec, CaseIds, Early
    <3>3. Evidence(s)'
      BY <2>1, <3>1 DEF CaseOK, Evidence, Reason
    <3>4. Support(s)'
      BY <2>1, <3>1 DEF CaseOK, Support, Current, Registered, Early
    <3> QED
      BY <3>2, <3>3, <3>4 DEF CaseOK
  <2> QED
    BY <2>1, <2>2 DEF JudgingInv, CasesOK
<1>5. CASE CleanUp(c)
  <2>1. UNCHANGED <<problem, att, stage, results, orch, compiled, cases>> /\ c.pc = "cleanup"
    BY <1>5 DEF CleanUp, built
  <2>2. ~overlap' => ~overlap /\ stage = "idle"
    BY <1>1, <1>5, <2>1 DEF CleanUp, CloserOK
  <2>3. ASSUME NEW s \in cases PROVE CaseOK(s)'
    <3>1. CaseOK(s) /\ (~overlap' => ~Early(s))
      BY <2>2 DEF JudgingInv, CasesOK, CaseOK, Position
    <3>2. Position(s)'
      BY <2>1, <2>2, <3>1 DEF CaseOK, Position, CaseRec, CaseIds
    <3>3. Evidence(s)'
      BY <2>1, <2>2, <3>1 DEF CaseOK, Evidence, Reason
    <3>4. Support(s)'
      BY <2>1, <2>2, <3>1 DEF CaseOK, Support, Current, Registered
    <3> QED
      BY <3>2, <3>3, <3>4 DEF CaseOK
  <2> QED
    BY <2>1, <2>3 DEF JudgingInv, CasesOK
<1> QED
  BY <1>2, <1>3, <1>4, <1>5 DEF CloserStep

-----------------------------------------------------------------------------
(* What the threads leave alone.                                            *)
LEMMA CaseFrame ==
  ASSUME JudgingInv, NEW t \in cases,
         CaseStep(t) \/ CutTalk(t) \/ Orchestrate(t) \/ Act(t)
  PROVE  /\ UNCHANGED <<problem, att, info, home, src, teacher, compiled, prebuilt,
                        analysis, tools, uploads, overlap>>
         /\ UNCHANGED <<stage, results, closing>> \/ RecordCase(t)
         /\ UNCHANGED collector \/ PrepareCase(t) \/ KeepArtifact(t)
<1> USE DEF Judging, disk, built, store
<1>1. CASE PrepareCaseFails(t) \/ NotCompiled(t) \/ TestcaseMissing(t) \/ StartRefused(t)
             \/ EndRun(t) \/ RunFails(t) \/ RunRefused(t) \/ EndTalk(t)
  BY <1>1 DEF PrepareCaseFails, NotCompiled, TestcaseMissing, StartRefused, EndRun,
     RunFails, RunRefused, EndTalk
<1>2. CASE NoCheck(t) \/ CheckerUnready(t) \/ StartChecker(t) \/ CheckerRefused(t)
             \/ EndChecker(t) \/ CheckerFails(t) \/ Sweep(t)
  BY <1>2 DEF NoCheck, CheckerUnready, StartChecker, CheckerRefused, EndChecker,
     CheckerFails, Sweep
<1>3. CASE PrepareCase(t)
  BY <1>3 DEF PrepareCase
<1>4. CASE KeepArtifact(t)
  BY <1>4 DEF KeepArtifact
<1>5. CASE StartRun(t) \/ RecordCase(t) \/ CutTalk(t)
  BY <1>5 DEF StartRun, RecordCase, CutTalk
<1>6. CASE Orchestrate(t) \/ Act(t)
  BY <1>6, CaseOrchestrates DEF reg, hist
<1> QED
  BY <1>1, <1>2, <1>3, <1>4, <1>5, <1>6 DEF CaseStep

(* The analysis ends with the tools, with a failed submission, or goes on.  *)
LEMMA AnalysisFrame ==
  ASSUME JudgingInv, Analysis
  PROVE  /\ stage \in {"rules", "analysis"}
         /\ UNCHANGED <<problem, att, info, home, src, teacher, compiled, prebuilt, cases,
                        orch, boxes, collector, uploads, overlap, refused>>
         /\ \/ StartTools /\ stage' = "work" /\ UNCHANGED <<results, closing>>
            \/ FailAll("AE") /\ UNCHANGED tools
            \/ stage' = "analysis" /\ UNCHANGED <<results, closing, tools>>
<1> USE DEF Screening, disk, built, store, hist, Pass, Fail
<1>1. analysis.pc \in Analysing => stage = "analysis"
  BY DEF JudgingInv, Flow
<1> USE DEF Analysing
<1>2. CASE NoRules \/ FetchRaises \/ FetchRules
  BY <1>2 DEF NoRules, FetchRaises, FetchRules
<1>3. CASE ChooseSources
  BY <1>1, <1>3 DEF ChooseSources
<1>4. CASE SkipAnalysis \/ SyntaxError \/ CheckItems
  BY <1>1, <1>4 DEF SkipAnalysis, SyntaxError, CheckItems
<1>5. CASE VisitFile \/ DetectCycles
  BY <1>1, <1>5 DEF VisitFile, DetectCycles
<1> QED
  BY <1>2, <1>3, <1>4, <1>5 DEF Analysis

-----------------------------------------------------------------------------
(* Build and compile threads.                                               *)

(* None is at work but at one stage, and one at most then.                  *)
LEMMA OneAtWork ==
  ASSUME JudgingInv, NEW t \in tools, t.pc = "work"
  PROVE  stage = "work" /\ \A u \in tools : u.pc = "work" => u = t
<1>1. \A u \in tools : ToolOK(u)
  BY DEF JudgingInv, ToolsOK
<1>2. ASSUME NEW u \in tools, u.pc = "work"
      PROVE  u = [job |-> IF NeedsMake THEN "build" ELSE "compile", att |-> att,
                  pc |-> "work", data |-> 0]
  BY <1>1, <1>2 DEF ToolOK, ToolRec
<1> QED
  BY <1>1, <1>2 DEF ToolOK

(* A thread whose surroundings do not change keeps what is known of it.    *)
LEMMA ToolSame ==
  ASSUME JudgingInv, NEW t \in tools, problem' = problem, att' = att,
         ~overlap' => ~overlap,
         t.pc = "work" => stage' = stage /\ compiled' = compiled
  PROVE  ToolOK(t)'
<1>1. ToolOK(t)
  BY DEF JudgingInv, ToolsOK
<1>2. (t \in ToolRec)'
  BY <1>1 DEF ToolOK, ToolRec
<1>3. NeedsMake' = NeedsMake
  BY DEF NeedsMake
<1> QED
  BY <1>1, <1>2, <1>3 DEF ToolOK

(* So do all of them.                                                      *)
LEMMA ToolsSame ==
  ASSUME JudgingInv, tools' \subseteq tools, problem' = problem, att' = att,
         ~overlap' => ~overlap, stage = "work" => stage' = stage /\ compiled' = compiled
  PROVE  ToolsOK'
BY OneAtWork, ToolSame DEF ToolsOK

(* The analysis starts the thread; the cases start after it.               *)
LEMMA StageTools ==
  ASSUME JudgingInv, Submit \/ Prepare \/ PrepareFails \/ Analysis \/ StartCases
  PROVE  ToolsOK'
<1>1. CASE Submit
  <2>0. ~overlap' => ~overlap /\ tools = {}
    BY <1>1 DEF Submit
  <2>1. stage = "idle" /\ problem' = problem /\ att' = att + 1 /\ tools' = tools /\ att \in Nat
    BY <1>1, JudgingAssumption DEF Submit, Registered, JudgingInv, Globals
  <2>2. ASSUME NEW t \in tools PROVE ToolOK(t)'
    <3>1. ToolOK(t) /\ t.pc # "work" /\ t.att \in Nat
      BY <2>1, OneAtWork DEF JudgingInv, ToolsOK, ToolOK, ToolRec, Attempts
    <3>2. t.att <= att'
      BY <2>1, <3>1 DEF ToolOK
    <3> QED
      BY <2>0, <2>1, <3>1, <3>2 DEF ToolOK, ToolRec
  <2> QED
    BY <2>1, <2>2 DEF ToolsOK
<1>2. CASE Prepare \/ PrepareFails
  <2>1. stage = "prepare" /\ problem' = problem /\ att' = att /\ tools' = tools /\ overlap' = overlap
    BY <1>2 DEF Prepare, PrepareFails, hist
  <2> QED
    BY <2>1, ToolsSame
<1>3. CASE Analysis
  <2>1. stage \in {"rules", "analysis"} /\ problem' = problem /\ att' = att /\ overlap' = overlap
        /\ compiled' = compiled
    BY <1>3, AnalysisFrame
  <2>2. CASE tools' = tools
    BY <2>1, <2>2, ToolsSame
  <2>3. CASE StartTools /\ stage' = "work"
    <3>1. \A t \in tools : ToolOK(t)'
      BY <2>1, OneAtWork, ToolSame
    <3>2. compiled = "none" /\ att \in Attempts
      BY <2>1 DEF JudgingInv, Flow
    <3>3. ASSUME NEW t \in tools', t \notin tools PROVE ToolOK(t)'
      <4>1. PICK job : t = Tool(job) /\ (job = "build" <=> NeedsMake)
                       /\ job \in {"build", "compile"} /\ (job = "compile" => ~problem.py)
        BY <2>3, <3>3 DEF StartTools
      <4>2. t.job = job /\ t.att = att /\ t.pc = "work" /\ t.data = 0
            /\ t \in ToolRec
        BY <3>2, <4>1, JudgingAssumption DEF Tool, ToolRec
      <4>3. (t \in ToolRec)' /\ NeedsMake' = NeedsMake
        BY <2>1, <4>2 DEF ToolRec, NeedsMake
      <4> QED
        BY <2>1, <2>3, <3>2, <4>1, <4>2, <4>3 DEF ToolOK, Attempts
    <3> QED
      BY <3>1, <3>3 DEF ToolsOK
  <2> QED
    BY <1>3, <2>2, <2>3, AnalysisFrame
<1>4. CASE StartCases
  <2>1. problem' = problem /\ att' = att /\ tools' = tools /\ overlap' = overlap
        /\ (prebuilt \/ problem.py \/ compiled # "none")
        /\ \A t \in tools : ~(t.job = "build" /\ t.att = att /\ t.pc = "work")
    BY <1>4 DEF StartCases, hist
  <2>2. ASSUME NEW t \in tools PROVE t.pc # "work"
    BY <2>1 DEF JudgingInv, ToolsOK, ToolOK, ToolRec, Flow
  <2> QED
    BY <2>1, <2>2, ToolSame DEF ToolsOK
<1> QED
  BY <1>1, <1>2, <1>3, <1>4

(* The program that is collected is of the latest attempt.                  *)
LEMMA CollectedOwn ==
  ASSUME JudgingInv
  PROVE  /\ Collected \in StoreRec
         /\ Collected.snaps = collector.snaps /\ Collected.arts = collector.arts
         /\ Collected.sent = collector.sent
         /\ ~overlap => Collected.binary \in {0, att}
<1>1. collector \in StoreRec /\ home \in {0, att} /\ (home = 0 => src = NoFiles) /\ att \in 0..MaxAttempts
  BY DEF JudgingInv, Globals, Flow
<1>2. src.main # "none" => home = att
  BY <1>1 DEF NoFiles, Names
<1>3. ~overlap => collector.binary \in {0, att}
  BY DEF JudgingInv, StoreOK
<1>4. CASE collector.binary = 0 /\ src.main # "none"
  <2>1. Collected = [collector EXCEPT !.binary = home]
    BY <1>4 DEF Collected
  <2> QED
    BY <1>1, <1>2, <1>4, <2>1 DEF StoreRec
<1>5. CASE ~(collector.binary = 0 /\ src.main # "none")
  BY <1>1, <1>3, <1>5 DEF Collected
<1> QED
  BY <1>4, <1>5

(* A tool that goes on or ends.                                             *)
LEMMA ToolMoves ==
  ASSUME JudgingInv, NEW t \in tools, NEW p \in {"collect", "send"},
         NEW d \in 0..MaxAttempts, Advance(t, p, d) \/ EndTool(t),
         problem' = problem, att' = att, overlap' = overlap,
         p = "send" /\ ~overlap => d = att,
         t.pc = "work" \/ UNCHANGED <<stage, compiled>>
  PROVE  ToolsOK'
<1>1. ASSUME NEW s \in tools \ {t} PROVE ToolOK(s)'
  BY ToolSame, OneAtWork
<1>2. ToolOK(t)
  BY DEF JudgingInv, ToolsOK
<1>3. CASE EndTool(t)
  BY <1>1, <1>3 DEF EndTool, ToolsOK
<1>4. CASE Advance(t, p, d)
  <2>1. PICK u : u = [t EXCEPT !.pc = p, !.data = d]
    OBVIOUS
  <2>2. u \in ToolRec /\ u.att = t.att /\ u.pc = p /\ u.data = d
    BY <1>2, <2>1 DEF ToolOK, ToolRec
  <2>3. (u \in ToolRec)'
    BY <2>2 DEF ToolRec
  <2>4. ToolOK(u)'
    BY <1>2, <2>2, <2>3 DEF ToolOK
  <2> QED
    BY <1>1, <1>4, <2>1, <2>4 DEF Advance, ToolsOK
<1> QED
  BY <1>3, <1>4

(* A thread goes from its work to collecting and sending.                  *)
LEMMA ToolTools ==
  ASSUME JudgingInv, NEW t \in tools, ToolStep(t)
  PROVE  ToolsOK'
<1>1. problem' = problem /\ att' = att /\ overlap' = overlap
  BY DEF ToolStep, Build, BuildFails, Compile, ToolDies, CollectAndSend, FinishSend, reg, hist
<1>2. 0 \in 0..MaxAttempts
  BY JudgingAssumption
<1>3. CASE Build(t) \/ BuildFails(t) \/ Compile(t) \/ ToolDies(t) \/ FinishSend(t)
  <2>1. t.pc = "work" \/ UNCHANGED <<stage, compiled>>
    BY <1>3 DEF Build, BuildFails, Compile, ToolDies, FinishSend, reg, built
  <2>2. Advance(t, "collect", 0) \/ EndTool(t)
    BY <1>3 DEF Build, BuildFails, Compile, ToolDies, FinishSend, Built
  <2> QED
    BY <1>1, <1>2, <2>1, <2>2, ToolMoves
<1>4. CASE CollectAndSend(t)
  <2>1. UNCHANGED <<stage, compiled>>
    BY <1>4 DEF CollectAndSend, reg, built
  <2>2. CASE EndTool(t)
    BY <1>1, <1>2, <2>1, <2>2, ToolMoves
  <2>3. CASE Advance(t, "send", Collected.binary) /\ Collected.binary # 0
    BY <1>1, <2>1, <2>3, ToolMoves, CollectedOwn DEF StoreRec
  <2> QED
    BY <1>4, <2>2, <2>3 DEF CollectAndSend
<1> QED
  BY <1>3, <1>4 DEF ToolStep

(* That attempts overlapped is not forgotten.                               *)
LEMMA CloserLate ==
  ASSUME NEW c \in closing, CloserStep(c)
  PROVE  ~overlap' => ~overlap
<1>1. CASE CleanUp(c)
  BY <1>1 DEF CleanUp
<1>2. CASE Parse(c) \/ AssertionFails(c) \/ Score(c) \/ Report(c) \/ ReportFails(c)
             \/ UploadAll(c) \/ Forget(c)
  <2>1. overlap' = overlap
    BY <1>2 DEF Parse, AssertionFails, Score, Report, ReportFails, UploadAll, Forget,
       Closing, hist
  <2> QED
    BY <2>1
<1> QED
  BY <1>1, <1>2 DEF CloserStep

(* No thread is at work while the submission is completed.                 *)
LEMMA CloserTools ==
  ASSUME JudgingInv, NEW c \in closing, CloserStep(c)
  PROVE  ToolsOK'
<1>1. CloserOK(c)
  BY DEF JudgingInv, ClosersOK
<1>2. problem' = problem /\ att' = att /\ tools' = tools
  BY DEF CloserStep, Parse, AssertionFails, Score, Report, ReportFails, UploadAll, Forget,
     CleanUp, Closing, reg, hist
<1>4. ~overlap' => ~overlap
  BY CloserLate
<1>3. stage = "work" => stage' = stage /\ compiled' = compiled
  BY <1>1 DEF CloserOK, CloserStep, Parse, AssertionFails, Score, Report, ReportFails,
     UploadAll, Forget, CleanUp, reg, built
<1> QED
  BY <1>2, <1>3, <1>4, ToolsSame

(* None is while cases run.                                                *)
LEMMA CaseTools ==
  ASSUME JudgingInv, NEW t \in cases,
         CaseStep(t) \/ CutTalk(t) \/ Orchestrate(t) \/ Act(t)
  PROVE  ToolsOK'
<1>1. RecordCase(t) => stage = "cases"
  BY DEF RecordCase, JudgingInv, CasesOK, CaseOK, Position, Early
<1> QED
  BY <1>1, CaseFrame, ToolsSame

-----------------------------------------------------------------------------
(* The orchestrators' records under every step.                             *)
LEMMA CaseOrch ==
  ASSUME JudgingInv, NEW t \in cases,
         CaseStep(t) \/ CutTalk(t) \/ Orchestrate(t) \/ Act(t)
  PROVE  OrchOK'
<1>1. t.id \in CaseIds /\ OrchOK /\ problem' = problem
  BY CaseFrame DEF JudgingInv, CasesOK, CaseOK, Position, CaseRec
<1>2. NoOrch \in OrchRec /\ Decided(NoOrch)
  BY DEF NoOrch, NoProc, OrchRec, ProcRec, Decided
<1>3. [NoOrch EXCEPT !.pc = "setup"] \in OrchRec /\ Decided([NoOrch EXCEPT !.pc = "setup"])
  BY <1>2 DEF OrchRec, Decided
<1>4. CASE CutTalk(t)
  BY <1>1, <1>2, <1>4, OrchMoves DEF CutTalk, Conduct
<1>5. CASE Orchestrate(t)
  BY <1>1, <1>5, ConductorOrch DEF Orchestrate
<1>6. CASE Act(t)
  BY <1>1, <1>6, ProgramOrch DEF Act
<1>7. CASE orch' = orch
  BY <1>1, <1>7 DEF OrchOK, CaseIds, OrchRec, Decided, Running
<1>8. CASE orch' = [orch EXCEPT ![t.id] = [NoOrch EXCEPT !.pc = "setup"]]
  BY <1>1, <1>3, <1>8, OrchMoves DEF Conduct
<1>9. CASE CaseStep(t)
  <2>1. CASE StartRun(t)
    BY <1>7, <1>8, <2>1 DEF StartRun
  <2>2. CASE PrepareCase(t) \/ PrepareCaseFails(t) \/ NotCompiled(t) \/ TestcaseMissing(t)
               \/ StartRefused(t) \/ EndRun(t) \/ RunFails(t) \/ RunRefused(t) \/ EndTalk(t)
    BY <1>7, <2>2 DEF PrepareCase, PrepareCaseFails, NotCompiled, TestcaseMissing,
       StartRefused, EndRun, RunFails, RunRefused, EndTalk, Judging
  <2>3. CASE NoCheck(t) \/ CheckerUnready(t) \/ StartChecker(t) \/ CheckerRefused(t)
               \/ EndChecker(t) \/ CheckerFails(t) \/ KeepArtifact(t) \/ RecordCase(t) \/ Sweep(t)
    BY <1>7, <2>3 DEF NoCheck, CheckerUnready, StartChecker, CheckerRefused, EndChecker,
       CheckerFails, KeepArtifact, RecordCase, Sweep, Judging
  <2> QED
    BY <1>9, <2>1, <2>2, <2>3 DEF CaseStep
<1> QED
  BY <1>4, <1>5, <1>6, <1>9

(* The other steps leave the orchestrators alone.                          *)
LEMMA OtherOrch ==
  ASSUME JudgingInv,
         Submit \/ Prepare \/ PrepareFails \/ Analysis \/ StartCases
           \/ (\E t \in tools : ToolStep(t)) \/ (\E c \in closing : CloserStep(c))
  PROVE  OrchOK'
<1>1. orch' = orch /\ problem' = problem
  <2>1. CASE Submit \/ Prepare \/ PrepareFails \/ StartCases
    BY <2>1 DEF Submit, Prepare, PrepareFails, StartCases
  <2>2. CASE Analysis
    BY <2>2, AnalysisFrame
  <2>3. CASE \E t \in tools : ToolStep(t)
    BY <2>3 DEF ToolStep, Build, BuildFails, Compile, ToolDies, CollectAndSend, FinishSend, reg
  <2>4. CASE \E c \in closing : CloserStep(c)
    BY <2>4 DEF CloserStep, Parse, AssertionFails, Score, Report, ReportFails, UploadAll, Forget,
       CleanUp, Closing, reg
  <2> QED
    BY <2>1, <2>2, <2>3, <2>4
<1> QED
  BY <1>1 DEF JudgingInv, OrchOK, CaseIds, OrchRec, Decided, Running

(* The case threads under the steps of case threads, put together.          *)
LEMMA CaseCases ==
  ASSUME JudgingInv, NEW t \in cases,
         CaseStep(t) \/ CutTalk(t) \/ Orchestrate(t) \/ Act(t)
  PROVE  CasesOK'
BY PrepareCaseCase, PrepareCaseFailsCase, NotCompiledCase, TestcaseMissingCase, StartRunCase,
   DeathCase, EndRunCase, RunFailsCase, EndTalkCase, NoCheckCase, CheckerUnreadyCase,
   StartCheckerCase, EndCheckerCase, CheckerFailsCase, KeepArtifactCase, RecordCaseCase,
   SweepCase, CutTalkCase, OrchestrateCase DEF CaseStep

(* The case threads under the steps of the dispatcher, put together.       *)
LEMMA StageCases ==
  ASSUME JudgingInv, Submit \/ Prepare \/ PrepareFails \/ Analysis \/ StartCases
  PROVE  CasesOK'
<1>1. CASE Prepare \/ PrepareFails
  BY <1>1, BeforeCases DEF Prepare, PrepareFails, hist
<1>2. CASE Analysis
  BY <1>2, AnalysisFrame, BeforeCases
<1> QED
  BY <1>1, <1>2, SubmitCases, StartCasesCases

-----------------------------------------------------------------------------
(* The variables of the id.                                                 *)

(* The search changes what it keeps of a file.                              *)
LEMMA DetectKeeps ==
  ASSUME JudgingInv, DetectCycles
  PROVE  /\ (analysis \in AnalysisRec)'
         /\ analysis.pc = "search" /\ analysis'.pc \in {"visit", "search"}
         /\ analysis'.files = analysis.files /\ stage' = stage
<1>1. analysis \in AnalysisRec /\ analysis.pc = "search" /\ stage' = stage
  BY DEF JudgingInv, Globals, DetectCycles
<1>2. CASE \E u \in Funcs : Enter(u)
  <2>1. \E seen, stack : analysis' = [analysis EXCEPT !.seen = seen, !.stack = stack]
    BY <1>2 DEF Enter
  <2> QED
    BY <1>1, <2>1 DEF AnalysisRec
<1>3. CASE \E v \in analysis.left[Inside] : Follow(v)
  <2>1. PICK v : Follow(v)
    BY <1>3
  <2>2. analysis' = [analysis EXCEPT !.left = [analysis.left EXCEPT ![Inside] = @ \ {v}],
                       !.seen = analysis'.seen, !.stack = analysis'.stack,
                       !.found = analysis'.found]
    BY <1>1, <2>1 DEF Follow, AnalysisRec
  <2> QED
    BY <1>1, <2>2 DEF AnalysisRec
<1>4. CASE Leave
  BY <1>1, <1>4 DEF Leave, AnalysisRec
<1>5. CASE SearchEnds
  <2>1. \E seen, left, facts : analysis' =
           [analysis EXCEPT !.pc = "visit", !.seen = seen, !.left = left, !.facts = facts]
    BY <1>5 DEF SearchEnds
  <2> QED
    BY <1>1, <2>1 DEF AnalysisRec
<1> QED
  BY <1>2, <1>3, <1>4, <1>5 DEF DetectCycles

(* The analysis keeps its record.                                           *)
LEMMA AnalysisTypes ==
  ASSUME JudgingInv, Analysis
  PROVE  /\ (analysis \in AnalysisRec)'
         /\ analysis'.pc \in Analysing => stage' = "analysis"
<1> USE DEF Analysing
<1>1. analysis \in AnalysisRec
  BY DEF JudgingInv, Globals
<1>2. ASSUME NEW pc \in {"none", "skipped", "passed", "failed"}, NEW files \in SUBSET Sources,
             AnalysisDone(pc, files)
      PROVE  (analysis \in AnalysisRec)' /\ analysis'.pc = pc
  BY <1>2 DEF AnalysisDone, NoAnalysis, AnalysisRec
<1>3. CASE NoRules \/ FetchRaises
  BY <1>2, <1>3 DEF NoRules, FetchRaises, Pass, Fail
<1>4. CASE FetchRules
  <2>1. PICK r, w : analysis' = [NoAnalysis EXCEPT !.pc = "files", !.rules = r, !.white = w]
    BY <1>4 DEF FetchRules
  <2>2. stage' = "analysis"
    BY <1>4 DEF FetchRules
  <2> QED
    BY <2>1, <2>2 DEF NoAnalysis, AnalysisRec
<1>5. analysis.pc \in Analysing => stage = "analysis"
  BY DEF JudgingInv, Flow
<1>6. CASE ChooseSources
  <2>1. \A f \in ZipSources : f \subseteq Sources
    BY DEF ZipSources, Present
  <2>2. {Target} \subseteq Sources
    BY DEF Target, Sources
  <2>3. CASE Fail({})
    BY <1>2, <2>3 DEF Fail
  <2>4. ASSUME NEW files \in SUBSET Sources, stage' = stage,
               analysis' = [analysis EXCEPT !.pc = "visit", !.files = files, !.todo = files]
        PROVE  (analysis \in AnalysisRec)' /\ stage' = "analysis"
    BY <1>1, <1>5, <1>6, <2>4 DEF AnalysisRec, ChooseSources
  <2> QED
    BY <1>6, <2>1, <2>2, <2>3, <2>4 DEF ChooseSources
<1>7. CASE SkipAnalysis \/ SyntaxError
  BY <1>2, <1>7 DEF SkipAnalysis, SyntaxError, Pass, Fail
<1>8. CASE VisitFile
  <2>3. PICK f \in analysis.todo : \E g, facts : analysis' =
          [analysis EXCEPT !.pc = "search", !.todo = analysis.todo \ {f}, !.graph = g, !.left = g,
                           !.found = FALSE, !.facts = facts]
    BY ZenonT(30), <1>8 DEF VisitFile
  <2>1. PICK g, facts : analysis' =
          [analysis EXCEPT !.pc = "search", !.todo = analysis.todo \ {f}, !.graph = g, !.left = g,
                           !.found = FALSE, !.facts = facts]
    BY <2>3
  <2>2. stage' = "analysis"
    BY <1>5, <1>8 DEF VisitFile
  <2> QED
    BY <1>1, <2>1, <2>2 DEF AnalysisRec
<1>9. CASE CheckItems
  <2>1. analysis.files \subseteq Sources
    BY <1>1 DEF AnalysisRec
  <2> QED
    BY <1>2, <1>9, <2>1 DEF CheckItems, Pass, Fail
<1>10. CASE DetectCycles
  BY <1>5, <1>10, DetectKeeps
<1> QED
  BY <1>3, <1>4, <1>6, <1>7, <1>8, <1>9, <1>10 DEF Analysis

(* The results when all cases fail alike.                                   *)
LEMMA FailTypes ==
  ASSUME NEW v \in Verdicts, FailAll(v), problem' = problem
  PROVE  /\ results' \in [CaseIds' -> Verdicts \cup {"none"}] /\ stage' = "closing"
         /\ closing' = closing \cup {Closer(att)}
BY DEF FailAll, CaseIds

(* The files a strategy lays out are made by somebody.                      *)
LEMMA FilesTypes ==
  ASSUME JudgingInv
  PROVE  /\ \A f \in Arrivals : f \in [Names -> Makers]
         /\ \A f \in Laid(src) : f \in [Names -> Makers]
         /\ \A f \in MakeResults(src) :
              f \in [Names -> Makers] /\ Finalized(f) \in [Names -> Makers]
         /\ NoFiles \in [Names -> Makers] /\ Unjudged \in [CaseIds -> Verdicts \cup {"none"}]
<1>1. src \in [Names -> Makers]
  BY DEF JudgingInv, Globals
<1>2. \A names : \A who \in Makers : Files(names, who) \in [Names -> Makers]
  BY DEF Files, Makers
<1>3. ASSUME NEW f \in Arrivals PROVE f \in [Names -> Makers]
  <2>1. PICK names : f = Files(names, "student")
    BY DEF Arrivals
  <2>2. "student" \in Makers
    BY DEF Makers
  <2> QED
    BY <1>2, <2>1, <2>2
<1>4. ASSUME NEW f \in Laid(src) PROVE f \in [Names -> Makers]
  <2>1. CASE f = src
    BY <1>1, <2>1
  <2>2. CASE \E names : f = [Files(names, "staff") EXCEPT !.impl = src.entry]
    <3>1. PICK names : f = [Files(names, "staff") EXCEPT !.impl = src.entry]
      BY <2>2
    <3>2. Files(names, "staff") \in [Names -> Makers] /\ src.entry \in Makers
      BY <1>1, <1>2 DEF Makers, Names
    <3> QED
      BY <3>1, <3>2
  <2> QED
    BY <2>1, <2>2 DEF Laid
<1>5. ASSUME NEW f \in MakeResults(src) PROVE f \in [Names -> Makers]
  <2>1. PICK made : f = [n \in Names |-> IF n \in made THEN "judge" ELSE src[n]]
    BY DEF MakeResults
  <2> QED
    BY <1>1, <2>1 DEF Makers
<1>6. \A f \in [Names -> Makers] : Finalized(f) \in [Names -> Makers]
  BY DEF Finalized, Names, Makers
<1> QED
  BY <1>3, <1>4, <1>5, <1>6 DEF NoFiles, Unjudged, Makers

(* Types, when the variables that seldom change do not.                    *)
LEMMA GlobalsSame ==
  ASSUME JudgingInv, UNCHANGED <<problem, att, info, home, analysis, overlap>>,
         (stage \in Stages)', (results \in [CaseIds -> Verdicts \cup {"none"}])',
         (src \in [Names -> Makers])', (teacher \in BOOLEAN)', (prebuilt \in BOOLEAN)',
         (compiled \in {"none", "AC", "CE", "JE"})', collector' \in StoreRec
  PROVE  Globals'
<1>1. CaseIds' = CaseIds
  BY DEF CaseIds
<1>2. (analysis \in AnalysisRec)' /\ (collector \in StoreRec)'
  BY <1>1 DEF JudgingInv, Globals, AnalysisRec, StoreRec
<1> QED
  BY <1>2 DEF JudgingInv, Globals

(* The results keep their type when they do not change.                    *)
LEMMA ResultsSame ==
  ASSUME JudgingInv, problem' = problem, results' = results
  PROVE  (results \in [CaseIds -> Verdicts \cup {"none"}])'
BY DEF JudgingInv, Globals, CaseIds

(* The dispatcher's steps keep the types.                                  *)
LEMMA StageGlobals ==
  ASSUME JudgingInv, Submit \/ Prepare \/ PrepareFails \/ Analysis \/ StartCases
  PROVE  Globals'
<1>0. Globals /\ "AE" \in Verdicts
  BY DEF JudgingInv, Verdicts
<1>1. CASE Submit
  <2>1. /\ UNCHANGED <<problem, analysis, collector, prebuilt, compiled>>
        /\ att' = att + 1 /\ home' = att + 1 /\ stage' = "prepare" /\ src' \in Arrivals
        /\ teacher' = FALSE /\ results' = Unjudged
        /\ info' \in {info, "ready", "error"}
    BY <1>1 DEF Submit, built, store
  <2>2. att' \in 0..MaxAttempts
    BY <1>0, <1>1, <2>1, JudgingAssumption DEF Submit, Globals
  <2>3. overlap' \in BOOLEAN
    BY <1>1 DEF Submit
  <2>4. CaseIds' = CaseIds
    BY <2>1 DEF CaseIds
  <2>5. (analysis \in AnalysisRec)' /\ (collector \in StoreRec)'
    BY <1>0, <2>1, <2>4 DEF Globals, AnalysisRec, StoreRec
  <2>6. src' \in [Names -> Makers] /\ (results \in [CaseIds -> Verdicts \cup {"none"}])'
    BY <2>1, <2>4, FilesTypes
  <2>7. stage' \in Stages /\ info' \in {"none", "ready", "error"} /\ teacher' \in BOOLEAN
    BY <1>0, <2>1 DEF Globals, Stages
  <2> QED
    BY <1>0, <2>1, <2>2, <2>3, <2>5, <2>6, <2>7 DEF Globals
<1>2. CASE Prepare
  <2>1. /\ UNCHANGED <<problem, att, info, home, analysis, overlap, results, collector, compiled>>
        /\ src' \in Laid(src) /\ stage' = "rules"
    BY <1>2 DEF Prepare, store, hist
  <2>2. teacher' \in BOOLEAN /\ prebuilt' \in BOOLEAN
    BY <1>2 DEF Prepare, Interactive
  <2>3. (src \in [Names -> Makers])' /\ (stage \in Stages)'
    BY <2>1, FilesTypes DEF Stages
  <2> QED
    BY <1>0, <2>1, <2>2, <2>3, GlobalsSame, ResultsSame DEF Globals
<1>3. CASE PrepareFails
  <2>1. /\ UNCHANGED <<problem, att, info, home, analysis, overlap, collector, compiled, src,
                       teacher, prebuilt>>
        /\ FailAll("AE")
    BY <1>3 DEF PrepareFails, store, hist, disk, built
  <2> QED
    BY <1>0, <2>1, GlobalsSame, FailTypes DEF Globals, Stages
<1>4. CASE Analysis
  <2>1. /\ UNCHANGED <<problem, att, info, home, src, teacher, compiled, prebuilt, overlap, collector>>
        /\ (analysis \in AnalysisRec)'
    BY <1>4, AnalysisFrame, AnalysisTypes
  <2>2. (results \in [CaseIds -> Verdicts \cup {"none"}])' /\ (stage \in Stages)'
    BY <1>0, <1>4, <2>1, AnalysisFrame, FailTypes, ResultsSame DEF Stages
  <2>3. (collector \in StoreRec)'
    BY <1>0, <2>1 DEF Globals, StoreRec, CaseIds
  <2> QED
    BY <1>0, <2>1, <2>2, <2>3 DEF Globals
<1>5. CASE StartCases
  <2>1. /\ UNCHANGED <<problem, att, info, home, analysis, overlap, collector, compiled, src,
                       teacher, prebuilt, results>>
        /\ stage' = "cases"
    BY <1>5 DEF StartCases, store, hist, disk, built
  <2> QED
    BY <1>0, <2>1, GlobalsSame, ResultsSame DEF Globals, Stages
<1> QED
  BY <1>1, <1>2, <1>3, <1>4, <1>5

(* So do those of build and compile threads,                               *)
LEMMA ToolGlobals ==
  ASSUME JudgingInv, NEW t \in tools, ToolStep(t)
  PROVE  Globals'
<1>0. Globals /\ "CE" \in Verdicts
  BY DEF JudgingInv, Verdicts
<1>1. UNCHANGED <<problem, att, info, home, analysis, overlap, teacher>>
  BY DEF ToolStep, Build, BuildFails, Compile, ToolDies, CollectAndSend, FinishSend, reg, disk, hist
<1>2. CASE Build(t)
  <2>1. UNCHANGED <<stage, results, compiled, collector>> /\ prebuilt' = TRUE
    BY <1>2 DEF Build, reg, store
  <2>2. src' \in [Names -> Makers]
    BY <1>2, FilesTypes DEF Build
  <2> QED
    BY <1>0, <1>1, <2>1, <2>2, GlobalsSame, ResultsSame DEF Globals
<1>3. CASE BuildFails(t)
  <2>1. UNCHANGED <<compiled, prebuilt, collector>> /\ FailAll("CE")
    BY <1>3 DEF BuildFails, built, store
  <2>2. src' \in [Names -> Makers]
    BY <1>0, <1>3, FilesTypes DEF BuildFails, Globals
  <2> QED
    BY <1>0, <1>1, <2>1, <2>2, GlobalsSame, FailTypes DEF Globals, Stages
<1>4. CASE Compile(t)
  <2>1. UNCHANGED <<stage, results, prebuilt, collector>> /\ compiled' \in {"AC", "CE", "JE"}
    BY <1>4 DEF Compile, reg, store
  <2>2. src' = src \/ src' = [src EXCEPT !.main = "judge"]
    BY <1>4 DEF Compile
  <2>3. src' \in [Names -> Makers]
    BY <1>0, <2>2 DEF Globals, Makers
  <2> QED
    BY <1>0, <1>1, <2>1, <2>3, GlobalsSame, ResultsSame DEF Globals
<1>5. CASE ToolDies(t) \/ CollectAndSend(t) \/ FinishSend(t)
  <2>1. UNCHANGED <<stage, results, prebuilt, compiled, src>>
    BY <1>5 DEF ToolDies, CollectAndSend, FinishSend, reg, disk, built
  <2>2. collector' \in StoreRec
    <3>1. CASE ToolDies(t)
      BY <1>0, <3>1 DEF Globals, ToolDies, store
    <3>2. CASE CollectAndSend(t)
      BY <1>0, <3>2, CollectedOwn DEF Globals, CollectAndSend
    <3>3. CASE FinishSend(t)
      <4>1. collector' = collector \/ collector' = [collector EXCEPT !.sent = TRUE, !.binary = 0]
        BY <3>3 DEF FinishSend, Uploaded
      <4>2. 0 \in 0..MaxAttempts
        BY JudgingAssumption
      <4> QED
        BY <1>0, <4>1, <4>2 DEF Globals, StoreRec
    <3> QED
      BY <1>5, <3>1, <3>2, <3>3
  <2> QED
    BY <1>0, <1>1, <2>1, <2>2, GlobalsSame, ResultsSame DEF Globals
<1> QED
  BY <1>2, <1>3, <1>4, <1>5 DEF ToolStep

(* of case threads,                                                        *)
LEMMA CaseGlobals ==
  ASSUME JudgingInv, NEW t \in cases,
         CaseStep(t) \/ CutTalk(t) \/ Orchestrate(t) \/ Act(t)
  PROVE  Globals'
<1>0. Globals /\ t \in CaseRec
  BY DEF JudgingInv, CasesOK, CaseOK, Position
<1>1. UNCHANGED <<problem, att, info, home, src, teacher, compiled, prebuilt, analysis, overlap>>
  BY CaseFrame
<1>2. (results \in [CaseIds -> Verdicts \cup {"none"}])' /\ (stage \in Stages)'
  <2>1. CASE UNCHANGED <<stage, results>>
    BY <1>0, <1>1, <2>1, ResultsSame DEF Globals
  <2>2. CASE RecordCase(t)
    BY <1>0, <1>1, <2>2 DEF RecordCase, Globals, CaseRec, CaseIds, Stages
  <2> QED
    BY <2>1, <2>2, CaseFrame
<1>3. collector' \in StoreRec
  <2>1. CASE PrepareCase(t)
    BY <1>0, <2>1 DEF PrepareCase, Snapshot, store, Globals, StoreRec, CaseRec
  <2>2. CASE KeepArtifact(t)
    <3>1. CASE collector' = collector
      BY <1>0, <3>1 DEF Globals
    <3>2. CASE \E w \in BOOLEAN : RecordArtifact(t.att, t.id, t.left, w)
      <4>1. PICK x : /\ x \in BOOLEAN
                     /\ collector' = [collector EXCEPT !.arts[t.id] = [att |-> t.att, extra |-> x]]
        BY <1>0, <3>2 DEF RecordArtifact, CaseRec
      <4>2. t.id \in CaseIds /\ t.att \in 0..MaxAttempts
        BY <1>0 DEF CaseRec, Attempts
      <4> QED
        BY <1>0, <4>1, <4>2 DEF Globals, StoreRec
    <3> QED
      BY <2>2, <3>1, <3>2 DEF KeepArtifact, store
  <2> QED
    BY <1>0, <2>1, <2>2, CaseFrame DEF Globals
<1> QED
  BY <1>0, <1>1, <1>2, <1>3, GlobalsSame DEF Globals

(* and of the threads that complete the submission.                        *)
LEMMA CloserGlobals ==
  ASSUME JudgingInv, NEW c \in closing, CloserStep(c)
  PROVE  Globals'
<1>0. Globals
  BY DEF JudgingInv
<1>1. UNCHANGED <<problem, att, analysis>>
  BY DEF CloserStep, Parse, AssertionFails, Score, Report, ReportFails, UploadAll, Forget,
     CleanUp, Closing, reg
<1>2. CASE Parse(c) \/ AssertionFails(c) \/ Score(c)
  <2>1. UNCHANGED <<info, home, overlap, stage, results, src, teacher, prebuilt, compiled, collector>>
    BY <1>2 DEF Parse, AssertionFails, Score, Closing, reg, disk, built, store, hist
  <2> QED
    BY <1>0, <1>1, <2>1, GlobalsSame, ResultsSame DEF Globals
<1>3. CASE Report(c)
  <2>1. UNCHANGED <<info, home, overlap, stage, results, src, teacher, prebuilt, compiled>>
    BY <1>3 DEF Report, Closing, disk, built, hist
  <2>2. collector' \in StoreRec
    BY <1>0, <1>3, CollectedOwn DEF Report, Globals
  <2> QED
    BY <1>0, <1>1, <2>1, <2>2, GlobalsSame, ResultsSame DEF Globals
<1>4. CASE ReportFails(c) \/ UploadAll(c)
  <2>1. UNCHANGED <<info, overlap, stage, results, prebuilt, compiled>>
        /\ home' = 0 /\ src' = NoFiles /\ teacher' = FALSE
    BY <1>4 DEF ReportFails, UploadAll, Closing, built, hist
  <2>2. collector' \in StoreRec
    <3>1. CASE ReportFails(c)
      BY <1>0, <3>1 DEF ReportFails, store, Globals
    <3>2. CASE UploadAll(c)
      <4>1. PICK x \in BOOLEAN : collector' = [collector EXCEPT !.sent = x]
        BY <1>0, <3>2 DEF UploadAll, Globals, StoreRec
      <4> QED
        BY <1>0, <4>1 DEF Globals, StoreRec
    <3> QED
      BY <1>4, <3>1, <3>2
  <2>3. CaseIds' = CaseIds
    BY <1>1 DEF CaseIds
  <2>4. (collector \in StoreRec)' /\ (analysis \in AnalysisRec)'
    BY <1>0, <1>1, <2>2, <2>3 DEF StoreRec, AnalysisRec, Globals
  <2>5. src' \in [Names -> Makers] /\ (results \in [CaseIds -> Verdicts \cup {"none"}])'
    BY <1>1, <2>1, FilesTypes, ResultsSame
  <2> QED
    BY <1>0, <1>1, <2>1, <2>4, <2>5 DEF Globals
<1>5. CASE Forget(c)
  <2>1. UNCHANGED <<info, overlap, home, src, teacher, collector>> /\ stage' = "idle"
        /\ results' = Unjudged /\ compiled' = "none" /\ prebuilt' = FALSE
    BY <1>5 DEF Forget, Closing, disk, store, hist
  <2>2. (results \in [CaseIds -> Verdicts \cup {"none"}])'
    BY <1>1, <2>1, FilesTypes DEF CaseIds
  <2> QED
    BY <1>0, <1>1, <2>1, <2>2, GlobalsSame DEF Globals, Stages
<1>6. CASE CleanUp(c)
  <2>1. UNCHANGED <<stage, results, home, src, teacher, compiled, prebuilt>> /\ info' = "none"
        /\ collector' = NoStore
    BY <1>6 DEF CleanUp, Forgotten, disk, built
  <2>2. overlap' \in BOOLEAN
    BY <1>6 DEF CleanUp
  <2>3. (collector \in StoreRec)' /\ (analysis \in AnalysisRec)'
    BY <1>0, <1>1, <2>1, JudgingAssumption
    DEF StoreRec, NoStore, NoArtifact, AnalysisRec, Globals, CaseIds
  <2>4. (results \in [CaseIds -> Verdicts \cup {"none"}])'
    BY <1>1, <2>1, ResultsSame
  <2> QED
    BY <1>0, <1>1, <2>1, <2>2, <2>3, <2>4 DEF Globals
<1> QED
  BY <1>2, <1>3, <1>4, <1>5, <1>6 DEF CloserStep

-----------------------------------------------------------------------------
(* The stages.                                                              *)

(* A step that leaves the stage alone, and one that fails the submission.   *)
LEMMA FlowSame ==
  ASSUME JudgingInv, UNCHANGED <<problem, att, stage, results, home, src, analysis,
                                 compiled, prebuilt>>
  PROVE  Flow'
BY DEF JudgingInv, Flow, NeedsMake, CaseIds

(* A submission that fails goes to its completion.                         *)
LEMMA FlowFails ==
  ASSUME JudgingInv, UNCHANGED <<problem, att, prebuilt>>, stage # "idle", stage' = "closing",
         home' = 0 => src' = NoFiles, analysis'.pc \notin Analysing
  PROVE  Flow'
BY DEF JudgingInv, Flow, NeedsMake

(* Submission, preparation, analysis and the start of the cases.            *)
LEMMA StageFlow ==
  ASSUME JudgingInv, Submit \/ Prepare \/ PrepareFails \/ Analysis \/ StartCases
  PROVE  Flow'
<1>0. Flow /\ Globals
  BY DEF JudgingInv
<1>1. CASE Submit
  <2>1. /\ UNCHANGED <<problem, analysis, prebuilt, compiled>> /\ stage = "idle"
        /\ att' = att + 1 /\ home' = att + 1 /\ stage' = "prepare" /\ results' = Unjudged
    BY <1>1 DEF Submit, built, Registered
  <2>2. att' \in Attempts /\ home' # 0
    BY <1>0, <1>1, <2>1, JudgingAssumption DEF Submit, Globals, Attempts
  <2>3. \A n \in CaseIds' : results'[n] = "none"
    BY <2>1 DEF Unjudged, CaseIds
  <2> QED
    BY <1>0, <2>1, <2>2, <2>3 DEF Flow, NeedsMake
<1>2. CASE Prepare
  <2>1. /\ UNCHANGED <<problem, att, home, analysis, results, compiled>>
        /\ stage = "prepare" /\ stage' = "rules" /\ prebuilt' = (problem.py /\ ~NeedsMake)
    BY <1>2 DEF Prepare
  <2>2. home # 0 /\ analysis.pc \notin Analysing
    BY <1>0, <2>1 DEF Flow, Attempts
  <2>3. CaseIds' = CaseIds /\ NeedsMake' = NeedsMake
    BY <2>1 DEF CaseIds, NeedsMake
  <2>4. ~problem.py /\ ~NeedsMake => ~prebuilt'
    BY <2>1
  <2> QED
    BY <1>0, <2>1, <2>2, <2>3, <2>4 DEF Flow
<1>3. CASE PrepareFails
  <2>1. UNCHANGED <<problem, att, prebuilt, home, src, analysis>> /\ stage = "prepare"
        /\ stage' = "closing"
    BY <1>3 DEF PrepareFails, FailAll, disk, built
  <2>2. analysis.pc \notin Analysing
    BY <1>0, <2>1 DEF Flow
  <2> QED
    BY <1>0, <2>1, <2>2, FlowFails DEF Flow
<1>4. CASE Analysis
  <2>1. /\ UNCHANGED <<problem, att, home, src, compiled, prebuilt>>
        /\ stage \in {"rules", "analysis"}
        /\ \/ stage' \in {"work", "analysis"} /\ UNCHANGED results
           \/ FailAll("AE")
        /\ analysis'.pc \in Analysing => stage' = "analysis"
    BY <1>4, AnalysisFrame, AnalysisTypes
  <2>2. CASE FailAll("AE")
    <3>1. stage' = "closing"
      BY <2>2 DEF FailAll
    <3> QED
      BY <1>0, <2>1, <3>1, FlowFails DEF Flow
  <2>3. CASE stage' \in {"work", "analysis"} /\ UNCHANGED results
    BY <1>0, <2>1, <2>3 DEF Flow, NeedsMake, CaseIds
  <2> QED
    BY <2>1, <2>2, <2>3
<1>5. CASE StartCases
  <2>1. /\ UNCHANGED <<problem, att, home, src, compiled, prebuilt, analysis>>
        /\ stage = "work" /\ stage' = "cases"
        /\ prebuilt \/ problem.py \/ compiled # "none"
    BY <1>5 DEF StartCases, disk, built
  <2> QED
    BY <1>0, <2>1 DEF Flow, NeedsMake
<1> QED
  BY <1>1, <1>2, <1>3, <1>4, <1>5

(* The build and compile threads.                                           *)
LEMMA ToolFlow ==
  ASSUME JudgingInv, NEW t \in tools, ToolStep(t)
  PROVE  Flow'
<1>0. Flow
  BY DEF JudgingInv
<1>1. t.pc = "work" =>
        /\ stage = "work" /\ home = att /\ home # 0 /\ analysis.pc \notin Analysing
        /\ t.job = "build" => NeedsMake
  BY DEF JudgingInv, ToolsOK, ToolOK, Flow, Attempts
<1>2. CASE Build(t)
  <2>1. UNCHANGED <<problem, att, stage, results, home, analysis, compiled>> /\ t.pc = "work"
        /\ t.job = "build"
    BY <1>2 DEF Build, reg
  <2> QED
    BY <1>0, <1>1, <2>1 DEF Flow, NeedsMake, CaseIds
<1>3. CASE BuildFails(t)
  <2>1. UNCHANGED <<problem, att, prebuilt, home, analysis>> /\ t.pc = "work"
        /\ stage' = "closing"
    BY <1>3 DEF BuildFails, FailAll, built
  <2> QED
    BY <1>1, <2>1, FlowFails
<1>4. CASE Compile(t)
  <2>1. UNCHANGED <<problem, att, stage, results, home, analysis, prebuilt>> /\ t.pc = "work"
    BY <1>4 DEF Compile, reg
  <2> QED
    BY <1>0, <1>1, <2>1 DEF Flow, NeedsMake, CaseIds
<1>5. CASE ToolDies(t) \/ CollectAndSend(t) \/ FinishSend(t)
  <2>1. UNCHANGED <<problem, att, stage, results, home, src, analysis, compiled, prebuilt>>
    BY <1>5 DEF ToolDies, CollectAndSend, FinishSend, reg, disk, built
  <2> QED
    BY <2>1, FlowSame
<1> QED
  BY <1>2, <1>3, <1>4, <1>5 DEF ToolStep

(* The case threads.                                                        *)
LEMMA CaseFlow ==
  ASSUME JudgingInv, NEW t \in cases,
         CaseStep(t) \/ CutTalk(t) \/ Orchestrate(t) \/ Act(t)
  PROVE  Flow'
<1>1. UNCHANGED <<problem, att, home, src, analysis, compiled, prebuilt>>
  BY CaseFrame
<1>2. CASE RecordCase(t)
  <2>1. stage = "cases" /\ stage' \in {"cases", "closing"}
    BY <1>2 DEF RecordCase, JudgingInv, CasesOK, CaseOK, Position, Early
  <2> QED
    BY <1>1, <2>1 DEF JudgingInv, Flow, NeedsMake
<1>3. CASE UNCHANGED <<stage, results>>
  BY <1>1, <1>3, FlowSame
<1> QED
  BY <1>2, <1>3, CaseFrame

(* The threads that complete the submission.                                *)
LEMMA CloserFlow ==
  ASSUME JudgingInv, NEW c \in closing, CloserStep(c)
  PROVE  Flow'
<1>0. Flow /\ CloserOK(c)
  BY DEF JudgingInv, ClosersOK
<1>1. CASE Parse(c) \/ AssertionFails(c) \/ Score(c) \/ Report(c) \/ CleanUp(c)
  <2>1. UNCHANGED <<problem, att, stage, results, home, src, analysis, compiled, prebuilt>>
    BY <1>1 DEF Parse, AssertionFails, Score, Report, CleanUp, Closing, reg, disk, built
  <2> QED
    BY <2>1, FlowSame
<1>2. CASE ReportFails(c) \/ UploadAll(c)
  <2>1. UNCHANGED <<problem, att, stage, results, analysis, compiled, prebuilt>>
        /\ home' = 0 /\ src' = NoFiles /\ stage = "closing"
    BY <1>0, <1>2 DEF ReportFails, UploadAll, Closing, built, CloserOK
  <2> QED
    BY <1>0, <2>1 DEF Flow, NeedsMake
<1>3. CASE Forget(c)
  <2>1. UNCHANGED <<problem, att, home, src, analysis>> /\ stage = "closing"
        /\ stage' = "idle" /\ compiled' = "none" /\ prebuilt' = FALSE
    BY <1>0, <1>3 DEF Forget, Closing, disk, CloserOK
  <2> QED
    BY <1>0, <2>1 DEF Flow
<1> QED
  BY <1>1, <1>2, <1>3 DEF CloserStep

-----------------------------------------------------------------------------
(* Threads that complete the submission.                                    *)

LEMMA CloserSame ==
  ASSUME JudgingInv, NEW c \in closing, att' = att,
         stage' = stage \/ stage \notin {"idle", "closing"},
         ~overlap' => ~overlap, uploads \subseteq uploads'
  PROVE  CloserOK(c)'
<1>1. CloserOK(c)
  BY DEF JudgingInv, ClosersOK
<1> QED
  BY <1>1 DEF CloserOK

(* A step that begins no completion and goes on with none.                 *)
LEMMA ClosersSame ==
  ASSUME JudgingInv, closing' \subseteq closing, att' = att,
         stage' = stage \/ stage \notin {"idle", "closing"},
         ~overlap' => ~overlap, uploads \subseteq uploads'
  PROVE  ClosersOK'
BY CloserSame DEF JudgingInv, ClosersOK

(* One that begins finds only such as have released the id.                 *)
LEMMA CloserBegins ==
  ASSUME JudgingInv, closing' = closing \cup {Closer(att)}, att' = att,
         stage \notin {"idle", "closing"}, stage' = "closing",
         ~overlap' => ~overlap, uploads \subseteq uploads'
  PROVE  ClosersOK'
<1>1. \A c \in closing : CloserOK(c)' /\ c.pc = "cleanup"
  BY CloserSame DEF JudgingInv, ClosersOK, CloserOK
<1>2. att \in Attempts
  BY DEF JudgingInv, Flow
<1>3. PICK d : d = Closer(att)
  OBVIOUS
<1>4. d \in CloserRec /\ d.att = att /\ d.pc = "parse" /\ d.data = 0
  BY <1>2, <1>3, JudgingAssumption DEF Closer, CloserRec
<1>5. CloserOK(d)'
  BY <1>2, <1>4 DEF CloserOK, Attempts
<1> QED
  BY <1>1, <1>3, <1>5 DEF ClosersOK

(* A completion goes on.                                                   *)
LEMMA CloserMoves ==
  ASSUME JudgingInv, NEW c \in closing, NEW d, Step(c, d), CloserOK(d)',
         \A b \in closing \ {c} : CloserOK(b)',
         d.pc # "cleanup" => c.pc # "cleanup"
  PROVE  ClosersOK'
BY DEF JudgingInv, ClosersOK, Step

(* Failing in the dispatcher begins one; a new submission finds only       *)
(* released ones.                                                          *)
LEMMA StageClosers ==
  ASSUME JudgingInv, Submit \/ Prepare \/ PrepareFails \/ Analysis \/ StartCases
  PROVE  ClosersOK'
<1>1. CASE Submit
  <2>1. stage = "idle" /\ att' = att + 1 /\ closing' = closing /\ uploads' = uploads
        /\ att \in Nat
    BY <1>1, JudgingAssumption DEF Submit, Registered, store, JudgingInv, Globals
  <2>2. ~overlap' => closing = {}
    BY <1>1 DEF Submit
  <2>3. ASSUME NEW c \in closing PROVE CloserOK(c)' /\ c.pc = "cleanup"
    <3>1. CloserOK(c) /\ c.pc = "cleanup" /\ c.att \in Nat
      BY <2>1 DEF JudgingInv, ClosersOK, CloserOK, CloserRec, Attempts
    <3>2. c.att <= att' /\ c.att # att'
      BY <2>1, <3>1 DEF CloserOK
    <3> QED
      BY <2>2, <3>1, <3>2 DEF CloserOK
  <2> QED
    BY <2>1, <2>3 DEF ClosersOK
<1>2. CASE Prepare \/ StartCases
  <2>1. stage \in {"prepare", "work"} /\ UNCHANGED <<att, closing, overlap, uploads>>
    BY <1>2 DEF Prepare, StartCases, store, hist
  <2> QED
    BY <2>1, ClosersSame
<1>3. CASE PrepareFails
  <2>1. stage = "prepare" /\ UNCHANGED <<att, overlap, uploads>> /\ FailAll("AE")
    BY <1>3 DEF PrepareFails, store, hist
  <2> QED
    BY <2>1, CloserBegins DEF FailAll
<1>4. CASE Analysis
  <2>1. stage \in {"rules", "analysis"} /\ att' = att /\ uploads' = uploads
    BY <1>4, AnalysisFrame
  <2>4. overlap' = overlap
    BY <1>4, AnalysisFrame
  <2>5. ~overlap' => ~overlap
    BY <2>4
  <2>2. CASE closing' = closing
    BY <2>1, <2>2, <2>5, ClosersSame
  <2>3. CASE FailAll("AE")
    BY <2>1, <2>3, <2>5, CloserBegins DEF FailAll
  <2> QED
    BY <1>4, <2>2, <2>3, AnalysisFrame
<1> QED
  BY <1>1, <1>2, <1>3, <1>4

(* A failed build begins one.                                              *)
LEMMA ToolClosers ==
  ASSUME JudgingInv, NEW t \in tools, ToolStep(t)
  PROVE  ClosersOK'
<1>1. CASE BuildFails(t)
  <2>1. UNCHANGED <<att, overlap, uploads>> /\ FailAll("CE") /\ t.pc = "work"
    BY <1>1 DEF BuildFails, store, hist
  <2>2. stage = "work"
    BY <2>1, OneAtWork
  <2> QED
    BY <2>1, <2>2, CloserBegins DEF FailAll
<1>2. CASE Build(t) \/ Compile(t) \/ ToolDies(t) \/ CollectAndSend(t) \/ FinishSend(t)
  <2>1. UNCHANGED <<att, stage, overlap, closing>> /\ uploads \subseteq uploads'
    BY <1>2 DEF Build, Compile, ToolDies, CollectAndSend, FinishSend, store, hist, reg
  <2> QED
    BY <2>1, ClosersSame
<1> QED
  BY <1>1, <1>2 DEF ToolStep

(* The last case begins one.                                               *)
LEMMA CaseClosers ==
  ASSUME JudgingInv, NEW t \in cases,
         CaseStep(t) \/ CutTalk(t) \/ Orchestrate(t) \/ Act(t)
  PROVE  ClosersOK'
<1>1. UNCHANGED <<att, overlap, uploads>>
  BY CaseFrame
<1>2. CASE RecordCase(t)
  <2>1. stage = "cases"
    BY <1>2 DEF RecordCase, JudgingInv, CasesOK, CaseOK, Position, Early
  <2>2. CASE closing' = closing
    BY <1>1, <2>1, <2>2, ClosersSame
  <2>3. CASE closing' = closing \cup {Closer(att)} /\ stage' = "closing"
    BY <1>1, <2>1, <2>3, CloserBegins
  <2> QED
    BY <1>2, <2>2, <2>3 DEF RecordCase
<1>3. CASE UNCHANGED <<stage, results, closing>>
  BY <1>1, <1>3, ClosersSame
<1> QED
  BY <1>2, <1>3, CaseFrame

(* Each step of a completion; the program is uploaded by then or now.      *)
LEMMA CloserClosers ==
  ASSUME JudgingInv, NEW c \in closing, CloserStep(c)
  PROVE  ClosersOK'
<1>0. CloserOK(c) /\ c \in CloserRec /\ att' = att
  BY DEF JudgingInv, ClosersOK, CloserOK, CloserStep, Parse, AssertionFails, Score, Report,
     ReportFails, UploadAll, Forget, CleanUp, Closing, reg
<1>1. CASE AssertionFails(c) \/ CleanUp(c)
  <2>1. UNCHANGED <<stage, uploads>> /\ closing' \subseteq closing
    BY <1>1 DEF AssertionFails, CleanUp, reg, store
  <2> QED
    BY <1>0, <2>1, CloserLate, ClosersSame
<1>2. CASE Parse(c) \/ Score(c)
  <2>1. UNCHANGED <<stage, uploads, overlap>> /\ c.pc \in {"parse", "score"}
    BY <1>2 DEF Parse, Score, Closing, store, hist
  <2>2. PICK p : p \in {"score", "put"} /\ Step(c, [c EXCEPT !.pc = p])
    BY <1>2 DEF Parse, Score
  <2>3. PICK d : d = [c EXCEPT !.pc = p]
    OBVIOUS
  <2>4. d \in CloserRec /\ d.pc = p /\ d.att = c.att /\ d.data = c.data
    BY <1>0, <2>2, <2>3 DEF CloserRec
  <2>5. CloserOK(d)'
    BY <1>0, <2>1, <2>2, <2>4 DEF CloserOK
  <2>6. \A b \in closing \ {c} : CloserOK(b)'
    BY <1>0, <2>1, CloserSame
  <2>7. Step(c, d) /\ d.pc # "cleanup" /\ c.pc # "cleanup"
    BY <2>1, <2>2, <2>3, <2>4
  <2> QED
    BY <2>5, <2>6, <2>7, CloserMoves
<1>3. CASE Report(c)
  <2>1. UNCHANGED <<stage, uploads, overlap>> /\ c.pc = "put"
    BY <1>3 DEF Report, Closing, hist
  <2>2. PICK x : /\ Step(c, [c EXCEPT !.pc = "upload", !.data = x])
                 /\ x = Collected.binary \/ x = collector.binary
    BY <1>3 DEF Report
  <2>3. x \in 0..MaxAttempts /\ (~overlap => x \in {0, att})
    BY <2>2, CollectedOwn DEF JudgingInv, StoreOK, StoreRec, Globals
  <2>4. PICK d : d = [c EXCEPT !.pc = "upload", !.data = x]
    OBVIOUS
  <2>5. d \in CloserRec /\ d.pc = "upload" /\ d.att = c.att /\ d.data = x
    BY <1>0, <2>3, <2>4 DEF CloserRec
  <2>6. CloserOK(d)'
    BY <1>0, <2>1, <2>3, <2>5 DEF CloserOK
  <2>7. \A b \in closing \ {c} : CloserOK(b)'
    BY <1>0, <2>1, CloserSame
  <2>8. Step(c, d) /\ d.pc # "cleanup" /\ c.pc # "cleanup"
    BY <2>1, <2>2, <2>4, <2>5
  <2> QED
    BY <2>6, <2>7, <2>8, CloserMoves
<1>4. CASE ReportFails(c)
  <2>1. UNCHANGED <<stage, uploads, overlap>> /\ c.pc = "put"
        /\ Step(c, [c EXCEPT !.pc = "forget"])
    BY <1>4 DEF ReportFails, Closing, hist, store
  <2>2. PICK d : d = [c EXCEPT !.pc = "forget"]
    OBVIOUS
  <2>3. d \in CloserRec /\ d.pc = "forget" /\ d.att = c.att /\ d.data = c.data
    BY <1>0, <2>2 DEF CloserRec
  <2>4. CloserOK(d)'
    BY <1>0, <2>1, <2>3 DEF CloserOK
  <2>5. \A b \in closing \ {c} : CloserOK(b)'
    BY <1>0, <2>1, CloserSame
  <2>6. Step(c, d) /\ d.pc # "cleanup" /\ c.pc # "cleanup"
    BY <2>1, <2>2, <2>3
  <2> QED
    BY <2>4, <2>5, <2>6, CloserMoves
<1>5. CASE UploadAll(c)
  <2>1. UNCHANGED <<stage, overlap>> /\ c.pc = "upload" /\ uploads \subseteq uploads'
    BY <1>5 DEF UploadAll, Closing, hist
  <2>2. PICK sent : /\ uploads' = uploads \cup sent
                    /\ Step(c, [c EXCEPT !.pc = "forget",
                                         !.over = ~(BinaryUploads(c.att, c.data) \subseteq sent)])
    BY <1>5 DEF UploadAll
  <2>3. PICK x \in BOOLEAN : x <=> ~(BinaryUploads(c.att, c.data) \subseteq sent)
    OBVIOUS
  <2>4. PICK d : d = [c EXCEPT !.pc = "forget", !.over = x]
    OBVIOUS
  <2>5. d \in CloserRec /\ d.pc = "forget" /\ d.att = c.att /\ d.data = c.data /\ d.over = x
    BY <1>0, <2>3, <2>4 DEF CloserRec
  <2>6. ~overlap /\ ~x /\ c.data # 0 => \E u \in uploads' : u.kind = "binary" /\ u.by = att
    <3>1. SUFFICES ASSUME ~overlap, ~x, c.data # 0
                   PROVE  \E u \in uploads' : u.kind = "binary" /\ u.by = att
      OBVIOUS
    <3>2. c.att = att
      BY <1>0, <3>1 DEF CloserOK
    <3>3. CASE collector.sent
      BY <2>1, <3>1, <3>3 DEF JudgingInv, StoreOK
    <3>4. CASE ~collector.sent
      <4>1. Upload("binary", c.data, c.att) \in uploads'
        BY <2>2, <2>3, <3>1, <3>4 DEF BinaryUploads
      <4> QED
        BY <3>2, <4>1 DEF Upload
    <3> QED
      BY <3>3, <3>4
  <2>7. CloserOK(d)'
    BY <1>0, <2>1, <2>5, <2>6 DEF CloserOK
  <2>8. \A b \in closing \ {c} : CloserOK(b)'
    BY <1>0, <2>1, CloserSame
  <2>9. Step(c, d)
    <3>1. x = ~(BinaryUploads(c.att, c.data) \subseteq sent)
      BY <2>3
    <3> QED
      BY <2>2, <2>4, <3>1
  <2> QED
    BY <2>1, <2>5, <2>7, <2>8, <2>9, CloserMoves
<1>6. CASE Forget(c)
  <2>1. UNCHANGED <<uploads, overlap>> /\ c.pc = "forget" /\ stage' = "idle"
        /\ Step(c, [c EXCEPT !.pc = "cleanup"])
    BY <1>6 DEF Forget, Closing, hist, store
  <2>2. PICK d : d = [c EXCEPT !.pc = "cleanup"]
    OBVIOUS
  <2>3. d \in CloserRec /\ d.pc = "cleanup" /\ d.att = c.att /\ d.data = c.data
    BY <1>0, <2>2 DEF CloserRec
  <2>4. CloserOK(d)'
    BY <1>0, <2>1, <2>3 DEF CloserOK
  <2>5. \A b \in closing \ {c} : CloserOK(b) /\ b.pc = "cleanup"
    BY <2>1 DEF JudgingInv, ClosersOK
  <2>6. \A b \in closing \ {c} : CloserOK(b)'
    BY <1>0, <2>1, <2>5 DEF CloserOK
  <2>7. Step(c, d)
    BY <2>1, <2>2
  <2> QED
    BY <2>1, <2>3, <2>4, <2>6, <2>7, CloserMoves
<1> QED
  BY <1>1, <1>2, <1>3, <1>4, <1>5, <1>6 DEF CloserStep

-----------------------------------------------------------------------------
(* The collector.                                                           *)

LEMMA StoreSame ==
  ASSUME JudgingInv, UNCHANGED <<problem, att, collector, uploads>>, ~overlap' => ~overlap,
         stage' # "idle" \/ closing' # {}
           \/ (UNCHANGED <<stage, closing>> /\ tools' \subseteq tools)
  PROVE  StoreOK'
<1>1. CaseIds' = CaseIds
  BY DEF CaseIds
<1> QED
  BY <1>1 DEF JudgingInv, StoreOK, NoStore

(* The dispatcher does not touch the collector.                            *)
LEMMA StageStore ==
  ASSUME JudgingInv, Submit \/ Prepare \/ PrepareFails \/ Analysis \/ StartCases
  PROVE  StoreOK'
<1>1. CASE Submit
  <2>1. stage = "idle" /\ UNCHANGED <<problem, collector, uploads>> /\ stage' = "prepare"
    BY <1>1 DEF Submit, Registered, store
  <2>2. ~overlap' => ~overlap /\ closing = {}
    BY <1>1 DEF Submit
  <2>3. CaseIds' = CaseIds
    BY <2>1 DEF CaseIds
  <2>4. ~overlap' => /\ collector = NoStore
                     /\ \A u \in uploads : u.kind # "resource" /\ u.of = u.by
    BY <2>1, <2>2 DEF JudgingInv, StoreOK
  <2> QED
    BY <2>1, <2>3, <2>4 DEF StoreOK, NoStore, NoArtifact
<1>2. CASE Prepare \/ PrepareFails \/ StartCases
  <2>1. UNCHANGED <<problem, att, collector, uploads, overlap>> /\ stage' # "idle"
    BY <1>2 DEF Prepare, PrepareFails, StartCases, FailAll, store, hist
  <2> QED
    BY <2>1, StoreSame
<1>3. CASE Analysis
  <2>1. UNCHANGED <<problem, att, collector, uploads, overlap>>
    BY <1>3, AnalysisFrame
  <2>2. stage' # "idle"
    BY <1>3, AnalysisFrame DEF FailAll
  <2> QED
    BY <2>1, <2>2, StoreSame
<1> QED
  BY <1>1, <1>2, <1>3

(* Build and compile threads collect and send the program of their         *)
(* attempt.                                                                *)
LEMMA ToolStore ==
  ASSUME JudgingInv, NEW t \in tools, ToolStep(t)
  PROVE  StoreOK'
<1>1. ToolOK(t) /\ StoreOK
  BY DEF JudgingInv, ToolsOK
<1>2. CASE Build(t) \/ BuildFails(t) \/ Compile(t) \/ ToolDies(t)
  <2>1. UNCHANGED <<problem, att, collector, uploads, overlap>> /\ t.pc = "work"
    BY <1>2 DEF Build, BuildFails, Compile, ToolDies, reg, store, hist
  <2>2. stage = "work" /\ stage' \in {"work", "closing"}
    BY <1>1, <1>2, <2>1 DEF ToolOK, Build, BuildFails, Compile, ToolDies, FailAll, reg
  <2> QED
    BY <2>1, <2>2, StoreSame
<1>3. CASE CollectAndSend(t) \/ FinishSend(t)
  <2>1. UNCHANGED <<problem, att, stage, closing, overlap>>
    BY <1>3 DEF CollectAndSend, FinishSend, reg, hist
  <2>2. CaseIds' = CaseIds
    BY <2>1 DEF CaseIds
  <2>3. ~overlap => ~(stage = "idle" /\ closing = {})
    BY <1>1 DEF StoreOK
  <2>4. CASE UNCHANGED <<collector, uploads>>
    BY <1>1, <2>1, <2>2, <2>3, <2>4 DEF StoreOK
  <2>5. CASE collector' = Collected /\ uploads' = uploads
    BY <1>1, <2>1, <2>2, <2>3, <2>5, CollectedOwn DEF StoreOK
  <2>6. CASE /\ collector' = [collector EXCEPT !.sent = TRUE, !.binary = 0]
             /\ uploads' = uploads \cup {Upload("binary", t.data, t.att)} /\ t.pc = "send"
    <3>1. PICK u : u = Upload("binary", t.data, t.att)
      OBVIOUS
    <3>2. u.kind = "binary" /\ u.of = t.data /\ u.by = t.att
      BY <3>1 DEF Upload
    <3>3. ~overlap => u.by = att /\ u.of = u.by
      BY <1>1, <2>6, <3>2 DEF ToolOK
    <3>4. u \in uploads' /\ \A v \in uploads' : v \in uploads \/ v = u
      BY <2>6, <3>1
    <3>5. collector'.binary = 0 /\ collector'.arts = collector.arts
      BY <2>6 DEF JudgingInv, Globals, StoreRec
    <3> QED
      BY <1>1, <2>1, <2>2, <2>3, <3>2, <3>3, <3>4, <3>5 DEF StoreOK
  <2> QED
    BY <1>3, <2>4, <2>5, <2>6 DEF CollectAndSend, FinishSend, Uploaded
<1> QED
  BY <1>2, <1>3 DEF ToolStep

(* A case thread snapshots and records its own artifact, without resource  *)
(* files.                                                                  *)
LEMMA CaseStore ==
  ASSUME JudgingInv, NEW t \in cases,
         CaseStep(t) \/ CutTalk(t) \/ Orchestrate(t) \/ Act(t)
  PROVE  StoreOK'
<1>1. UNCHANGED <<problem, att, tools, uploads, overlap>>
  BY CaseFrame
<1>2. CaseOK(t) /\ StoreOK /\ collector \in StoreRec
  BY DEF JudgingInv, CasesOK, Globals
<1>3. CaseIds' = CaseIds
  BY <1>1 DEF CaseIds
<1>4. CASE RecordCase(t)
  <2>1. stage' \in {"cases", "closing"} /\ collector' = collector
    BY <1>2, <1>4 DEF RecordCase, CaseOK, Position, Early, store
  <2> QED
    BY <1>1, <2>1, StoreSame
<1>5. CASE PrepareCase(t)
  <2>1. stage = "cases" /\ stage' = stage
    BY <1>2, <1>5 DEF PrepareCase, CaseOK, Position, Early
  <2>2. collector'.binary = collector.binary /\ collector'.arts = collector.arts
        /\ collector'.sent = collector.sent
    BY <1>2, <1>5 DEF PrepareCase, Snapshot, StoreRec, store
  <2> QED
    BY <1>1, <1>2, <1>3, <2>1, <2>2 DEF StoreOK
<1>6. CASE KeepArtifact(t)
  <2>1. stage = "cases" /\ stage' = stage /\ t.pc = "keep" /\ t.att = att /\ t.id \in CaseIds
    BY <1>2, <1>6 DEF KeepArtifact, CaseOK, Position, Early, CaseRec
  <2>2. CASE collector' = collector
    BY <1>1, <2>1, <2>2, StoreSame
  <2>3. CASE \E w \in BOOLEAN : (t.ran = "none" => ~w) /\ RecordArtifact(t.att, t.id, t.left, w)
    <3>1. PICK w \in BOOLEAN : (t.ran = "none" => ~w) /\ RecordArtifact(t.att, t.id, t.left, w)
      BY <2>3
    <3>2. PICK x \in BOOLEAN : x <=> t.left /\ (w \/ t.id \notin collector.snaps)
      OBVIOUS
    <3>3. x = (t.left /\ (w \/ t.id \notin collector.snaps))
      BY <3>2
    <3>4. collector' = [collector EXCEPT !.arts[t.id] = [att |-> t.att, extra |-> x]]
      BY <3>1, <3>3 DEF RecordArtifact
    <3>5. ~overlap => ~x
      BY <1>2, <2>1, <3>1, <3>2 DEF CaseOK, Support, Early
    <3>6. /\ collector'.binary = collector.binary /\ collector'.sent = collector.sent
          /\ \A n \in CaseIds : collector'.arts[n] = IF n = t.id THEN [att |-> t.att, extra |-> x]
                                                                 ELSE collector.arts[n]
      BY <1>2, <2>1, <3>4 DEF StoreRec
    <3>7. ~overlap => \A n \in CaseIds : collector'.arts[n].att \in {0, att} /\ ~collector'.arts[n].extra
      BY <1>2, <2>1, <3>5, <3>6 DEF StoreOK
    <3> QED
      BY <1>1, <1>2, <1>3, <2>1, <3>6, <3>7 DEF StoreOK
  <2> QED
    BY <1>6, <2>2, <2>3 DEF KeepArtifact, store
<1>7. CASE UNCHANGED <<stage, closing, collector>>
  BY <1>1, <1>7, StoreSame
<1> QED
  BY <1>4, <1>5, <1>6, <1>7, CaseFrame

(* The completion sends what is there and drops it.                        *)
LEMMA CloserStore ==
  ASSUME JudgingInv, NEW c \in closing, CloserStep(c)
  PROVE  StoreOK'
<1>0. CloserOK(c) /\ StoreOK /\ collector \in StoreRec /\ UNCHANGED <<problem, att>>
  BY DEF JudgingInv, ClosersOK, Globals, CloserStep, Parse, AssertionFails, Score, Report,
     ReportFails, UploadAll, Forget, CleanUp, Closing, reg
<1>1. CaseIds' = CaseIds
  BY <1>0 DEF CaseIds
<1>2. CASE Parse(c) \/ AssertionFails(c) \/ Score(c) \/ ReportFails(c)
  <2>1. UNCHANGED <<stage, collector, uploads, overlap>> /\ stage = "closing"
    BY <1>0, <1>2 DEF Parse, AssertionFails, Score, ReportFails, Closing, reg, store, hist, CloserOK
  <2> QED
    BY <1>0, <2>1, StoreSame
<1>3. CASE Report(c)
  <2>1. UNCHANGED <<stage, uploads, overlap>> /\ stage = "closing"
    BY <1>0, <1>3 DEF Report, Closing, hist, CloserOK
  <2>2. collector' = collector \/ collector' = Collected
    BY <1>3 DEF Report
  <2> QED
    BY <1>0, <1>1, <2>1, <2>2, CollectedOwn DEF StoreOK
<1>4. CASE UploadAll(c)
  <2>1. UNCHANGED <<stage, overlap>> /\ stage = "closing" /\ c.att = att
    BY <1>0, <1>4 DEF UploadAll, Closing, hist, CloserOK
  <2>2. PICK sent : /\ sent \subseteq CaseUploads(c.att) \cup BinaryUploads(c.att, c.data)
                    /\ uploads' = uploads \cup sent
                    /\ collector' = [collector EXCEPT !.sent =
                         @ \/ sent \cap BinaryUploads(c.att, c.data) # {}]
    BY <1>4 DEF UploadAll
  <2>3. \A u \in BinaryUploads(c.att, c.data) : u.kind = "binary" /\ u.by = att /\ u.of = c.data
                                                 /\ c.data # 0
    BY <2>1 DEF BinaryUploads, Upload
  <2>4. ~overlap => \A u \in CaseUploads(c.att) : u.kind # "resource" /\ u.of = u.by
    BY <1>0, <2>1 DEF CaseUploads, Upload, StoreOK
  <2>5. ~overlap => c.data \in {0, att}
    BY <1>0 DEF CloserOK
  <2>6. ~overlap => \A u \in sent : u.kind # "resource" /\ u.of = u.by
    BY <2>2, <2>3, <2>4, <2>5
  <2>7. PICK x \in BOOLEAN : x <=> collector.sent \/ sent \cap BinaryUploads(c.att, c.data) # {}
    OBVIOUS
  <2>8. collector' = [collector EXCEPT !.sent = x]
    <3>1. x = (collector.sent \/ sent \cap BinaryUploads(c.att, c.data) # {})
      BY <2>7
    <3> QED
      BY <2>2, <3>1
  <2>9. collector'.binary = collector.binary /\ collector'.arts = collector.arts
        /\ collector'.sent = x
    BY <1>0, <2>8 DEF StoreRec
  <2>10. ~overlap /\ x => \E u \in uploads' : u.kind = "binary" /\ u.by = att
    BY <1>0, <2>2, <2>3, <2>7 DEF StoreOK
  <2> QED
    BY <1>0, <1>1, <2>1, <2>2, <2>6, <2>9, <2>10 DEF StoreOK
<1>5. CASE Forget(c)
  <2>1. UNCHANGED <<collector, uploads, overlap>> /\ closing' # {}
    BY <1>5 DEF Forget, Step, Closing, hist, store
  <2> QED
    BY <1>0, <2>1, StoreSame
<1>6. CASE CleanUp(c)
  <2>1. collector' = NoStore /\ uploads' = uploads /\ tools' = tools
    BY <1>6 DEF CleanUp, Forgotten
  <2>2. ~overlap' => ~overlap /\ tools = {}
    BY <1>6 DEF CleanUp
  <2>3. NoStore' = NoStore
    BY <1>1 DEF NoStore, NoArtifact
  <2> QED
    BY <1>0, <1>1, <2>1, <2>2, <2>3 DEF StoreOK, NoStore, NoArtifact
<1> QED
  BY <1>2, <1>3, <1>4, <1>5, <1>6 DEF CloserStep

-----------------------------------------------------------------------------
(* The files and their analysis.                                            *)

LEMMA SourcesSame ==
  ASSUME JudgingInv, UNCHANGED <<problem, src, analysis>>,
         stage' = stage \/ stage' \in {"idle", "closing"} \/ (stage = "work" /\ stage' = "cases")
  PROVE  SourcesOK'
<1>1. OwnSources' = OwnSources /\ Target' = Target
  BY DEF OwnSources, Target
<1> QED
  BY <1>1 DEF JudgingInv, SourcesOK

(* Nothing is analysed of a submission that is over.                        *)
LEMMA SourcesOver ==
  ASSUME JudgingInv, problem' = problem, stage' \in {"idle", "closing"},
         \A f \in Sources : src'[f] \in {src[f], "none"}
  PROVE  SourcesOK'
BY DEF JudgingInv, SourcesOK

(* What a build changes of the sources: main.py, when there is no ZIP.      *)
LEMMA BuildSources ==
  ASSUME JudgingInv, NEW t \in tools, t.job = "build", t.pc = "work", NEW f \in MakeResults(src),
         NEW g \in {f, Finalized(f)}
  PROVE  /\ \A n \in Sources : g[n] \in {src[n], "judge"}
         /\ problem.zip => \A n \in Sources : g[n] = src[n]
         /\ g.makefile = src.makefile
<1>1. NeedsMake /\ src \in [Names -> Makers]
  BY DEF JudgingInv, Globals, ToolsOK, ToolOK
<1>2. problem.zip => ~problem.py
  BY <1>1, AProblem DEF NeedsMake, JudgingInv
<1>3. PICK made : /\ made \subseteq {"aout", "main"} \cup (IF problem.py THEN {"entry"} ELSE {})
                  /\ f = [n \in Names |-> IF n \in made THEN "judge" ELSE src[n]]
  BY DEF MakeResults
<1>4. /\ \A n \in Sources : f[n] \in {src[n], "judge"}
      /\ problem.zip => \A n \in Sources : f[n] = src[n]
      /\ f.makefile = src.makefile /\ DOMAIN f = Names
  BY <1>1, <1>2, <1>3 DEF Sources, Names
<1>5. CASE g = f
  BY <1>4, <1>5
<1>6. CASE g = [f EXCEPT !.main = f.aout, !.aout = "none"]
  <2>1. \A n \in Names \ {"main", "aout"} : g[n] = f[n]
    BY <1>4, <1>6
  <2> QED
    BY <1>4, <2>1 DEF Sources, Names
<1> QED
  BY <1>5, <1>6 DEF Finalized

(* What the analysis chooses has the student's sources among it.           *)
LEMMA ChosenSources ==
  ASSUME JudgingInv, ChooseSources, analysis'.pc = "visit"
  PROVE  IF problem.zip /\ src.makefile # "none"
           THEN analysis'.files \cap OwnSources # {} ELSE OwnSources \subseteq analysis'.files
<1>1. analysis \in AnalysisRec /\ SourcesOK /\ stage = "analysis"
  BY DEF JudgingInv, Globals, Flow, Analysing, ChooseSources
<1>2. ~Fail({})
  BY DEF Fail, AnalysisDone, NoAnalysis
<1>3. CASE problem.zip
  <2>1. PICK files \in ZipSources : files # {} /\ analysis'.files = files
    BY <1>1, <1>2, <1>3 DEF ChooseSources, AnalysisRec
  <2>2. Present(Sources) = OwnSources
    BY <1>1, <1>3 DEF SourcesOK, Present, OwnSources
  <2> QED
    BY <1>3, <2>1, <2>2 DEF ZipSources
<1>4. CASE ~problem.zip
  <2>1. analysis'.files = {Target}
    BY <1>1, <1>4 DEF ChooseSources, AnalysisRec
  <2> QED
    BY <1>1, <1>4, <2>1 DEF SourcesOK
<1> QED
  BY <1>3, <1>4

(* The strategy lays out the files, the analysis chooses and passes them.  *)
LEMMA StageSources ==
  ASSUME JudgingInv, Submit \/ Prepare \/ PrepareFails \/ Analysis \/ StartCases
  PROVE  SourcesOK'
<1>0. Globals /\ Flow /\ SourcesOK
  BY DEF JudgingInv
<1>1. CASE Submit
  <2>1. problem' = problem /\ stage' = "prepare" /\ src' \in Arrivals
    BY <1>1 DEF Submit
  <2>2. problem.zip => \E names : src' = Files(names, "student")
    BY <2>1 DEF Arrivals
  <2>3. problem.zip => \A f \in Sources : src'[f] \in {"none", "student"}
    BY <2>2 DEF Files, Sources, Names
  <2>4. ~problem.zip => src' = Files({"entry"}, "student")
    BY <2>1 DEF Arrivals
  <2>5. Files({"entry"}, "student")' = Files({"entry"}, "student")
    BY DEF Files
  <2> QED
    BY <2>1, <2>3, <2>4, <2>5 DEF SourcesOK
<1>2. CASE Prepare
  <2>1. problem' = problem /\ stage = "prepare" /\ stage' = "rules" /\ src' \in Laid(src)
    BY <1>2 DEF Prepare
  <2>2. CASE problem.strategy = "functionOnly"
    <3>1. ~problem.zip /\ src = Files({"entry"}, "student")
      BY <1>0, <2>1, <2>2, AProblem DEF SourcesOK
    <3>2. PICK names : src' = [Files(names, "staff") EXCEPT !.impl = src.entry]
      BY <2>1, <2>2 DEF Laid
    <3>3. OwnSources' \subseteq {"impl"} /\ Target' = "impl"
      BY <2>1, <2>2, <3>2 DEF OwnSources, Sources, Files, Names, Target
    <3> QED
      BY <2>1, <3>1, <3>3 DEF SourcesOK
  <2>3. CASE problem.strategy # "functionOnly"
    <3>1. src' = src /\ Target' = "entry"
      BY <2>1, <2>3 DEF Laid, Target
    <3>2. ~problem.zip => OwnSources' \subseteq {"entry"}
      BY <1>0, <2>1, <3>1 DEF SourcesOK, OwnSources, Sources, Files, Names
    <3> QED
      BY <1>0, <2>1, <3>1, <3>2 DEF SourcesOK
  <2> QED
    BY <2>2, <2>3
<1>3. CASE PrepareFails \/ StartCases
  <2>1. UNCHANGED <<problem, src, analysis>>
        /\ (stage' = "closing" \/ (stage = "work" /\ stage' = "cases"))
    BY <1>3 DEF PrepareFails, StartCases, FailAll, disk
  <2> QED
    BY <2>1, SourcesSame
<1>4. CASE Analysis
  <2>1. problem' = problem /\ src' = src /\ stage \in {"rules", "analysis"}
    BY <1>4, AnalysisFrame
  <2>2. OwnSources' = OwnSources /\ Target' = Target
    BY <2>1 DEF OwnSources, Target
  <2>3. CASE stage' = "closing"
    BY <2>1, <2>3, SourcesOver
  <2>4. CASE stage' \in {"analysis", "work"}
    <3>1. SUFFICES ASSUME analysis'.pc \in {"visit", "search", "passed"}
                   PROVE  IF problem.zip /\ src.makefile # "none"
                            THEN analysis'.files \cap OwnSources # {}
                            ELSE OwnSources \subseteq analysis'.files
      BY <1>0, <2>1, <2>2, <2>4 DEF SourcesOK
    <3>2. CASE NoRules \/ FetchRaises \/ FetchRules \/ SkipAnalysis \/ SyntaxError
      BY <3>1, <3>2 DEF NoRules, FetchRaises, FetchRules, SkipAnalysis, SyntaxError, Pass, Fail,
         AnalysisDone, NoAnalysis
    <3>3. CASE ChooseSources
      <4>1. ~Fail({})
        BY <3>1 DEF Fail, AnalysisDone, NoAnalysis
      <4>2. \E files : analysis' = [analysis EXCEPT !.pc = "visit", !.files = files, !.todo = files]
        BY <3>3, <4>1 DEF ChooseSources
      <4>3. analysis'.pc = "visit"
        BY <1>0, <4>2 DEF Globals, AnalysisRec
      <4> QED
        BY <3>3, <4>3, ChosenSources
    <3>4. CASE VisitFile \/ DetectCycles \/ CheckItems
      <4>1. analysis.pc \in {"visit", "search"} /\ stage = "analysis"
        BY <1>0, <3>4 DEF VisitFile, DetectCycles, CheckItems, Flow, Analysing
      <4>2. analysis'.files = analysis.files
        <5>1. CASE VisitFile
          BY <1>0, <5>1 DEF VisitFile, Globals, AnalysisRec
        <5>2. CASE CheckItems
          BY <3>1, <5>2 DEF CheckItems, Pass, Fail, AnalysisDone, NoAnalysis
        <5>3. CASE DetectCycles
          BY <5>3, DetectKeeps
        <5> QED
          BY <3>4, <5>1, <5>2, <5>3
      <4> QED
        BY <1>0, <4>1, <4>2 DEF SourcesOK
    <3> QED
      BY <1>4, <3>2, <3>3, <3>4 DEF Analysis
  <2> QED
    BY <1>4, <2>3, <2>4, AnalysisFrame DEF FailAll
<1> QED
  BY <1>1, <1>2, <1>3, <1>4

(* Make and the compiler add no code of the student.                       *)
LEMMA ToolSources ==
  ASSUME JudgingInv, NEW t \in tools, ToolStep(t)
  PROVE  SourcesOK'
<1>0. SourcesOK /\ Globals /\ ToolOK(t)
  BY DEF JudgingInv, ToolsOK
<1>1. CASE BuildFails(t)
  <2>1. problem' = problem /\ stage' = "closing" /\ t.job = "build" /\ t.pc = "work"
        /\ (src' = src \/ src' \in MakeResults(src))
    BY <1>1 DEF BuildFails, FailAll
  <2>2. problem.zip => \A f \in Sources : src'[f] = src[f]
    BY <2>1, BuildSources
  <2> QED
    BY <1>0, <2>1, <2>2 DEF SourcesOK
<1>2. CASE ToolDies(t) \/ CollectAndSend(t) \/ FinishSend(t)
  <2>1. UNCHANGED <<problem, stage, src, analysis>>
    BY <1>2 DEF ToolDies, CollectAndSend, FinishSend, reg, disk
  <2> QED
    BY <2>1, SourcesSame
<1>3. CASE Build(t) \/ Compile(t)
  <2>1. UNCHANGED <<problem, stage, analysis>> /\ t.pc = "work"
    BY <1>3 DEF Build, Compile, reg
  <2>2. stage = "work"
    BY <1>0, <2>1 DEF ToolOK
  <2>3. /\ \A n \in Sources : src'[n] \in {src[n], "judge"}
        /\ problem.zip => \A n \in Sources : src'[n] = src[n]
        /\ src'.makefile = src.makefile
    <3>1. CASE Build(t)
      BY <3>1, BuildSources DEF Build
    <3>2. CASE Compile(t)
      <4>1. src' = src \/ src' = [src EXCEPT !.main = "judge"]
        BY <3>2 DEF Compile
      <4> QED
        BY <1>0, <4>1 DEF Globals, Sources, Names
    <3> QED
      BY <1>3, <3>1, <3>2
  <2>4. OwnSources' \subseteq OwnSources /\ Target' = Target
        /\ (problem.zip => OwnSources' = OwnSources)
    BY <2>1, <2>3 DEF OwnSources, Target
  <2> QED
    BY <1>0, <2>1, <2>2, <2>3, <2>4 DEF SourcesOK
<1> QED
  BY <1>1, <1>2, <1>3 DEF ToolStep

(* The cases leave the sources alone.                                      *)
LEMMA CaseSources ==
  ASSUME JudgingInv, NEW t \in cases,
         CaseStep(t) \/ CutTalk(t) \/ Orchestrate(t) \/ Act(t)
  PROVE  SourcesOK'
<1>1. UNCHANGED <<problem, src, analysis>>
  BY CaseFrame
<1>2. stage' = stage \/ stage' = "closing"
  BY CaseFrame DEF RecordCase
<1> QED
  BY <1>1, <1>2, SourcesSame

(* The completion removes them.                                            *)
LEMMA CloserSources ==
  ASSUME JudgingInv, NEW c \in closing, CloserStep(c)
  PROVE  SourcesOK'
<1>1. CASE Parse(c) \/ AssertionFails(c) \/ Score(c) \/ Report(c) \/ Forget(c) \/ CleanUp(c)
  <2>1. UNCHANGED <<problem, src, analysis>> /\ (stage' = stage \/ stage' = "idle")
    BY <1>1 DEF Parse, AssertionFails, Score, Report, Forget, CleanUp, Closing, reg, disk
  <2> QED
    BY <2>1, SourcesSame
<1>2. CASE ReportFails(c) \/ UploadAll(c)
  <2>1. problem' = problem /\ stage' = stage /\ src' = NoFiles /\ stage = "closing"
    BY <1>2 DEF ReportFails, UploadAll, Closing, JudgingInv, ClosersOK, CloserOK
  <2> QED
    BY <2>1, SourcesOver DEF NoFiles, Sources, Names
<1> QED
  BY <1>1, <1>2 DEF CloserStep

-----------------------------------------------------------------------------
(* The containers.                                                          *)
Holding == {"run", "talk", "checking"}

(* No container is added but for such as Docker refused, and whoever has    *)
(* one goes on.                                                             *)
LEMMA BoxesSame ==
  ASSUME JudgingInv, boxes' \ refused' \subseteq boxes \ refused,
         \A t \in cases : t.pc \in Holding => t \in cases',
         \A c \in closing : c.pc = "score" => c \in closing'
  PROVE  BoxesOK'
<1>1. ASSUME NEW t \in cases, NEW b, Remover(t, b) PROVE t \in cases'
  BY <1>1 DEF Remover, Holding
<1>2. BoxesOK
  BY DEF JudgingInv
<1>3. ASSUME NEW b \in boxes' \ refused'
      PROVE  (\E t \in cases' : Remover(t, b)) \/ (\E c \in closing' : b = ScoreBox(c) /\ c.pc = "score")
  <2>1. CASE \E t \in cases : Remover(t, b)
    BY <1>1, <2>1
  <2>2. CASE \E c \in closing : b = ScoreBox(c) /\ c.pc = "score"
    BY <2>2
  <2> QED
    BY <1>2, <1>3, <2>1, <2>2 DEF BoxesOK
<1> QED
  BY <1>3 DEF BoxesOK, Remover

(* The same of a thread that has none.                                      *)
LEMMA BoxesQuiet ==
  ASSUME JudgingInv, NEW t \in cases, t.pc \notin Holding, cases \ {t} \subseteq cases',
         closing \subseteq closing', boxes' \ refused' \subseteq boxes \ refused
  PROVE  BoxesOK'
BY BoxesSame

(* A thread gets rid of all of its containers, or Docker refused.           *)
LEMMA BoxesGone ==
  ASSUME JudgingInv, NEW t \in cases, cases \ {t} \subseteq cases', closing' = closing,
         NEW left, Gone(t, left)
  PROVE  BoxesOK'
<1>1. ASSUME NEW b \in boxes' \ refused'
      PROVE  (\E s \in cases' : Remover(s, b)) \/ (\E c \in closing' : b = ScoreBox(c) /\ c.pc = "score")
  <2>1. b \in boxes \ refused /\ ~(b[2] = t.att /\ b[3] = t.id)
    BY <1>1 DEF Gone
  <2>2. ~Remover(t, b)
    BY <2>1 DEF Remover, Mine, Box
  <2>3. (\E s \in cases : Remover(s, b)) \/ (\E c \in closing : b = ScoreBox(c) /\ c.pc = "score")
    BY <2>1 DEF JudgingInv, BoxesOK
  <2> QED
    BY <2>2, <2>3
<1> QED
  BY <1>1 DEF BoxesOK, Remover

(* The run of a case ended, and its container is removed.                   *)
LEMMA BoxesRemoved ==
  ASSUME JudgingInv, NEW t \in cases, t.pc = "run", cases \ {t} \subseteq cases',
         closing' = closing, boxes' = boxes \ {Mine(t, "run")}, refused' = refused
  PROVE  BoxesOK'
<1>1. ASSUME NEW b \in boxes' \ refused'
      PROVE  (\E s \in cases' : Remover(s, b)) \/ (\E c \in closing' : b = ScoreBox(c) /\ c.pc = "score")
  <2>1. ~Remover(t, b)
    BY <1>1 DEF Remover
  <2>2. (\E s \in cases : Remover(s, b)) \/ (\E c \in closing : b = ScoreBox(c) /\ c.pc = "score")
    BY <1>1 DEF JudgingInv, BoxesOK
  <2> QED
    BY <2>1, <2>2
<1> QED
  BY <1>1 DEF BoxesOK, Remover

(* A thread starts containers that it will remove.                          *)
LEMMA BoxesStarted ==
  ASSUME JudgingInv, NEW t \in cases, t.pc \notin Holding, NEW u, Move(t, u), closing' = closing,
         refused' = refused, NEW new, boxes' = boxes \cup new, \A b \in new : Remover(u, b)
  PROVE  BoxesOK'
<1>1. ASSUME NEW b \in boxes' \ refused'
      PROVE  (\E s \in cases' : Remover(s, b)) \/ (\E c \in closing' : b = ScoreBox(c) /\ c.pc = "score")
  <2>1. ~Remover(t, b) /\ u \in cases' /\ cases \ {t} \subseteq cases'
    BY DEF Remover, Holding, Move
  <2>2. CASE b \in new
    BY <2>1, <2>2
  <2>3. CASE b \in boxes
    <3>1. (\E s \in cases : Remover(s, b)) \/ (\E c \in closing : b = ScoreBox(c) /\ c.pc = "score")
      BY <1>1, <2>3 DEF JudgingInv, BoxesOK
    <3> QED
      BY <2>1, <3>1
  <2> QED
    BY <1>1, <2>2, <2>3
<1> QED
  BY <1>1 DEF BoxesOK, Remover

(* A case thread removes the containers it started, or Docker refused.     *)
LEMMA CaseBoxes ==
  ASSUME JudgingInv, NEW t \in cases,
         CaseStep(t) \/ CutTalk(t) \/ Orchestrate(t) \/ Act(t)
  PROVE  BoxesOK'
<1>0. t \in CaseRec
  BY DEF JudgingInv, CasesOK, CaseOK, Position
<1>1. CASE PrepareCase(t) \/ PrepareCaseFails(t) \/ NotCompiled(t) \/ TestcaseMissing(t)
             \/ NoCheck(t) \/ KeepArtifact(t) \/ RecordCase(t)
  <2>1. boxes' = boxes /\ refused' = refused /\ closing \subseteq closing'
    BY <1>1 DEF PrepareCase, PrepareCaseFails, NotCompiled, TestcaseMissing, NoCheck,
       KeepArtifact, RecordCase, Unrefused, Judging
  <2>2. t.pc \notin Holding /\ \E u : Move(t, u)
    BY <1>1 DEF PrepareCase, PrepareCaseFails, NotCompiled, TestcaseMissing, NoCheck,
       KeepArtifact, RecordCase, Holding
  <2>3. cases \ {t} \subseteq cases' /\ boxes' \ refused' \subseteq boxes \ refused
    BY <2>1, <2>2 DEF Move
  <2> QED
    BY <2>1, <2>2, <2>3, BoxesQuiet
<1>2. CASE StartRefused(t) \/ RunRefused(t) \/ CheckerRefused(t)
  <2>1. PICK left : Dies(t, left)
    BY <1>2 DEF StartRefused, RunRefused, CheckerRefused
  <2>2. closing' = closing
    BY <1>2 DEF StartRefused, RunRefused, CheckerRefused, Judging
  <2> QED
    BY <2>1, <2>2, BoxesGone DEF Dies
<1>3. CASE EndTalk(t) \/ CutTalk(t) \/ CheckerUnready(t) \/ EndChecker(t) \/ CheckerFails(t)
  <2>1. closing' = closing
    BY <1>3 DEF EndTalk, CutTalk, CheckerUnready, EndChecker, CheckerFails, Judging
  <2>2. CASE \E u, left : Move(t, u) /\ Gone(t, left)
    BY <2>1, <2>2, BoxesGone DEF Move
  <2>3. CASE \E left : Dies(t, left)
    BY <2>1, <2>3, BoxesGone DEF Dies
  <2>4. (\E u, left : Move(t, u) /\ Gone(t, left)) \/ \E left : Dies(t, left)
    <3>1. CASE EndTalk(t) \/ CutTalk(t)
      BY <3>1 DEF EndTalk, CutTalk, Talked
    <3>2. CASE CheckerUnready(t)
      BY <3>2 DEF CheckerUnready
    <3>3. CASE EndChecker(t)
      BY <3>3 DEF EndChecker, CheckersGone
    <3>4. CASE CheckerFails(t)
      BY <3>4 DEF CheckerFails, CheckersGone
    <3> QED
      BY <1>3, <3>1, <3>2, <3>3, <3>4
  <2> QED
    BY <2>2, <2>3, <2>4
<1>4. CASE EndRun(t) \/ RunFails(t)
  <2>1. t.pc = "run" /\ closing' = closing /\ refused' = refused /\ boxes' = boxes \ {Mine(t, "run")}
    BY <1>4 DEF EndRun, RunFails, Removed, Judging
  <2>2. \E u : Move(t, u)
    BY <1>4 DEF EndRun, RunFails
  <2> QED
    BY <2>1, <2>2, BoxesRemoved DEF Move
<1>5. CASE StartRun(t)
  <2>1. PICK p \in {"talk", "run"} : Move(t, [t EXCEPT !.pc = p])
    BY <1>5 DEF StartRun
  <2>2. PICK u : u = [t EXCEPT !.pc = p]
    OBVIOUS
  <2>3. Move(t, u) /\ u.pc = p /\ u.att = t.att /\ u.id = t.id
    BY <1>0, <2>1, <2>2 DEF CaseRec
  <2>4. PICK new : new = {Mine(t, "run")}
    OBVIOUS
  <2>5. boxes' = boxes \cup new /\ refused' = refused /\ closing' = closing
        /\ t.pc \notin Holding
    BY <1>5, <2>4 DEF StartRun, Holding
  <2>6. \A b \in new : Remover(u, b)
    BY <2>3, <2>4 DEF Remover, Mine
  <2> QED
    BY <2>3, <2>5, <2>6, BoxesStarted
<1>6. CASE StartChecker(t)
  <2>1. Move(t, [t EXCEPT !.pc = "checking"])
    BY <1>6 DEF StartChecker
  <2>2. PICK u : u = [t EXCEPT !.pc = "checking"]
    OBVIOUS
  <2>3. Move(t, u) /\ u.pc = "checking" /\ u.att = t.att /\ u.id = t.id
    BY <1>0, <2>1, <2>2 DEF CaseRec
  <2>4. PICK new : new = {Mine(t, "check")} \cup Router(t)
    OBVIOUS
  <2>5. boxes' = boxes \cup new /\ refused' = refused /\ closing' = closing
        /\ t.pc \notin Holding
    BY <1>6, <2>4 DEF StartChecker, Checkable, Holding, Judging
  <2>6. \A b \in new : Remover(u, b)
    BY <2>3, <2>4 DEF Remover, Mine, Router
  <2> QED
    BY <2>3, <2>5, <2>6, BoxesStarted
<1>7. CASE Sweep(t)
  <2>1. /\ boxes' = boxes /\ refused' = refused /\ closing' = closing /\ t.pc \notin Holding
        /\ cases' = {[c EXCEPT !.prog = IF c.id = t.id /\ t.ran # "unprepared"
                                          THEN "none" ELSE c.prog] : c \in cases \ {t}}
    BY <1>7 DEF Sweep, Unrefused, Judging, Holding
  <2>2. ASSUME NEW s \in cases \ {t} PROVE \E u \in cases' : u.pc = s.pc /\ u.att = s.att /\ u.id = s.id
    <3>1. PICK u : u = [s EXCEPT !.prog = IF s.id = t.id /\ t.ran # "unprepared"
                                            THEN "none" ELSE s.prog]
      OBVIOUS
    <3>2. u \in cases'
      BY <2>1, <3>1
    <3>3. s \in CaseRec
      BY DEF JudgingInv, CasesOK, CaseOK, Position
    <3>4. u.pc = s.pc /\ u.att = s.att /\ u.id = s.id
      BY <3>1, <3>3 DEF CaseRec
    <3> QED
      BY <3>2, <3>4
  <2>3. ASSUME NEW b \in boxes \ refused
        PROVE  (\E u \in cases' : Remover(u, b)) \/ (\E c \in closing : b = ScoreBox(c) /\ c.pc = "score")
    <3>1. CASE \E s \in cases : Remover(s, b)
      <4>1. PICK s \in cases : Remover(s, b)
        BY <3>1
      <4>2. s # t
        BY <2>1, <4>1 DEF Remover, Holding
      <4>3. PICK u \in cases' : u.pc = s.pc /\ u.att = s.att /\ u.id = s.id
        BY <2>2, <4>2
      <4>4. Remover(u, b)
        BY <4>1, <4>3 DEF Remover, Mine
      <4> QED
        BY <4>4
    <3> QED
      BY <2>3, <3>1 DEF JudgingInv, BoxesOK
  <2> QED
    BY <2>1, <2>3 DEF BoxesOK, Remover
<1>8. CASE Orchestrate(t) \/ Act(t)
  <2>1. UNCHANGED <<cases, boxes, closing, hist>>
    BY <1>8, CaseOrchestrates
  <2> QED
    BY <2>1, BoxesSame DEF hist
<1> QED
  BY <1>1, <1>2, <1>3, <1>4, <1>5, <1>6, <1>7, <1>8 DEF CaseStep

(* The dispatcher starts none.                                             *)
LEMMA StageBoxes ==
  ASSUME JudgingInv, Submit \/ Prepare \/ PrepareFails \/ Analysis \/ StartCases
  PROVE  BoxesOK'
<1>1. CASE Submit \/ Prepare \/ PrepareFails \/ StartCases
  <2>1. boxes' = boxes /\ refused' = refused /\ cases \subseteq cases' /\ closing \subseteq closing'
    BY <1>1 DEF Submit, Prepare, PrepareFails, StartCases, FailAll, hist
  <2> QED
    BY <2>1, BoxesSame
<1>2. CASE Analysis
  <2>1. boxes' = boxes /\ refused' = refused /\ cases' = cases
    BY <1>2, AnalysisFrame
  <2>2. closing \subseteq closing'
    BY <1>2, AnalysisFrame DEF FailAll
  <2> QED
    BY <2>1, <2>2, BoxesSame
<1> QED
  BY <1>1, <1>2

(* A build or compile container stays only when Docker refused.            *)
LEMMA ToolBoxes ==
  ASSUME JudgingInv, NEW t \in tools, ToolStep(t)
  PROVE  BoxesOK'
<1>1. cases' = cases /\ closing \subseteq closing'
  BY DEF ToolStep, Build, BuildFails, Compile, ToolDies, CollectAndSend, FinishSend, FailAll
<1>2. boxes' \ refused' \subseteq boxes \ refused
  <2>1. CASE ToolDies(t)
    BY <2>1 DEF ToolDies
  <2>2. CASE ~ToolDies(t)
    BY <2>2 DEF ToolStep, Build, BuildFails, Compile, CollectAndSend, FinishSend, hist
  <2> QED
    BY <2>1, <2>2
<1> QED
  BY <1>1, <1>2, BoxesSame

(* The scorer's container is removed by the thread that started it.        *)
LEMMA CloserBoxes ==
  ASSUME JudgingInv, NEW c \in closing, CloserStep(c)
  PROVE  BoxesOK'
<1>0. c \in CloserRec
  BY DEF JudgingInv, ClosersOK, CloserOK
<1>1. CASE AssertionFails(c)
  <2>1. boxes' = boxes /\ refused' = refused /\ closing' = closing \ {c} /\ c.pc = "parse"
        /\ cases' = {t \in cases : t.pc # "closing"}
    BY <1>1 DEF AssertionFails
  <2> QED
    BY <2>1, BoxesSame DEF Holding
<1>2. CASE Report(c) \/ ReportFails(c) \/ UploadAll(c) \/ Forget(c) \/ CleanUp(c)
  <2>1. boxes' = boxes /\ refused' = refused /\ cases' = cases /\ c.pc # "score"
    BY <1>2 DEF Report, ReportFails, UploadAll, Forget, CleanUp, Closing, hist
  <2>2. closing \ {c} \subseteq closing'
    BY <1>2 DEF Report, ReportFails, UploadAll, Forget, CleanUp, Step
  <2> QED
    BY <2>1, <2>2, BoxesSame
<1>3. CASE Parse(c)
  <2>1. CASE problem.scorer
    <3>1. /\ boxes' = boxes \cup {ScoreBox(c)} /\ refused' = refused /\ cases' = cases
          /\ Step(c, [c EXCEPT !.pc = "score"]) /\ c.pc = "parse"
      BY <1>3, <2>1 DEF Parse, Closing, hist
    <3>2. PICK d : d = [c EXCEPT !.pc = "score"]
      OBVIOUS
    <3>3. d \in closing' /\ d.pc = "score" /\ ScoreBox(d) = ScoreBox(c) /\ closing \ {c} \subseteq closing'
      BY <1>0, <3>1, <3>2 DEF Step, CloserRec, ScoreBox
    <3>4. ASSUME NEW b \in boxes' \ refused'
          PROVE  (\E t \in cases' : Remover(t, b)) \/ (\E e \in closing' : b = ScoreBox(e) /\ e.pc = "score")
      <4>1. CASE b = ScoreBox(c)
        BY <3>3, <4>1
      <4>2. CASE b \in boxes
        BY <3>1, <3>3, <3>4, <4>2 DEF JudgingInv, BoxesOK
      <4> QED
        BY <3>1, <3>4, <4>1, <4>2
    <3> QED
      BY <3>4 DEF BoxesOK, Remover
  <2>2. CASE ~problem.scorer
    <3>1. boxes' = boxes /\ refused' = refused /\ cases' = cases /\ c.pc = "parse"
          /\ closing \ {c} \subseteq closing'
      BY <1>3, <2>2 DEF Parse, Closing, hist, Step
    <3> QED
      BY <3>1, BoxesSame
  <2> QED
    BY <2>1, <2>2
<1>4. CASE Score(c)
  <2>1. /\ cases' = cases /\ closing \ {c} \subseteq closing'
        /\ boxes' \ refused' \subseteq (boxes \ refused) \ {ScoreBox(c)}
    BY <1>4 DEF Score, Step
  <2>2. ASSUME NEW b \in boxes' \ refused'
        PROVE  (\E t \in cases' : Remover(t, b)) \/ (\E e \in closing' : b = ScoreBox(e) /\ e.pc = "score")
    BY <2>1, <2>2 DEF JudgingInv, BoxesOK
  <2> QED
    BY <2>2 DEF BoxesOK, Remover
<1> QED
  BY <1>1, <1>2, <1>3, <1>4 DEF CloserStep

-----------------------------------------------------------------------------
(* Every step keeps the invariant.                                          *)
LEMMA JudgingStep == JudgingInv /\ [Next]_vars => JudgingInv'
<1> SUFFICES ASSUME JudgingInv, [Next]_vars PROVE JudgingInv'
  OBVIOUS
<1>1. CASE Submit \/ Prepare \/ PrepareFails \/ Analysis \/ StartCases
  BY <1>1, StageGlobals, StageFlow, StageTools, StageCases, OtherOrch, StageClosers, StageStore,
     StageSources, StageBoxes DEF JudgingInv
<1>2. CASE \E t \in tools : ToolStep(t)
  BY <1>2, ToolGlobals, ToolFlow, ToolTools, ToolCases, OtherOrch, ToolClosers, ToolStore,
     ToolSources, ToolBoxes DEF JudgingInv
<1>3. CASE Case \/ \E t \in cases : Orchestrate(t) \/ Act(t) \/ CutTalk(t)
  <2>1. PICK t \in cases : CaseStep(t) \/ CutTalk(t) \/ Orchestrate(t) \/ Act(t)
    BY <1>3 DEF Case
  <2> QED
    BY <2>1, CaseGlobals, CaseFlow, CaseTools, CaseCases, CaseOrch, CaseClosers, CaseStore,
       CaseSources, CaseBoxes DEF JudgingInv
<1>4. CASE \E c \in closing : CloserStep(c)
  BY <1>4, CloserGlobals, CloserFlow, CloserTools, CloserCases, OtherOrch, CloserClosers,
     CloserStore, CloserSources, CloserBoxes DEF JudgingInv
<1>5. CASE UNCHANGED vars
  <2>1. UNCHANGED <<problem, att, stage, results, info, home, src, teacher, compiled, prebuilt,
                    analysis, tools, cases, orch, boxes, collector, uploads, closing, overlap, refused>>
    BY <1>5 DEF vars, reg, disk, built, store, hist
  <2>2. Globals'
    BY <2>1, GlobalsSame DEF JudgingInv, Globals, CaseIds
  <2>3. Flow' /\ SourcesOK' /\ BoxesOK'
    BY <2>1, FlowSame, SourcesSame, BoxesSame
  <2>4. ToolsOK' /\ ClosersOK' /\ StoreOK'
    BY <2>1, ToolsSame, ClosersSame, StoreSame
  <2>5. CasesOK'
    BY <2>1, CaseEnds DEF JudgingInv, OnlyCases
  <2>6. OrchOK'
    BY <2>1 DEF JudgingInv, OrchOK, CaseIds, OrchRec, Decided, Running
  <2> QED
    BY <2>2, <2>3, <2>4, <2>5, <2>6 DEF JudgingInv
<1> QED
  BY <1>1, <1>2, <1>3, <1>4, <1>5 DEF Next, Over

-----------------------------------------------------------------------------
(* What every behaviour keeps.                                              *)
LEMMA SpecJudging == Spec => []JudgingInv
BY InitJudging, JudgingStep, PTL DEF Spec

(* Every variable has a value of its type: an attempt's number, a stage, a  *)
(* verdict, a maker, a record of its kind (Judging.TypeOK).                 *)
THEOREM JudgingTypes == Spec => []TypeOK
<1>1. JudgingInv => TypeOK
  <2> SUFFICES ASSUME JudgingInv PROVE TypeOK
    OBVIOUS
  <2>1. Globals /\ OrchOK
    BY DEF JudgingInv
  <2>2. \A t \in tools : t \in ToolRec
    BY DEF JudgingInv, ToolsOK, ToolOK
  <2>3. \A t \in cases : t \in CaseRec
    BY DEF JudgingInv, CasesOK, CaseOK, Position
  <2>4. \A c \in closing : c \in CloserRec
    BY DEF JudgingInv, ClosersOK, CloserOK
  <2>5. /\ \A t \in tools : t.job \in {"build", "compile"} /\ t.att \in Attempts
                              /\ t.pc \in {"work", "collect", "send"}
        /\ \A t \in cases : t.att \in Attempts /\ t.id \in CaseIds
                              /\ t.v \in Verdicts \cup {"none"}
        /\ \A c \in closing : c.att \in Attempts /\ c.data \in 0..MaxAttempts
    BY <2>2, <2>3, <2>4 DEF ToolRec, CaseRec, CloserRec
  <2>6. DOMAIN orch = CaseIds
    BY <2>1 DEF OrchOK
  <2>7. /\ collector.binary \in 0..MaxAttempts /\ collector.snaps \subseteq CaseIds
        /\ analysis.todo \subseteq analysis.files /\ analysis.files \subseteq Sources
    BY <2>1 DEF Globals, StoreRec, AnalysisRec
  <2>8. home \in 0..att /\ att \in 0..MaxAttempts
    BY <2>1, JudgingAssumption DEF Globals
  <2>9. /\ problem \in Problems
        /\ stage \in {"idle", "prepare", "rules", "analysis", "work", "cases", "closing"}
        /\ results \in [CaseIds -> Verdicts \cup {"none"}]
        /\ info \in {"none", "ready", "error"}
        /\ src \in [Names -> {"none", "student", "staff", "judge"}]
        /\ compiled \in {"none", "AC", "CE", "JE"}
    BY <2>1 DEF Globals, Stages, Makers
  <2>10. teacher \in BOOLEAN /\ prebuilt \in BOOLEAN
    BY <2>1 DEF Globals
  <2> QED
    BY <2>5, <2>6, <2>7, <2>8, <2>9, <2>10 DEF TypeOK
<1> QED
  BY <1>1, SpecJudging, PTL

(* A verdict says what was found out about the case, of every problem and   *)
(* whatever the programs, the checker and Docker do (Judging.VerdictJust).  *)
THEOREM VerdictsJust == Spec => []VerdictJust
<1>1. JudgingInv => VerdictJust
  <2> SUFFICES ASSUME JudgingInv, NEW t \in cases, t.pc \in {"keep", "record", "sweep"},
                      Current(t.att), ~overlap
               PROVE  IF t.ran = "talked"
        THEN LET o == orch[t.id] IN
             /\ t.v \in {"AC", "WA"} =>
                  o.stu.res = "AC" /\ o.tea.res = "AC" /\ o.check = t.v
             /\ t.v \in Marks => t.v \in {o.stu.res, o.tea.res}
        ELSE /\ t.v = "AC" => IF t.use = "ready" THEN t.said = "AC" /\ t.ran \notin Marks
                                               ELSE t.ran = "match"
             /\ t.v = "WA" => t.said = "WA" \/ (t.use = "none" /\ t.ran = "differ")
             /\ t.v \in Marks => t.ran = t.v
             /\ t.v = "CE" => compiled = "CE" /\ t.ran = "none"
             /\ problem.short /\ t.v # "CE" => t.v = "JE"
    BY DEF VerdictJust
  <2>1. Position(t) /\ Evidence(t) /\ Support(t) /\ OrchOK
    BY DEF JudgingInv, CasesOK, CaseOK
  <2>2. CASE t.ran = "talked"
    <3>1. PICK o : o = orch[t.id]
      OBVIOUS
    <3>2. o.pc = "done" /\ t.v = o.verdict /\ Decided(o)
      BY <2>1, <2>2, <3>1 DEF Support, Current, OrchOK, Position, CaseRec
    <3>3. /\ t.v \in {"AC", "WA"} => o.stu.res = "AC" /\ o.tea.res = "AC" /\ o.check = t.v
          /\ t.v \in Marks => t.v \in {o.stu.res, o.tea.res}
      BY <3>2 DEF Decided, Marks
    <3> QED
      BY <2>2, <3>1, <3>3
  <2>3. CASE t.ran # "talked"
    <3>1. Reason(t) /\ (t.v = "CE" => compiled = "CE")
      BY <2>1, <2>3 DEF Evidence, Support
    <3> QED
      BY <2>3, <3>1 DEF Reason
  <2> QED
    BY <2>2, <2>3
<1> QED
  BY <1>1, SpecJudging, PTL

(* A submission uploads nothing of another attempt, and none of the judge's *)
(* resource files (Judging.OwnUploads).                                     *)
THEOREM UploadsOwn == Spec => []OwnUploads
<1>1. JudgingInv => OwnUploads
  BY DEF JudgingInv, StoreOK, OwnUploads
<1> QED
  BY <1>1, SpecJudging, PTL

(* Unless the backend refused it, the program of a submission that was      *)
(* reported has been uploaded (Judging.BinarySent).                         *)
THEOREM ProgramSent == Spec => []BinarySent
<1>1. JudgingInv => BinarySent
  BY DEF JudgingInv, ClosersOK, CloserOK, BinarySent
<1> QED
  BY <1>1, SpecJudging, PTL

(* A container that Docker did not refuse to remove has a thread that will  *)
(* remove it (Judging.ContainersGone).                                      *)
THEOREM ContainersRemoved == Spec => []ContainersGone
<1>1. JudgingInv => ContainersGone
  BY DEF JudgingInv, BoxesOK, Remover, Mine, Box, ContainersGone
<1> QED
  BY <1>1, SpecJudging, PTL

(* No case of a submission that passed the analysis runs code of the        *)
(* student that was not analysed (Judging.StudentScreened).                 *)
THEOREM SourcesScreened == Spec => []StudentScreened
<1>1. JudgingInv => StudentScreened
  BY DEF JudgingInv, SourcesOK, OwnSources, StudentScreened
<1> QED
  BY <1>1, SpecJudging, PTL

-----------------------------------------------------------------------------
(* The depth first search, of any call graph.  Those it has left are done.  *)
Done(seen, stack) == seen \ ToSet(stack)

(* The stack is a chain of calls without a repetition; what was followed    *)
(* from a function on it is done or the next one.  Before a back edge was   *)
(* found, no calls that lead around touch what is done.                     *)
OnChain(graph, seen, stack, left) ==
  /\ graph \in [Funcs -> SUBSET Funcs] /\ left \in [Funcs -> SUBSET Funcs]
  /\ seen \in SUBSET Funcs /\ stack \in Seq(Funcs)
  /\ \A i \in DOMAIN stack : stack[i] \in seen
  /\ \A i, j \in DOMAIN stack : stack[i] = stack[j] => i = j
  /\ \A i \in 1..(Len(stack) - 1) : stack[i + 1] \in graph[stack[i]]
  /\ \A u \in Funcs : left[u] \subseteq graph[u]
  /\ \A u \in Funcs \ seen : left[u] = graph[u]

Followed(graph, seen, stack, left) ==
  \A i \in DOMAIN stack : \A v \in graph[stack[i]] \ left[stack[i]] :
    v \in Done(seen, stack) \/ (i < Len(stack) /\ v = stack[i + 1])

Untouched(graph, done) ==
  \A k \in Nat \ {0} : \A path \in Around(graph, k) : \A i \in 1..k : path[i] \notin done

Searching(graph, seen, stack, left, found) ==
  /\ OnChain(graph, seen, stack, left)
  /\ found \in BOOLEAN
  /\ ~found => Followed(graph, seen, stack, left) /\ Untouched(graph, Done(seen, stack))
  /\ found => HasCycle(graph)

SearchInv ==
  /\ analysis.pc = "search" =>
       Searching(analysis.graph, analysis.seen, analysis.stack, analysis.left, analysis.found)
  /\ analysis.pc \in {"files", "visit"} => analysis.seen = {} /\ analysis.stack = <<>>
  /\ analysis.pc = "files" => analysis.graph = NoCalls /\ analysis.found = FALSE
  /\ RecursionFound

-----------------------------------------------------------------------------
(* Everything on the stack is another function.                             *)
LEMMA StackBound ==
  ASSUME NEW stack \in Seq(Funcs), \A i, j \in DOMAIN stack : stack[i] = stack[j] => i = j
  PROVE  Len(stack) <= Cardinality(Funcs)
<1>1. Len(stack) \in Nat /\ DOMAIN stack = 1..Len(stack) /\ stack \in [1..Len(stack) -> Funcs]
  OBVIOUS
<1>2. IsFiniteSet(Funcs) /\ Cardinality(Funcs) \in Nat
  BY JudgingAssumption, FS_CardinalityType
<1>3. 1 \in Int /\ Len(stack) \in Int
  BY <1>1
<1>4. IsFiniteSet(1..Len(stack))
  BY <1>3, FS_Interval
<1>5. Cardinality(1..Len(stack)) = IF 1 > Len(stack) THEN 0 ELSE Len(stack) - 1 + 1
  BY <1>3, FS_Interval
<1>6. Cardinality(1..Len(stack)) = Len(stack)
  BY <1>1, <1>5
<1>7. \A i, j \in 1..Len(stack) : stack[i] = stack[j] => i = j
  BY <1>1
<1>8. ~(Cardinality(Funcs) < Cardinality(1..Len(stack)))
  BY <1>1, <1>2, <1>4, <1>7, FS_PigeonHole
<1> QED
  BY <1>1, <1>2, <1>6, <1>8

(* A call of a function on the stack leads around.                          *)
LEMMA BackEdge ==
  ASSUME NEW graph, NEW seen, NEW stack, NEW left, OnChain(graph, seen, stack, left),
         NEW j \in DOMAIN stack, stack[j] \in graph[stack[Len(stack)]]
  PROVE  HasCycle(graph)
<1> DEFINE n == Len(stack)
           k == n - j + 1
           path == [i \in 1..k |-> stack[j + i - 1]]
<1>1. /\ stack \in Seq(Funcs) /\ n \in Nat /\ DOMAIN stack = 1..n
      /\ \A i \in 1..n : stack[i] \in Funcs
      /\ \A i \in 1..(n - 1) : stack[i + 1] \in graph[stack[i]]
  BY DEF OnChain
<1>2. n <= Cardinality(Funcs) /\ Cardinality(Funcs) \in Nat
  BY <1>1, StackBound, JudgingAssumption, FS_CardinalityType DEF OnChain
<1>3. j \in 1..n
  BY <1>1
<1>4. k \in 1..Cardinality(Funcs)
  BY <1>1, <1>2, <1>3
<1>5. \A i \in 1..k : j + i - 1 \in 1..n
  BY <1>1, <1>3
<1>6. path \in [1..k -> Funcs]
  BY <1>1, <1>5
<1>7. ASSUME NEW i \in 1..(k - 1) PROVE path[i + 1] \in graph[path[i]]
  <2>1. i \in 1..k /\ i + 1 \in 1..k /\ j + i - 1 \in 1..(n - 1) /\ j + (i + 1) - 1 = (j + i - 1) + 1
    BY <1>1, <1>3
  <2>2. path[i + 1] = stack[(j + i - 1) + 1] /\ path[i] = stack[j + i - 1]
    BY <2>1
  <2> HIDE DEF path
  <2> QED
    BY <1>1, <2>1, <2>2
<1>8. path[1] = stack[j] /\ path[k] = stack[n]
  <2>1. 1 \in 1..k /\ k \in 1..k /\ j + 1 - 1 = j /\ j + k - 1 = n
    BY <1>1, <1>3, <1>4
  <2> QED
    BY <2>1
<1>9. path \in Around(graph, k)
  <2> HIDE DEF path
  <2> QED
    BY <1>6, <1>7, <1>8 DEF Around
<1> HIDE DEF path, k
<1> QED
  BY <1>4, <1>9 DEF HasCycle

(* When a function is left and everything it calls is done, it is not on    *)
(* calls that lead around, for the next one would be.                       *)
LEMMA LeavesUntouched ==
  ASSUME NEW graph, NEW done, NEW u \in Funcs, Untouched(graph, done), graph[u] \subseteq done
  PROVE  Untouched(graph, done \cup {u})
<1> SUFFICES ASSUME NEW k \in Nat \ {0}, NEW path \in Around(graph, k), NEW i \in 1..k,
                    path[i] = u
             PROVE  FALSE
  BY DEF Untouched
<1>1. CASE i = k
  <2>1. path[1] \in graph[u] /\ 1 \in 1..k
    BY <1>1 DEF Around
  <2> QED
    BY <2>1 DEF Untouched
<1>2. CASE i # k
  <2>1. i \in 1..(k - 1) /\ i + 1 \in 1..k
    BY <1>2
  <2>2. path[i + 1] \in graph[u]
    BY <2>1 DEF Around
  <2> QED
    BY <2>1, <2>2 DEF Untouched
<1> QED
  BY <1>1, <1>2

-----------------------------------------------------------------------------
(* The steps of the search.                                                 *)
LEMMA SearchBegins ==
  ASSUME NEW graph \in [Funcs -> SUBSET Funcs]
  PROVE  Searching(graph, {}, <<>>, graph, FALSE)
<1>1. <<>> \in Seq(Funcs) /\ DOMAIN <<>> = {} /\ Len(<<>>) = 0
  OBVIOUS
<1>2. OnChain(graph, {}, <<>>, graph)
  BY <1>1 DEF OnChain
<1>3. Followed(graph, {}, <<>>, graph)
  BY <1>1 DEF Followed
<1>4. Untouched(graph, Done({}, <<>>))
  BY DEF Untouched, Done
<1> QED
  BY <1>2, <1>3, <1>4 DEF Searching

LEMMA SearchEnters ==
  ASSUME NEW graph, NEW seen, NEW left, NEW found, Searching(graph, seen, <<>>, left, found),
         NEW u \in Funcs, u \notin seen
  PROVE  Searching(graph, seen \cup {u}, <<u>>, left, found)
<1>1. OnChain(graph, seen, <<>>, left)
  BY DEF Searching
<1>2. <<u>> \in Seq(Funcs) /\ DOMAIN <<u>> = {1} /\ Len(<<u>>) = 1 /\ <<u>>[1] = u
  OBVIOUS
<1>3. OnChain(graph, seen \cup {u}, <<u>>, left)
  BY <1>1, <1>2 DEF OnChain
<1>4. Followed(graph, seen \cup {u}, <<u>>, left)
  BY <1>1, <1>2 DEF Followed, OnChain
<1>5. Done(seen \cup {u}, <<u>>) = Done(seen, <<>>)
  <2>1. ToSet(<<u>>) = {u} /\ ToSet(<<>>) = {}
    BY <1>2 DEF ToSet
  <2> QED
    BY <2>1 DEF Done
<1> QED
  BY <1>3, <1>4, <1>5 DEF Searching

(* A call of a function that was seen.                                      *)
LEMMA SearchMeets ==
  ASSUME NEW graph, NEW seen, NEW stack, NEW left, NEW found,
         Searching(graph, seen, stack, left, found), stack # <<>>,
         NEW v \in left[stack[Len(stack)]], v \in seen
  PROVE  Searching(graph, seen, stack,
                   [left EXCEPT ![stack[Len(stack)]] = left[stack[Len(stack)]] \ {v}],
                   found \/ v \in ToSet(stack))
<1> DEFINE n == Len(stack)
           top == stack[n]
           rest == [left EXCEPT ![top] = left[top] \ {v}]
<1>1. OnChain(graph, seen, stack, left)
  BY DEF Searching
<1>2. n \in Nat \ {0} /\ DOMAIN stack = 1..n /\ top \in Funcs /\ v \in graph[top]
  BY <1>1 DEF OnChain
<1>3. /\ rest \in [Funcs -> SUBSET Funcs] /\ rest[top] = left[top] \ {v}
      /\ \A u \in Funcs \ {top} : rest[u] = left[u]
  BY <1>1, <1>2 DEF OnChain
<1>4. top \in seen
  BY <1>1, <1>2 DEF OnChain
<1> HIDE DEF rest, n, top
<1>5. OnChain(graph, seen, stack, rest)
  <2>1. \A u \in Funcs : rest[u] \subseteq graph[u]
    BY <1>1, <1>3 DEF OnChain
  <2>2. \A u \in Funcs \ seen : rest[u] = graph[u]
    BY <1>1, <1>3, <1>4 DEF OnChain
  <2> QED
    BY <1>1, <1>3, <2>1, <2>2 DEF OnChain
<1>6. CASE v \in ToSet(stack)
  <2>1. PICK j \in DOMAIN stack : v = stack[j]
    BY <1>6 DEF ToSet
  <2>2. HasCycle(graph)
    BY <1>1, <1>2, <2>1, BackEdge DEF n, top
  <2> QED
    BY <1>5, <1>6, <2>2 DEF Searching, rest, n, top
<1>7. CASE v \notin ToSet(stack)
  <2>1. ASSUME ~found PROVE Followed(graph, seen, stack, rest)
    <3>1. Followed(graph, seen, stack, left) /\ v \in Done(seen, stack)
      BY <1>7, <2>1 DEF Searching, Done
    <3>2. ASSUME NEW i \in DOMAIN stack, NEW w \in graph[stack[i]] \ rest[stack[i]]
          PROVE  w = v \/ w \in graph[stack[i]] \ left[stack[i]]
      BY <1>1, <1>3 DEF OnChain
    <3> QED
      BY <3>1, <3>2 DEF Followed
  <2>2. (found \/ v \in ToSet(stack)) = found
    BY <1>7 DEF Searching
  <2> QED
    BY <1>5, <2>1, <2>2 DEF Searching, rest, n, top
<1> QED
  BY <1>6, <1>7

(* A call of one that was not.                                              *)
LEMMA SearchDescends ==
  ASSUME NEW graph, NEW seen, NEW stack, NEW left, NEW found,
         Searching(graph, seen, stack, left, found), stack # <<>>,
         NEW v \in left[stack[Len(stack)]], v \notin seen
  PROVE  Searching(graph, seen \cup {v}, Append(stack, v),
                   [left EXCEPT ![stack[Len(stack)]] = left[stack[Len(stack)]] \ {v}], found)
<1> DEFINE n == Len(stack)
           top == stack[n]
           rest == [left EXCEPT ![top] = left[top] \ {v}]
           deep == Append(stack, v)
<1>1. OnChain(graph, seen, stack, left)
  BY DEF Searching
<1>2. n \in Nat \ {0} /\ DOMAIN stack = 1..n /\ top \in Funcs /\ v \in graph[top] /\ v \in Funcs
  BY <1>1 DEF OnChain
<1>3. /\ rest \in [Funcs -> SUBSET Funcs] /\ rest[top] = left[top] \ {v}
      /\ \A u \in Funcs \ {top} : rest[u] = left[u]
  BY <1>1, <1>2 DEF OnChain
<1>4. top \in seen /\ \A i \in 1..n : stack[i] \in seen /\ stack[i] # v
  BY <1>1, <1>2 DEF OnChain
<1>5. /\ deep \in Seq(Funcs) /\ Len(deep) = n + 1 /\ DOMAIN deep = 1..(n + 1)
      /\ deep[n + 1] = v /\ \A i \in 1..n : deep[i] = stack[i]
  BY <1>1, <1>2 DEF OnChain
<1>6. Done(seen \cup {v}, deep) = Done(seen, stack)
  <2>1. ToSet(deep) = ToSet(stack) \cup {v}
    <3> HIDE DEF deep, n
    <3> QED
      BY <1>2, <1>5 DEF ToSet
  <2> HIDE DEF deep
  <2> QED
    BY <2>1 DEF Done
<1> HIDE DEF rest, deep, n
<1>7. OnChain(graph, seen \cup {v}, deep, rest)
  <2>1. \A i \in DOMAIN deep : deep[i] \in seen \cup {v}
    BY <1>4, <1>5, <1>2
  <2>2. \A i, j \in DOMAIN deep : deep[i] = deep[j] => i = j
    <3>1. \A i, j \in 1..n : stack[i] = stack[j] => i = j
      BY <1>1, <1>2 DEF OnChain
    <3>2. ASSUME NEW i \in 1..(n + 1), NEW j \in 1..(n + 1), deep[i] = deep[j] PROVE i = j
      <4>1. (i \in 1..n \/ i = n + 1) /\ (j \in 1..n \/ j = n + 1)
        BY <1>2
      <4> QED
        BY <1>4, <1>5, <3>1, <3>2, <4>1
    <3> QED
      BY <1>5, <3>2
  <2>3. \A i \in 1..(Len(deep) - 1) : deep[i + 1] \in graph[deep[i]]
    <3>1. ASSUME NEW i \in 1..n PROVE deep[i + 1] \in graph[deep[i]]
      <4>1. CASE i = n
        BY <1>2, <1>5, <4>1 DEF top
      <4>2. CASE i # n
        <5>1. i \in 1..(n - 1) /\ i + 1 \in 1..n
          BY <1>2, <4>2
        <5>2. stack[i + 1] \in graph[stack[i]]
          BY <1>1, <5>1 DEF OnChain, n
        <5> QED
          BY <1>5, <5>1, <5>2
      <4> QED
        BY <4>1, <4>2
    <3>2. Len(deep) - 1 = n
      BY <1>2, <1>5
    <3> QED
      BY <3>1, <3>2
  <2>4. \A u \in Funcs : rest[u] \subseteq graph[u]
    BY <1>1, <1>3 DEF OnChain
  <2>5. \A u \in Funcs \ (seen \cup {v}) : rest[u] = graph[u]
    BY <1>1, <1>3, <1>4 DEF OnChain
  <2> QED
    BY <1>1, <1>2, <1>3, <1>5, <2>1, <2>2, <2>3, <2>4, <2>5 DEF OnChain
<1>8. ASSUME ~found PROVE Followed(graph, seen \cup {v}, deep, rest)
  <2>1. Followed(graph, seen, stack, left)
    BY <1>8 DEF Searching
  <2> SUFFICES ASSUME NEW i \in 1..(n + 1), NEW w \in graph[deep[i]] \ rest[deep[i]]
               PROVE  w \in Done(seen, stack) \/ (i < n + 1 /\ w = deep[i + 1])
    BY <1>5, <1>6 DEF Followed
  <2>2. CASE i = n + 1
    <3>1. rest[v] = graph[v]
      BY <1>1, <1>2, <1>3, <1>4 DEF OnChain
    <3> QED
      BY <1>5, <2>2, <3>1
  <2>3. CASE i \in 1..n
    <3>1. (w = v /\ stack[i] = top) \/ w \in graph[stack[i]] \ left[stack[i]]
      BY <1>1, <1>2, <1>3, <1>5, <2>3 DEF OnChain
    <3>2. CASE w = v /\ stack[i] = top
      <4>1. i = n
        BY <1>1, <1>2, <2>3, <3>2 DEF OnChain, top
      <4> QED
        BY <1>2, <1>5, <3>2, <4>1
    <3>3. CASE w \in graph[stack[i]] \ left[stack[i]]
      <4>1. w \in Done(seen, stack) \/ (i < n /\ w = stack[i + 1])
        BY <1>2, <2>1, <2>3, <3>3 DEF Followed, n
      <4>2. CASE i < n /\ w = stack[i + 1]
        <5>1. i + 1 \in 1..n /\ i < n + 1
          BY <1>2, <2>3, <4>2
        <5> QED
          BY <1>5, <4>2, <5>1
      <4> QED
        BY <4>1, <4>2
    <3> QED
      BY <3>1, <3>2, <3>3
  <2>4. i = n + 1 \/ i \in 1..n
    BY <1>2
  <2> QED
    BY <2>2, <2>3, <2>4
<1>9. Searching(graph, seen \cup {v}, deep, rest, found)
  BY <1>6, <1>7, <1>8 DEF Searching
<1> QED
  BY <1>9 DEF rest, deep, n, top

(* The last function is left.                                               *)
LEMMA SearchLeaves ==
  ASSUME NEW graph, NEW seen, NEW stack, NEW left, NEW found,
         Searching(graph, seen, stack, left, found), stack # <<>>,
         left[stack[Len(stack)]] = {}
  PROVE  Searching(graph, seen, Front(stack), left, found)
<1> DEFINE n == Len(stack)
           top == stack[n]
           front == Front(stack)
<1>1. OnChain(graph, seen, stack, left)
  BY DEF Searching
<1>2. n \in Nat \ {0} /\ DOMAIN stack = 1..n /\ top \in Funcs /\ top \in seen
  BY <1>1 DEF OnChain
<1>3. /\ front \in Seq(Funcs) /\ Len(front) = n - 1 /\ DOMAIN front = 1..(n - 1)
      /\ \A i \in 1..(n - 1) : front[i] = stack[i]
  <2>1. front = SubSeq(stack, 1, n - 1)
    BY DEF Front
  <2>2. n - 1 \in Nat /\ stack \in Seq(Funcs)
    BY <1>1, <1>2 DEF OnChain
  <2> HIDE DEF front, n
  <2> QED
    BY <1>2, <2>1, <2>2, n = Len(stack)
<1> HIDE DEF front, n
<1>4. Done(seen, front) = Done(seen, stack) \cup {top}
  <2>1. ToSet(stack) = ToSet(front) \cup {top} /\ top \notin ToSet(front)
    <3>1. \A i \in 1..n : i = n \/ i \in 1..(n - 1)
      BY <1>2
    <3>2. \A i \in 1..(n - 1) : i \in 1..n /\ i # n
      BY <1>2
    <3>3. \A i \in 1..(n - 1) : stack[i] # top
      BY <1>1, <1>2, <3>2 DEF OnChain
    <3> QED
      BY <1>2, <1>3, <3>1, <3>2, <3>3 DEF ToSet, top
  <2> HIDE DEF top
  <2> QED
    BY <1>2, <2>1 DEF Done
<1>5. OnChain(graph, seen, front, left)
  <2>1. \A i \in 1..(n - 1) : i \in 1..n
    BY <1>2
  <2>2. \A i \in 1..(Len(front) - 1) : i \in 1..(n - 1) /\ i + 1 \in 1..(n - 1)
    BY <1>2, <1>3
  <2>3. \A i \in 1..(n - 1) : stack[i + 1] \in graph[stack[i]]
    BY <1>1 DEF OnChain, n
  <2>4. \A i \in 1..(Len(front) - 1) : front[i + 1] \in graph[front[i]]
    BY <1>3, <2>2, <2>3
  <2>5. \A i \in DOMAIN front : front[i] \in seen
    BY <1>1, <1>2, <1>3, <2>1 DEF OnChain
  <2>6. \A i, j \in DOMAIN front : front[i] = front[j] => i = j
    BY <1>1, <1>2, <1>3, <2>1 DEF OnChain
  <2> QED
    BY <1>1, <1>3, <2>4, <2>5, <2>6 DEF OnChain
<1>6. ASSUME ~found PROVE Followed(graph, seen, front, left)
  <2>1. Followed(graph, seen, stack, left)
    BY <1>6 DEF Searching
  <2> SUFFICES ASSUME NEW i \in 1..(n - 1), NEW w \in graph[front[i]] \ left[front[i]]
               PROVE  w \in Done(seen, stack) \cup {top} \/ (i < n - 1 /\ w = front[i + 1])
    BY <1>3, <1>4 DEF Followed
  <2>2. i \in 1..n /\ front[i] = stack[i]
    BY <1>2, <1>3
  <2>3. w \in Done(seen, stack) \/ (i < n /\ w = stack[i + 1])
    BY <1>2, <2>1, <2>2 DEF Followed, n
  <2>4. CASE i + 1 = n
    BY <2>3, <2>4 DEF top
  <2>5. CASE i + 1 # n
    <3>1. i < n - 1 /\ i + 1 \in 1..(n - 1)
      BY <1>2, <2>5
    <3> QED
      BY <1>3, <2>3, <3>1
  <2> QED
    BY <2>4, <2>5
<1>7. ASSUME ~found PROVE Untouched(graph, Done(seen, front))
  <2>1. Followed(graph, seen, stack, left) /\ Untouched(graph, Done(seen, stack))
    BY <1>7 DEF Searching
  <2>2. graph[top] \subseteq Done(seen, stack)
    <3>1. n \in DOMAIN stack /\ ~(n < Len(stack))
      BY <1>2 DEF n
    <3>2. left[stack[n]] = {}
      BY DEF n
    <3>3. \A v \in graph[stack[n]] \ left[stack[n]] :
            v \in Done(seen, stack) \/ (n < Len(stack) /\ v = stack[n + 1])
      BY <2>1, <3>1 DEF Followed
    <3> QED
      BY <3>1, <3>2, <3>3 DEF top
  <2> QED
    BY <1>2, <1>4, <2>1, <2>2, LeavesUntouched
<1>8. Searching(graph, seen, front, left, found)
  BY <1>5, <1>6, <1>7 DEF Searching
<1> QED
  BY <1>8 DEF front

(* It ends when every caller was seen.                                      *)
LEMMA SearchDone ==
  ASSUME NEW graph, NEW seen, NEW left, NEW found, Searching(graph, seen, <<>>, left, found),
         {u \in Funcs : graph[u] # {}} \subseteq seen
  PROVE  found <=> HasCycle(graph)
<1>1. ASSUME HasCycle(graph), ~found PROVE FALSE
  <2>1. PICK k \in 1..Cardinality(Funcs) : Around(graph, k) # {}
    BY <1>1 DEF HasCycle
  <2>2. PICK path : path \in Around(graph, k)
    BY <2>1
  <2>3. k \in Nat \ {0} /\ k \in 1..k
    BY FS_CardinalityType, JudgingAssumption
  <2>4. path[k] \in Funcs /\ graph[path[k]] # {}
    BY <2>2, <2>3 DEF Around
  <2>5. path[k] \in Done(seen, <<>>)
    BY <2>4 DEF Done, ToSet
  <2>6. Untouched(graph, Done(seen, <<>>))
    BY <1>1 DEF Searching
  <2> QED
    BY <2>2, <2>3, <2>5, <2>6 DEF Untouched
<1> QED
  BY <1>1 DEF Searching

-----------------------------------------------------------------------------
(* The steps of the program.  Only the analysis changes its record.         *)
LEMMA AnalysisAlone ==
  ASSUME JudgingInv, [Next]_vars, ~Analysis
  PROVE  analysis' = analysis
<1>1. CASE Submit \/ Prepare \/ PrepareFails \/ StartCases
  BY <1>1 DEF Submit, Prepare, PrepareFails, StartCases
<1>2. ASSUME NEW t \in tools, ToolStep(t) PROVE analysis' = analysis
  BY <1>2 DEF ToolStep, Build, BuildFails, Compile, ToolDies, CollectAndSend, FinishSend
<1>3. ASSUME NEW t \in cases, CaseStep(t) \/ Orchestrate(t) \/ Act(t) \/ CutTalk(t)
      PROVE  analysis' = analysis
  BY <1>3, CaseFrame
<1>4. ASSUME NEW c \in closing, CloserStep(c) PROVE analysis' = analysis
  BY <1>4 DEF CloserStep, Parse, AssertionFails, Score, Report, ReportFails, UploadAll, Forget,
     CleanUp, Closing
<1>5. CASE UNCHANGED vars
  BY <1>5 DEF vars
<1> QED
  BY <1>1, <1>2, <1>3, <1>4, <1>5 DEF Next, Case, Over

(* No calls, no recursion.                                                  *)
LEMMA NoCallsNoCycle == ~HasCycle(NoCalls)
<1> SUFFICES ASSUME NEW k \in 1..Cardinality(Funcs), NEW path \in Around(NoCalls, k)
             PROVE  FALSE
  BY DEF HasCycle
<1>1. k \in 1..k
  BY FS_CardinalityType, JudgingAssumption
<1> QED
  BY <1>1 DEF Around, NoCalls

(* The search.                                                              *)
LEMMA SearchStep ==
  ASSUME JudgingInv, SearchInv, DetectCycles
  PROVE  SearchInv'
<1>1. /\ analysis \in AnalysisRec /\ analysis.pc = "search"
      /\ Searching(analysis.graph, analysis.seen, analysis.stack, analysis.left, analysis.found)
  BY DEF JudgingInv, Globals, SearchInv, DetectCycles
<1>2. CASE \E u \in Funcs : Enter(u)
  <2>1. PICK u \in Funcs : Enter(u)
    BY <1>2
  <2>2. /\ analysis'.pc = "search" /\ analysis'.graph = analysis.graph
        /\ analysis'.left = analysis.left /\ analysis'.found = analysis.found
        /\ analysis'.seen = analysis.seen \cup {u} /\ analysis'.stack = <<u>>
        /\ u \notin analysis.seen /\ analysis.stack = <<>>
    BY <1>1, <2>1 DEF Enter, AnalysisRec
  <2>3. Searching(analysis.graph, analysis.seen \cup {u}, <<u>>, analysis.left, analysis.found)
    BY <1>1, <2>2, SearchEnters
  <2> QED
    BY <2>2, <2>3 DEF SearchInv, RecursionFound
<1>3. CASE analysis.stack # <<>> /\ \E v \in analysis.left[Inside] : Follow(v)
  <2>1. PICK v \in analysis.left[Inside] : Follow(v)
    BY <1>3
  <2>2. analysis.left \in [Funcs -> SUBSET Funcs] /\ analysis.found \in BOOLEAN
    BY <1>1 DEF Searching, OnChain
  <2>3. /\ analysis'.pc = "search" /\ analysis'.graph = analysis.graph
        /\ analysis'.left = [analysis.left EXCEPT ![Inside] = analysis.left[Inside] \ {v}]
        /\ analysis'.seen = analysis.seen \cup {v}
        /\ analysis'.stack = IF v \in analysis.seen THEN analysis.stack
                                                    ELSE Append(analysis.stack, v)
        /\ analysis'.found = (analysis.found \/ (v \in analysis.seen /\ OnStack(v)))
    BY <1>1, <2>1 DEF Follow, AnalysisRec
  <2>4. CASE v \in analysis.seen
    <3>1. /\ analysis'.seen = analysis.seen /\ analysis'.stack = analysis.stack
          /\ analysis'.found = (analysis.found \/ v \in ToSet(analysis.stack))
      BY <2>3, <2>4 DEF OnStack
    <3>2. Searching(analysis.graph, analysis.seen, analysis.stack,
                    [analysis.left EXCEPT ![Inside] = analysis.left[Inside] \ {v}],
                    analysis.found \/ v \in ToSet(analysis.stack))
      BY <1>1, <1>3, <2>1, <2>4, SearchMeets DEF Inside
    <3> QED
      BY <2>3, <3>1, <3>2 DEF SearchInv, RecursionFound
  <2>5. CASE v \notin analysis.seen
    <3>1. analysis'.stack = Append(analysis.stack, v) /\ analysis'.found = analysis.found
      BY <2>2, <2>3, <2>5
    <3>2. Searching(analysis.graph, analysis.seen \cup {v}, Append(analysis.stack, v),
                    [analysis.left EXCEPT ![Inside] = analysis.left[Inside] \ {v}],
                    analysis.found)
      BY <1>1, <1>3, <2>1, <2>5, SearchDescends DEF Inside
    <3> QED
      BY <2>3, <3>1, <3>2 DEF SearchInv, RecursionFound
  <2> QED
    BY <2>4, <2>5
<1>4. CASE analysis.stack # <<>> /\ Leave
  <2>1. /\ analysis'.pc = "search" /\ analysis'.graph = analysis.graph
        /\ analysis'.left = analysis.left /\ analysis'.found = analysis.found
        /\ analysis'.seen = analysis.seen /\ analysis'.stack = Front(analysis.stack)
        /\ analysis.left[Inside] = {}
    BY <1>1, <1>4 DEF Leave, AnalysisRec
  <2>2. Searching(analysis.graph, analysis.seen, Front(analysis.stack), analysis.left,
                  analysis.found)
    BY <1>1, <1>4, <2>1, SearchLeaves DEF Inside
  <2> QED
    BY <2>1, <2>2 DEF SearchInv, RecursionFound
<1>5. CASE SearchEnds
  <2>1. /\ analysis'.pc = "visit" /\ analysis'.graph = analysis.graph
        /\ analysis'.found = analysis.found /\ analysis'.seen = {} /\ analysis'.stack = <<>>
        /\ analysis.stack = <<>> /\ Callers \subseteq analysis.seen
    BY <1>1, <1>5 DEF SearchEnds, AnalysisRec
  <2>2. analysis.found <=> HasCycle(analysis.graph)
    BY <1>1, <2>1, SearchDone DEF Callers
  <2> QED
    BY <2>1, <2>2 DEF SearchInv, RecursionFound
<1> QED
  BY <1>2, <1>3, <1>4, <1>5 DEF DetectCycles

(* The rest of the analysis.                                                *)
LEMMA AnalysisSearch ==
  ASSUME JudgingInv, SearchInv, Analysis
  PROVE  SearchInv'
<1>1. analysis \in AnalysisRec
  BY DEF JudgingInv, Globals
<1>2. ASSUME NEW pc \in {"none", "skipped", "passed", "failed"}, NEW files,
             AnalysisDone(pc, files)
      PROVE  SearchInv'
  BY <1>2 DEF AnalysisDone, NoAnalysis, SearchInv, RecursionFound
<1>3. CASE NoRules \/ FetchRaises \/ SkipAnalysis \/ SyntaxError \/ CheckItems
  BY <1>2, <1>3 DEF NoRules, FetchRaises, SkipAnalysis, SyntaxError, CheckItems, Pass, Fail
<1>4. CASE FetchRules
  <2>1. PICK r, w : analysis' = [NoAnalysis EXCEPT !.pc = "files", !.rules = r, !.white = w]
    BY <1>4 DEF FetchRules
  <2> QED
    BY <2>1 DEF NoAnalysis, SearchInv, RecursionFound
<1>5. CASE ChooseSources
  <2>1. CASE Fail({})
    BY <1>2, <2>1 DEF Fail
  <2>2. CASE ~Fail({})
    <3>1. PICK files : analysis' = [analysis EXCEPT !.pc = "visit", !.files = files, !.todo = files]
      BY <1>5, <2>2 DEF ChooseSources
    <3>2. /\ analysis'.pc = "visit" /\ analysis'.graph = analysis.graph
          /\ analysis'.found = analysis.found /\ analysis'.seen = analysis.seen
          /\ analysis'.stack = analysis.stack
      BY <1>1, <3>1 DEF AnalysisRec
    <3>3. /\ analysis.graph = NoCalls /\ analysis.found = FALSE
          /\ analysis.seen = {} /\ analysis.stack = <<>>
      BY <1>5 DEF ChooseSources, SearchInv
    <3> QED
      BY <3>2, <3>3, NoCallsNoCycle DEF SearchInv, RecursionFound
  <2> QED
    BY <2>1, <2>2
<1>6. CASE VisitFile
  <2>1. PICK f \in analysis.todo, graph \in [Funcs -> SUBSET Funcs], calls \in SUBSET Calls :
          analysis' = [analysis EXCEPT !.pc = "search", !.todo = analysis.todo \ {f},
                                       !.graph = graph, !.left = graph, !.found = FALSE,
                                       !.facts = analysis.facts \cup calls]
    BY <1>6 DEF VisitFile
  <2>2. /\ analysis'.pc = "search" /\ analysis'.graph = graph /\ analysis'.left = graph
        /\ analysis'.found = FALSE /\ analysis'.seen = analysis.seen
        /\ analysis'.stack = analysis.stack
    BY <1>1, <2>1 DEF AnalysisRec
  <2>3. analysis.seen = {} /\ analysis.stack = <<>>
    BY <1>6 DEF VisitFile, SearchInv
  <2> QED
    BY <2>2, <2>3, SearchBegins DEF SearchInv, RecursionFound
<1>7. CASE DetectCycles
  BY <1>7, SearchStep
<1> QED
  BY <1>3, <1>4, <1>5, <1>6, <1>7 DEF Analysis

(* Recursion is reported exactly of the files with calls that lead around,  *)
(* whatever the call graph and the order in which it is searched            *)
(* (Judging.RecursionFound).                                                *)
THEOREM RecursionSeen == Spec => []RecursionFound
<1>1. Init => SearchInv
  BY DEF Init, NoAnalysis, SearchInv, RecursionFound
<1>2. JudgingInv /\ SearchInv /\ [Next]_vars => SearchInv'
  <2> SUFFICES ASSUME JudgingInv, SearchInv, [Next]_vars, ~Analysis PROVE SearchInv'
    BY AnalysisSearch
  <2>1. analysis' = analysis
    BY AnalysisAlone
  <2> QED
    BY <2>1 DEF SearchInv, RecursionFound
<1>3. SearchInv => RecursionFound
  BY DEF SearchInv
<1> QED
  BY <1>1, <1>2, <1>3, SpecJudging, PTL DEF Spec
=============================================================================
