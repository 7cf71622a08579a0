------------------------------- MODULE Judging -------------------------------
(***************************************************************************)
(* One submission id from its acceptance to its report, with a rejudge:    *)
(* the start of the case threads, on_submission_complete with the custom   *)
(* scorer, release(), the composition with the other modules, and the      *)
(* properties.                                                             *)
(***************************************************************************)
EXTENDS CaseJudging

(* run(): a case is started once the build is over and the program there.   *)
StartCases ==
  /\ stage = "work"
  /\ \A t \in tools : ~(t.job = "build" /\ t.att = att /\ t.pc = "work")
  /\ prebuilt \/ problem.py \/ compiled # "none"
  /\ stage' = "cases"
  /\ cases' = cases \cup {NewCase(n) : n \in CaseIds}
  /\ UNCHANGED <<problem, att, results, info, disk, built, analysis, tools, orch,
                 boxes, store, closing, hist>>

-----------------------------------------------------------------------------
(* on_submission_complete, c being the thread inside it.                    *)
Step(c, d)  == closing' = (closing \ {c}) \cup {d}
ScoreBox(c) == Box("score", c.att, <<0, 0>>)
Closing == UNCHANGED <<problem, att, analysis, tools, orch, hist>>

(* The case numbers must be 0, 1, ... without a gap, and so must the tasks  *)
(* that have cases.                                                         *)
Gapless == \A i \in 2..Len(problem.tasks) : problem.tasks[i] > 0 => problem.tasks[i - 1] > 0

Parse(c) ==
  /\ c.pc = "parse" /\ Gapless
  /\ Step(c, [c EXCEPT !.pc = IF problem.scorer THEN "score" ELSE "put"])
  /\ boxes' = IF problem.scorer THEN boxes \cup {ScoreBox(c)} ELSE boxes
  /\ UNCHANGED <<stage, results, info, disk, built, cases, store>>
  /\ Closing

(* An assertion fails, in the thread of the last case or of the dispatcher; *)
(* the id stays registered.                                                 *)
AssertionFails(c) ==
  /\ c.pc = "parse" /\ ~Gapless
  /\ closing' = closing \ {c}
  /\ cases' = {t \in cases : t.pc # "closing"}
  /\ died' = TRUE
  /\ UNCHANGED <<reg, disk, built, analysis, tools, orch, boxes, store, overlap, refused>>

(* The custom scorer: whatever fails makes the submission JE, and a score   *)
(* of 0; a container that cannot be removed stays.                          *)
Score(c) ==
  /\ c.pc = "score"
  /\ Step(c, [c EXCEPT !.pc = "put"])
  /\ \E left \in SUBSET {ScoreBox(c)} :
       boxes' = (boxes \ {ScoreBox(c)}) \cup left /\ refused' = refused \cup left
  /\ UNCHANGED <<stage, results, info, disk, built, cases, store, overlap, died>>
  /\ UNCHANGED <<problem, att, analysis, tools, orch>>

(* The report arrives: the program is collected, if that was not done, and  *)
(* upload_all begins.                                                       *)
Report(c) ==
  /\ c.pc = "put"
  /\ LET kept == IF problem.binary THEN Collected ELSE collector IN
     /\ collector' = kept
     /\ Step(c, [c EXCEPT !.pc = "upload", !.data = kept.binary])
  /\ UNCHANGED <<stage, results, info, disk, built, cases, boxes, uploads>>
  /\ Closing

(* It does not: the files go to the backup directory.                       *)
ReportFails(c) ==
  /\ c.pc = "put"
  /\ Step(c, [c EXCEPT !.pc = "forget"])
  /\ home' = 0 /\ src' = NoFiles /\ teacher' = FALSE
  /\ UNCHANGED <<stage, results, info, built, cases, boxes, store>>
  /\ Closing

(* upload_all: the cases first, until the total grows too large; then the   *)
(* program.  The submission directory is removed.                           *)
UploadAll(c) ==
  /\ c.pc = "upload"
  /\ LET program == BinaryUploads(c.att, c.data) IN
     \E sent \in SUBSET (CaseUploads(c.att) \cup program) :
       /\ uploads' = uploads \cup sent
       /\ collector' = [collector EXCEPT !.sent = @ \/ sent \cap program # {}]
       /\ Step(c, [c EXCEPT !.pc = "forget", !.over = ~(program \subseteq sent)])
  /\ home' = 0 /\ src' = NoFiles /\ teacher' = FALSE
  /\ UNCHANGED <<stage, results, info, built, cases, boxes>>
  /\ Closing

(* release(): the id is free for a rejudge,                                 *)
Forget(c) ==
  /\ c.pc = "forget"
  /\ stage' = "idle" /\ results' = Unjudged
  /\ compiled' = "none" /\ prebuilt' = FALSE
  /\ Step(c, [c EXCEPT !.pc = "cleanup"])
  /\ UNCHANGED <<info, disk, cases, boxes, store>>
  /\ Closing

(* and after the slow clean-up of its network the checker's information and *)
(* the artifacts of the id go, whoever's they are by then.                  *)
CleanUp(c) ==
  /\ c.pc = "cleanup"
  /\ info' = "none"
  /\ collector' = Forgotten
  /\ closing' = closing \ {c}
  /\ overlap' = (overlap \/ tools # {})
  /\ UNCHANGED <<problem, att, stage, results, disk, built, analysis, tools, cases,
                 orch, boxes, uploads, refused, died>>

CloserStep(c) ==
  Parse(c) \/ AssertionFails(c) \/ Score(c) \/ Report(c) \/ ReportFails(c)
    \/ UploadAll(c) \/ Forget(c) \/ CleanUp(c)

-----------------------------------------------------------------------------
(* Nothing is left to do, or a thread died and took the rest with it, or    *)
(* the submission has no case.                                              *)
Over ==
  /\ tools = {} /\ cases = {} /\ closing = {}
  /\ stage = "idle" \/ died \/ CaseIds = {}
  /\ UNCHANGED vars

Case == \E t \in cases : CaseStep(t)
Orchestrate(t) == t.pc = "talk" /\ Conductor(t.id, t.prog # "none")
Act(t)         == t.pc = "talk" /\ Program(t.id)

Next ==
  \/ Submit \/ Prepare \/ PrepareFails \/ Analysis \/ StartCases
  \/ \E t \in tools : ToolStep(t)
  \/ Case
  \/ \E t \in cases : Orchestrate(t) \/ Act(t) \/ CutTalk(t)
  \/ \E c \in closing : CloserStep(c)
  \/ Over

(* The threads run, the orchestrators too, and Docker answers the waits     *)
(* that have a time limit.  make, and the programs inside an interactive    *)
(* container, may hang; ids need not be submitted.                          *)
Fairness ==
  /\ WF_vars(StartCases)
  /\ WF_vars(Case)
  /\ WF_vars(\E t \in cases : Orchestrate(t))
  /\ WF_vars(\E c \in closing : CloserStep(c))

Spec == Init /\ [][Next]_vars /\ Fairness

-----------------------------------------------------------------------------
(* Every variable holds values of its type.                                 *)
TypeOK ==
  /\ problem \in Problems /\ att \in 0..MaxAttempts
  /\ stage \in {"idle", "prepare", "rules", "analysis", "work", "cases", "closing"}
  /\ results \in [CaseIds -> Verdicts \cup {"none"}]
  /\ info \in {"none", "ready", "error"}
  /\ home \in 0..att /\ src \in [Names -> {"none", "student", "staff", "judge"}]
  /\ teacher \in BOOLEAN /\ prebuilt \in BOOLEAN
  /\ compiled \in {"none", "AC", "CE", "JE"}
  /\ \A t \in tools : t.job \in {"build", "compile"} /\ t.att \in Attempts
                        /\ t.pc \in {"work", "collect", "send"}
  /\ \A t \in cases : t.att \in Attempts /\ t.id \in CaseIds
                        /\ t.v \in Verdicts \cup {"none"}
  /\ \A c \in closing : c.att \in Attempts /\ c.data \in 0..MaxAttempts
  /\ DOMAIN orch = CaseIds
  /\ collector.binary \in 0..MaxAttempts /\ collector.snaps \subseteq CaseIds
  /\ analysis.todo \subseteq analysis.files /\ analysis.files \subseteq Sources

(* A verdict says what was found out: AC means that the program ran to its  *)
(* end and printed the answer or satisfied the custom checker, or that both *)
(* interactive programs exited normally and the teacher's wrote AC; a mark  *)
(* of the sandbox is kept; WA and CE have their reason; and a case with no  *)
(* result of a run gets none of them (submission.py 183-193, dispatcher.py  *)
(* 1273-1320, interactive_orchestrator.py 533-560).                         *)
VerdictJust ==
  \A t \in cases :
    t.pc \in {"keep", "record", "sweep"} /\ Current(t.att) /\ ~overlap =>
      IF t.ran = "talked"
        THEN LET o == orch[t.id] IN
             /\ t.v \in {"AC", "WA"} =>
                  o.stu.res = "AC" /\ o.tea.res = "AC" /\ o.check = t.v
             /\ t.v \in Marks => t.v \in {o.stu.res, o.tea.res}
        ELSE /\ t.v = "AC" => IF t.use = "ready" THEN t.said = "AC" /\ t.ran \notin Marks
                                               ELSE t.ran = "match"
             /\ t.v = "WA" => t.said = "WA" \/ (t.use = "none" /\ t.ran = "differ")
             /\ t.v \in Marks => t.ran = t.v
             /\ t.v = "CE" => compiled = "CE" /\ t.ran = "none"
             /\ problem.short /\ t.v # "CE" => t.v = "JE"

(* A submission sends its own artifacts only: nothing an earlier attempt    *)
(* recorded, no program of one, and none of the judge's resource files that *)
(* the student's program wrote to (artifact_collector.py, dispatcher.py     *)
(* 1262, 1516, 735).                                                        *)
OwnUploads ==
  ~overlap => \A u \in uploads : u.kind # "resource" /\ u.of = u.by

(* A submission that was reported has sent its program, unless the upload   *)
(* at the end was tried and refused: one by the build or compile thread     *)
(* that failed is made again (artifact_collector.py 157-193).               *)
BinarySent ==
  \A c \in closing :
    c.pc = "forget" /\ ~overlap /\ ~c.over /\ c.data # 0 =>
      \E u \in uploads : u.kind = "binary" /\ u.by = c.att

(* Every container belongs to a thread that is going to remove it, but for  *)
(* those of which Docker refused to do what was asked (sandbox.py 156-187,  *)
(* interactive_runner.py 157-166, custom_checker_runner.py 80-99).          *)
ContainersGone ==
  \A b \in boxes \ refused :
    \/ \E t \in cases : t.att = b[2] /\ t.id = b[3]
                          /\ t.pc \in {"run", "talk", "checking"}
    \/ \E c \in closing : b = ScoreBox(c) /\ c.pc = "score"

(* Recursion is reported of exactly the files in which a function may reach *)
(* itself (static_analysis.py 920-949, 1059-1088).                          *)
RecursionFound ==
  analysis.pc = "visit" => (analysis.found <=> HasCycle(analysis.graph))

(* When a case runs and the problem's rules were applied, the code of the   *)
(* student that the build lays out is among the files that were analysed;   *)
(* of a ZIP with a Makefile, some of it (static_analysis.py 279-312,        *)
(* build_strategy.py 109-147).                                              *)
StudentScreened ==
  stage = "cases" /\ analysis.pc = "passed" =>
    LET mine == {f \in Sources : src[f] = "student"}
    IN IF problem.zip /\ src.makefile # "none"
         THEN analysis.files \cap mine # {}
         ELSE mine \subseteq analysis.files

(* A submission whose cases were started ends, unless a thread died or the  *)
(* tasks have a gap: the runs and the checker are waited for with a time    *)
(* limit, and the interactive programs with a deadline.                     *)
AttemptEnds ==
  stage = "cases" /\ CaseIds # {} ~> stage = "idle" \/ died
=============================================================================
