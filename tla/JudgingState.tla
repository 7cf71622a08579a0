---------------------------- MODULE JudgingState ----------------------------
(***************************************************************************)
(* What happens to one submission id between its acceptance and its        *)
(* report, seen from inside: the files the build strategy lays out, their  *)
(* static analysis, make or the compiler, the cases in their containers,   *)
(* the custom checker, the interactive orchestrator, the artifacts that    *)
(* are kept and sent.  Module Sandbox has the queue, the locks and many    *)
(* ids; here they are reduced to the order they enforce, and the id may be *)
(* judged a second time (a rejudge) while threads of the first time, its   *)
(* attempt, still run.                                                     *)
(*                                                                         *)
(*   BuildPlans      build_strategy.py, the build and compile threads      *)
(*   SourceAnalysis  static_analysis.py                                    *)
(*   Orchestrator    interactive_orchestrator.py                           *)
(*   CaseJudging     create_container, the runners, the custom checker     *)
(*   Judging         completion, the composition, the properties           *)
(***************************************************************************)
EXTENDS Naturals, Sequences, FiniteSets

CONSTANTS
  Problems,    \* the problems explored
  ZipUploads,  \* the sets of files a ZIP submission may consist of
  Funcs,       \* functions a source file may define and call
  MaxAttempts  \* bound: how often the id is judged

(* The files of src/common by the part they play: main.c, main.cpp or       *)
(* main.py; another source of the language; a source of another language;   *)
(* function.h or student_impl.py; the Makefile; the two executables.        *)
Names   == {"entry", "extra", "other", "impl", "makefile", "aout", "main"}
Sources == {"entry", "extra", "impl"}
NoFiles == [f \in Names |-> "none"]

(* What the code looks at in the meta.  An interactive problem is one whose *)
(* execution mode is INTERACTIVE and whose strategy is MAKE_INTERACTIVE;    *)
(* short says that its time limit is below 200 ms, again that it is         *)
(* rejudged; keep and binary are the two kinds of artifactCollection; tasks *)
(* has the number of cases of each task.  extract() refuses a ZIP for a     *)
(* function-only problem.                                                   *)
Problem ==
  {p \in [strategy : {"compile", "makeNormal", "makeInteractive", "functionOnly"},
          py : BOOLEAN, zip : BOOLEAN, rules : BOOLEAN, short : BOOLEAN,
          checker : {"none", "plain", "ai"}, scorer : BOOLEAN,
          keep : BOOLEAN, binary : BOOLEAN, teacherFirst : BOOLEAN,
          again : BOOLEAN, tasks : Seq(0..2)] :
     p.strategy = "functionOnly" => ~p.zip}

ASSUME JudgingAssumption ==
  /\ Problems \subseteq Problem
  /\ ZipUploads \subseteq SUBSET Names
  /\ IsFiniteSet(Funcs)
  /\ MaxAttempts \in Nat \ {0}

VARIABLES
  problem,   \* the problem, fixed
  att,       \* the latest attempt
  stage,     \* how far it is; "idle" when the id is not in Dispatcher.result
  results,   \* its verdicts
  info,      \* custom_checker_info of the id
  home,      \* the attempt whose files the submission directory holds
  src,       \* who made each file of src/common
  teacher,   \* teacher/common: the teacher's program is ready
  compiled,  \* compile_results
  prebuilt,  \* membership in prebuilt_submissions
  analysis,  \* the static analysis
  tools,     \* build and compile threads
  cases,     \* case threads
  orch,      \* the orchestrators of interactive cases
  boxes,     \* containers that exist
  collector, \* the ArtifactCollector's entries of the id
  closing,   \* threads inside on_submission_complete
  uploads,   \* history: what reached the backend's artifact endpoints
  overlap,   \* history: the id was judged again before every thread of the
             \* earlier attempt had ended, or its artifacts were dropped
             \* before its build or compile thread had
  refused,   \* history: containers for which Docker refused a call
  died       \* history: a thread ended with an exception

reg   == <<problem, att, stage, results, info>>
disk  == <<home, src, teacher>>
built == <<compiled, prebuilt>>
store == <<collector, uploads>>
hist  == <<overlap, refused, died>>
vars  == <<reg, disk, built, analysis, tools, cases, orch, boxes, store, closing,
           hist>>

Attempts == 1..MaxAttempts
Interactive == problem.strategy = "makeInteractive"

(* Case numbers "ttcc" as pairs.                                            *)
CaseIds ==
  {n \in (1..Len(problem.tasks)) \X (1..2) : n[2] <= problem.tasks[n[1]]}

Verdicts == {"AC", "WA", "CE", "TLE", "RE", "JE", "AE"}
Unjudged == [n \in CaseIds |-> "none"]

(* The id is in Dispatcher.result, and the attempt a put it there.          *)
Registered   == stage # "idle"
Current(a) == att = a /\ Registered

(* All cases get the verdict v, and the thread that found out completes the *)
(* submission: make_all_cases_result and on_submission_complete.            *)
Closer(a) == [att |-> a, pc |-> "parse", data |-> 0, over |-> FALSE]
FailAll(v) ==
  /\ results' = [n \in CaseIds |-> v]
  /\ closing' = closing \cup {Closer(att)}
  /\ stage' = "closing"

-----------------------------------------------------------------------------
NoCalls    == [u \in Funcs |-> {}]
NoAnalysis == [pc |-> "off", rules |-> {}, white |-> FALSE, files |-> {},
               todo |-> {}, graph |-> NoCalls, seen |-> {}, stack |-> <<>>,
               left |-> NoCalls, found |-> FALSE, facts |-> {}]

(* A container by what it is for, the attempt and the case.                 *)
Box(kind, a, n) == <<kind, a, n>>

NoArtifact == [att |-> 0, extra |-> FALSE]
NoStore == [snaps |-> {}, arts |-> [n \in CaseIds |-> NoArtifact],
            binary |-> 0, sent |-> FALSE]

Idle(o) == o.pc = "off"
NoProc  == [st |-> "none", res |-> "none"]
NoOrch  == [pc |-> "off", try |-> 1, stu |-> NoProc, tea |-> NoProc,
            toTea |-> FALSE, toStu |-> FALSE, kick |-> FALSE, check |-> "none",
            verdict |-> "none"]

Init ==
  /\ problem \in Problems
  /\ att = 0 /\ stage = "idle" /\ results = Unjudged /\ info = "none"
  /\ home = 0 /\ src = NoFiles /\ teacher = FALSE
  /\ compiled = "none" /\ prebuilt = FALSE
  /\ analysis = NoAnalysis
  /\ tools = {} /\ cases = {} /\ closing = {}
  /\ orch = [n \in CaseIds |-> NoOrch]
  /\ boxes = {}
  /\ collector = NoStore /\ uploads = {}
  /\ overlap = FALSE /\ refused = {} /\ died = FALSE
=============================================================================
