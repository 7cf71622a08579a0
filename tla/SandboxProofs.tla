---------------------------- MODULE SandboxProofs ----------------------------
(***************************************************************************)
(* Theorems about the judge service that hold for every number of ids,     *)
(* requests, cases, HTTP threads, containers and every queue size, with    *)
(* expiring submissions and dying threads: types; nothing runs that was    *)
(* not analysed; no job is in two places and no case is started twice,     *)
(* whatever the dispatcher defers, requeues, puts back or releases;        *)
(* container_count is exact.  And no case that waits for its verdict is    *)
(* lost, unless its submission times out or a thread dies.                 *)
(***************************************************************************)
EXTENDS Sandbox, SequenceTheorems, FiniteSetTheorems, TLAPS

(* The dispatcher thread is inside at most one on_submission_complete, and  *)
(* then it does nothing else; while it has work, it holds a job.            *)
DispatcherOwnsOne ==
  /\ disp.pc \notin {"loop", "dead"} => disp.hand # <<>>
  /\ \A c \in completing : c.by.kind = "disp" => disp.pc = "report"
  /\ \A c, d \in completing : c.by.kind = "disp" /\ d.by.kind = "disp" => c = d

TypeInv == TypeOK /\ DispatcherOwnsOne

-----------------------------------------------------------------------------
(* Typing of the helpers.                                                   *)

(* Arithmetic on attempts, cases and directories, from the assumptions on   *)
(* the bounds.                                                              *)
LEMMA Numbers ==
  /\ Attempts \subseteq 0..MaxRequests /\ 0..MaxRequests \subseteq DirVals
  /\ NoDir \in DirVals /\ EmptyDir \in DirVals /\ 0 \notin Attempts
  /\ Attempts = 0..MaxRequests \ {0}
  /\ Cases \subseteq 0..MaxCases /\ 0 \in 0..MaxCases
  /\ 1 \in Attempts /\ 0 \in 0..MaxRequests /\ 0 \in DirVals
  /\ \A n \in 0..MaxRequests : n < MaxRequests => n + 1 \in Attempts
BY ConstantsAssumption DEF Attempts, Cases, DirVals, NoDir, EmptyDir

(* A job built from well-typed parts is a job.                              *)
LEMMA JobType ==
  ASSUME NEW k \in JobKinds, NEW s \in Sids, NEW c \in 0..MaxCases, NEW a \in Attempts
  PROVE  MkJob(k, s, c, a) \in Job
BY DEF MkJob, Job

(* A problem's cases are cases.                                             *)
LEMMA CasesType ==
  ASSUME TypeOK, NEW s \in Sids
  PROVE  prof[s].cases \in 0..MaxCases /\ AllCases(s) \subseteq Cases
BY ConstantsAssumption DEF TypeOK, Profile, AllCases, Cases

(* The jobs of a submission are well typed and its own.                     *)
LEMMA TasksType ==
  ASSUME TypeOK, NEW s \in Sids, NEW a \in Attempts
  PROVE  /\ TasksToRun(s, a) \in Seq(Job)
         /\ \A i \in 1..Len(TasksToRun(s, a)) : TasksToRun(s, a)[i].sid = s
<1> DEFINE first == IF prof[s].make THEN <<MkJob("build", s, 0, a)>>
                    ELSE IF prof[s].compiled THEN <<MkJob("compile", s, 0, a)>> ELSE <<>>
           n     == prof[s].cases
           cases == [c \in 1..n |-> MkJob("exec", s, c, a)]
           Mine  == {j \in Job : j.sid = s}
<1>1. \A k \in JobKinds, c \in 0..MaxCases : MkJob(k, s, c, a) \in Mine
  BY JobType DEF MkJob
<1>2. first \in Seq(Mine)
  <2>1. MkJob("build", s, 0, a) \in Mine /\ MkJob("compile", s, 0, a) \in Mine
    BY <1>1, ConstantsAssumption DEF JobKinds
  <2> HIDE DEF Mine
  <2> QED
    BY <2>1
<1>3. cases \in Seq(Mine)
  <2>1. n \in Nat /\ \A c \in 1..n : MkJob("exec", s, c, a) \in Mine
    BY <1>1, CasesType, ConstantsAssumption DEF JobKinds
  <2>2. cases \in [1..n -> Mine]
    BY <2>1
  <2> HIDE DEF cases, n, Mine
  <2> QED
    BY <2>1, <2>2, SeqDef
<1>4. TasksToRun(s, a) = first \o cases
  BY DEF TasksToRun, AllCases
<1> HIDE DEF first, cases
<1>5. first \o cases \in Seq(Mine)
  BY <1>2, <1>3, ConcatProperties
<1> QED
  BY <1>4, <1>5, SeqMonotonic, ElementOfSeq

(* What the type invariant says of one submission's context.                *)
LEMMA ContextsType ==
  ASSUME TypeOK, NEW s \in Sids
  PROVE  /\ ctx[s] \in Context
         /\ CommonDir(s) \in DirVals
         /\ Contains(s) => ctx[s].att \in Attempts
BY Numbers DEF TypeOK, Context, CommonDir, Contains

(* The absent context is well typed.                                        *)
LEMMA NoContextType == NoContext \in Context
BY Numbers DEF NoContext, Context, Blank

(* Setting one submission's context.                                        *)
LEMMA SetContext ==
  ASSUME TypeOK, NEW s \in Sids, NEW r \in Context, ctx' = [ctx EXCEPT ![s] = r]
  PROVE  ctx' \in [Sids -> Context]
BY DEF TypeOK

(* FailAll keeps the contexts well-typed and leaves an entry for s.         *)
LEMMA FailAllType ==
  ASSUME TypeOK, NEW s \in Sids, NEW a \in Attempts, NEW label \in DirVals,
         FailAll(s, a, label)
  PROVE  ctx' \in [Sids -> Context] /\ ctx'[s].att \in Attempts
<1> DEFINE rec == [c \in Cases |-> IF c \in AllCases(s) THEN label ELSE 0]
<1>1. rec \in [Cases -> DirVals]
  BY Numbers
<1>2. AllCases(s) \in SUBSET Cases
  BY CasesType
<1>3. ctx' = [ctx EXCEPT ![s] = [ctx[s] EXCEPT !.att = a, !.cases = AllCases(s),
                                               !.rec = rec]]
  BY DEF FailAll, TypeOK
<1> HIDE DEF rec
<1>4. [ctx[s] EXCEPT !.att = a, !.cases = AllCases(s), !.rec = rec] \in Context
  <2>1. ctx[s] \in Context
    BY ContextsType
  <2> QED
    BY <1>1, <1>2, <2>1, Numbers DEF Context
<1>5. ctx \in [Sids -> Context]
  BY DEF TypeOK
<1> HIDE DEF Context
<1>6. ctx' \in [Sids -> Context]
  BY <1>3, <1>4, <1>5
<1>7. ctx'[s].att = a
  BY <1>3, <1>5, ContextsType DEF Context
<1> QED
  BY <1>6, <1>7

(* The owners of a step: a job, a request's thread or the dispatcher's,     *)
(* each with its kind and submission.                                       *)
LEMMA OwnerType ==
  /\ \A j \in Job : j \in Owner /\ j.kind # "disp" /\ j.sid \in Sids
  /\ \A h \in Handler : /\ HttpThread(h) \in Owner
                        /\ HttpThread(h).kind = "http" /\ HttpThread(h).sid = h.sid
  /\ \A s \in Sids : /\ DispThread(s) \in Owner
                     /\ DispThread(s).kind = "disp" /\ DispThread(s).sid = s
BY Numbers DEF Job, JobKinds, Owner, Handler, HttpThread, DispThread, MkJob

(* A thread that starts to complete s adds one well-typed element.          *)
LEMMA CompleteType ==
  ASSUME TypeOK, NEW by \in Owner, NEW lk \in 0..MaxRequests, Complete(by, lk),
         ctx' \in [Sids -> Context], ctx'[by.sid].att \in Attempts
  PROVE  /\ completing' \subseteq Completion
         /\ \E c \in Completion : c.by = by /\ completing' = completing \cup {c}
<1> DEFINE s == by.sid
           c == [by |-> by, lk |-> lk, att |-> ctx'[s].att, cases |-> ctx'[s].cases,
                 rec |-> ctx'[s].rec, trial |-> s \in trials, pc |-> "put"]
<1>1. s \in Sids
  BY DEF Owner
<1>2. ctx'[s].cases \in SUBSET Cases /\ ctx'[s].rec \in [Cases -> DirVals]
  BY <1>1 DEF Context
<1>3. c \in Completion
  BY <1>1, <1>2 DEF Completion, CompletionPC
<1>4. completing' = completing \cup {c}
  BY DEF Complete
<1>5. completing \subseteq Completion
  BY DEF TypeOK
<1>6. c.by = by
  OBVIOUS
<1> HIDE DEF c
<1> QED
  BY <1>3, <1>4, <1>5, <1>6

-----------------------------------------------------------------------------
(* Typing of the steps.                                                     *)

(* A request that creates the directory, or finds a leftover one.           *)
LEMMA RequestTyping ==
  ASSUME TypeInv, NEW s \in Sids, CreateDir(s) \/ FindLeftover(s)
  PROVE  TypeInv'
<1> USE DEF TypeInv
<1>1. requests'[s] \in Attempts /\ requests' \in [Sids -> 0..MaxRequests]
  BY Numbers, ConstantsAssumption DEF TypeOK, CreateDir, FindLeftover
<1>2. \A pc \in HandlerPC : [sid |-> s, att |-> requests'[s], pc |-> pc] \in Handler
  BY <1>1 DEF Handler
<1>3. handlers' \subseteq Handler
  BY <1>2 DEF TypeOK, CreateDir, FindLeftover, Arrive, FirstPC, HandlerPC
<1>4. dirs' \in [Sids -> DirVals]
  BY <1>1, Numbers DEF TypeOK, CreateDir, FindLeftover, files
<1>5. TypeOK'
  BY <1>1, <1>3, <1>4 DEF TypeOK, CreateDir, FindLeftover, files
<1>6. DispatcherOwnsOne'
  BY DEF DispatcherOwnsOne, CreateDir, FindLeftover
<1> QED
  BY <1>5, <1>6

(* The token of a submission expires.                                       *)
LEMMA ExpireTyping ==
  ASSUME TypeInv, NEW s \in Sids, Expire(s)
  PROVE  TypeInv'
<1> USE DEF TypeInv
<1>1. ctx' \in [Sids -> Context]
  <2> DEFINE r == [ctx[s] EXCEPT !.expired = TRUE]
  <2>1. r \in Context
    BY ContextsType DEF Context
  <2>2. ctx' = [ctx EXCEPT ![s] = r]
    BY DEF Expire, TypeOK
  <2> HIDE DEF r
  <2> QED
    BY <2>1, <2>2, SetContext
<1>2. TypeOK'
  BY <1>1 DEF TypeOK, Expire, files, ghost
<1>3. DispatcherOwnsOne'
  BY DEF DispatcherOwnsOne, Expire
<1> QED
  BY <1>2, <1>3

(* A step of dispatcher.handle.                                             *)
LEMMA HandlerTyping ==
  ASSUME TypeInv, NEW h \in handlers, HandlerStep(h)
  PROVE  TypeInv'
<1> USE DEF TypeInv
<1> DEFINE s == h.sid
<1>1. s \in Sids /\ h \in Handler /\ h.att \in Attempts
  BY DEF TypeOK, Handler
<1>2. \A pc \in HandlerPC : [h EXCEPT !.pc = pc] \in Handler
  BY <1>1 DEF Handler
<1>3. \A pc \in HandlerPC : Goto(h, pc) => handlers' \subseteq Handler
  BY <1>2 DEF TypeOK, Goto
<1>4. Leave(h) => handlers' \subseteq Handler
  BY DEF TypeOK, Leave
<1>5. /\ ForgetContext(s) => ctx' \in [Sids -> Context]
      /\ ForgetCustom(s) => custom' \subseteq Sids
  BY <1>1, NoContextType DEF TypeOK, ForgetContext, ForgetCustom
<1> USE <1>1, <1>3, <1>4, <1>5 DEF HandlerPC
<1>6. CASE ForgetLeftover(h)
  BY <1>6 DEF ForgetLeftover, TypeOK, DispatcherOwnsOne, files, ghost
<1>7. CASE WipeLeftover(h)
  BY <1>7, Numbers DEF WipeLeftover, TypeOK, DispatcherOwnsOne, ghost
<1>8. CASE CreateAgain(h)
  BY <1>8, Numbers DEF CreateAgain, FirstPC, TypeOK, DispatcherOwnsOne, ghost
<1>9. CASE MarkTrial(h)
  BY <1>9 DEF MarkTrial, TypeOK, DispatcherOwnsOne, files, ghost
<1>10. CASE CheckRequest(h)
  BY <1>10 DEF CheckRequest, TypeOK, DispatcherOwnsOne, files, ghost
<1>11. CASE FailRequest(h)
  <2>1. ctx' \in [Sids -> Context] /\ ctx'[s].att \in Attempts
    BY <1>11, FailAllType, Numbers DEF FailRequest
  <2>2. PICK c \in Completion : c.by = HttpThread(h) /\ completing' = completing \cup {c}
    BY <1>11, <2>1, CompleteType, OwnerType, Numbers DEF FailRequest
  <2>3. TypeOK'
    BY <1>11, <2>1, <2>2 DEF FailRequest, TypeOK, files, ghost
  <2>4. DispatcherOwnsOne'
    BY <1>11, <2>2, OwnerType DEF FailRequest, DispatcherOwnsOne
  <2> QED
    BY <2>3, <2>4
<1>12. CASE Register(h)
  <2>1. ctx' \in [Sids -> Context]
    <3> DEFINE r == [ctx[s] EXCEPT !.att = h.att, !.cases = {}, !.rec = Blank,
                                   !.lock = h.att, !.expired = FALSE]
    <3>0. /\ ctx[s] \in Context /\ Blank \in [Cases -> DirVals]
          /\ h.att \in 0..MaxRequests
      BY ContextsType, Numbers DEF Blank
    <3>1. r \in Context
      BY <3>0 DEF Context
    <3>2. ctx' = [ctx EXCEPT ![s] = r]
      BY <1>12 DEF Register, TypeOK
    <3> HIDE DEF r
    <3> QED
      BY <3>1, <3>2, SetContext
  <2> QED
    BY <1>12, <2>1 DEF Register, TypeOK, DispatcherOwnsOne, files, ghost
<1>13. CASE PlanTasks(h)
  <2>1. ctx' \in [Sids -> Context]
    <3> DEFINE p == prof[s]
               r == [ctx[s] EXCEPT
                       !.plan = IF p.make THEN h.att ELSE @,
                       !.prebuilt = @ \/ (~p.make /\ ~p.compiled),
                       !.cases = IF ctx[s].att = h.att THEN AllCases(s) ELSE @,
                       !.pending = TasksToRun(s, h.att)]
    <3>0. ctx[s] \in Context /\ h.att \in 0..MaxRequests
      BY ContextsType, Numbers
    <3>a. (IF p.make THEN h.att ELSE ctx[s].plan) \in 0..MaxRequests
      BY <3>0 DEF Context
    <3>b. (ctx[s].prebuilt \/ (~p.make /\ ~p.compiled)) \in BOOLEAN
      OBVIOUS
    <3>c. (IF ctx[s].att = h.att THEN AllCases(s) ELSE ctx[s].cases) \in SUBSET Cases
      BY <3>0, CasesType DEF Context
    <3>d. TasksToRun(s, h.att) \in Seq(Job)
      BY TasksType
    <3>1. r \in Context
      BY <3>0, <3>a, <3>b, <3>c, <3>d DEF Context
    <3>2. ctx' = [ctx EXCEPT ![s] = r]
      BY <1>13 DEF PlanTasks, TypeOK
    <3> HIDE DEF r
    <3> QED
      BY <3>1, <3>2, SetContext
  <2> QED
    BY <1>13, <2>1 DEF PlanTasks, TypeOK, DispatcherOwnsOne, files, ghost
<1>14. CASE Enqueue(h)
  <2>1. FirstJob(h) \in Job
    BY JobType, Numbers DEF FirstJob, JobKinds
  <2>2. queue' \in Seq(Job)
    BY <1>14, <2>1, AppendProperties DEF Enqueue, TypeOK
  <2> QED
    BY <1>14, <2>2 DEF Enqueue, TypeOK, DispatcherOwnsOne, files
<1>15. CASE RejectFull(h)
  BY <1>15 DEF RejectFull, TypeOK, DispatcherOwnsOne, files, ghost
<1>16. CASE UnwindRequest(h)
  BY <1>16 DEF UnwindRequest, TypeOK, DispatcherOwnsOne, files, ghost
<1> QED
  BY <1>6, <1>7, <1>8, <1>9, <1>10, <1>11, <1>12, <1>13, <1>14, <1>15, <1>16
     DEF HandlerStep

(* A step of a completing thread.                                           *)
LEMMA CompletionTyping ==
  ASSUME TypeInv, NEW c \in completing, CompletionStep(c)
  PROVE  TypeInv'
<1> USE DEF TypeInv
<1> DEFINE s == c.by.sid
<1>1. c \in Completion /\ c.by \in Owner /\ s \in Sids /\ c.att \in Attempts
  BY DEF TypeOK, Completion, Owner
<1>2. ASSUME NEW pc \in CompletionPC, Move(c, pc)
      PROVE  /\ completing' \subseteq Completion
             /\ UNCHANGED disp => DispatcherOwnsOne'
  <2> DEFINE d == [c EXCEPT !.pc = pc]
  <2>1. d \in Completion /\ d.by = c.by
    BY <1>1 DEF Completion
  <2>2. completing' = (completing \ {c}) \cup {d}
    BY <1>2 DEF Move
  <2> HIDE DEF d
  <2> QED
    BY <2>1, <2>2 DEF TypeOK, DispatcherOwnsOne
<1>3. CASE PutResult(c)
  <2>1. CountReport(c) => reports' \in [Sids -> [Attempts -> 0..2]]
    <3> DEFINE n == reports[s][c.att]
               m == IF n < 2 THEN n + 1 ELSE 2
               r == [reports[s] EXCEPT ![c.att] = m]
    <3>0. reports[s] \in [Attempts -> 0..2] /\ n \in 0..2 /\ m \in 0..2
      BY <1>1 DEF TypeOK
    <3>1. r \in [Attempts -> 0..2]
      BY <1>1, <3>0
    <3>2. CountReport(c) => reports' = [reports EXCEPT ![s] = r]
      BY <1>1, <3>0 DEF CountReport, TypeOK
    <3> HIDE DEF r
    <3> QED
      BY <1>1, <3>1, <3>2 DEF TypeOK
  <2> QED
    BY <1>2, <1>3, <2>1 DEF PutResult, TypeOK, CompletionPC, files
<1>4. CASE CleanData(c)
  <2>1. dirs' \in [Sids -> DirVals]
    BY <1>1, <1>4, Numbers DEF CleanData, TypeOK
  <2> QED
    BY <1>2, <1>4, <2>1 DEF CleanData, TypeOK, CompletionPC, ghost
<1>5. CASE BackupData(c)
  <2>1. dirs' \in [Sids -> DirVals] /\ backups' \subseteq (Sids \X DirVals)
    BY <1>1, <1>5, Numbers DEF BackupData, TypeOK
  <2> QED
    BY <1>2, <1>5, <2>1 DEF BackupData, TypeOK, CompletionPC, ghost
<1>6. CASE ReleaseContext(c)
  <2>1. ctx' \in [Sids -> Context]
    BY <1>1, <1>6, NoContextType, SetContext DEF ReleaseContext, ForgetContext
  <2> QED
    BY <1>2, <1>6, <2>1 DEF ReleaseContext, TypeOK, CompletionPC, files, ghost
<1>7. CASE ReleaseCustom(c)
  <2>1. disp' \in [pc : DispPC, hand : Seq(Job), fatal : BOOLEAN]
    BY <1>7, EmptySeq DEF ReleaseCustom, AfterCompletion, TypeOK, DispPC
  <2>2. TypeOK'
    BY <1>7, <2>1 DEF ReleaseCustom, ForgetCustom, TypeOK, files, ghost
  <2>3. DispatcherOwnsOne'
    BY <1>7 DEF ReleaseCustom, AfterCompletion, DispatcherOwnsOne, TypeOK
  <2> QED
    BY <2>2, <2>3
<1> QED
  BY <1>3, <1>4, <1>5, <1>6, <1>7 DEF CompletionStep

(* A step of a build, compile or case thread.                               *)
LEMMA WorkerTyping ==
  ASSUME TypeInv, NEW w \in workers, WorkerStep(w)
  PROVE  TypeInv'
<1> USE DEF TypeInv
<1> DEFINE s == w.job.sid
<1>1. /\ w \in Worker /\ w.job \in Job /\ s \in Sids /\ w.job.case \in 0..MaxCases
      /\ w.src \in DirVals /\ w.lk \in 0..MaxRequests /\ w.back \in Seq(Job)
  BY DEF TypeOK, Worker, Job
<1>2. /\ Die(w) => workers' \subseteq Worker
      /\ \A v \in Worker : Step(w, v) => workers' \subseteq Worker
  BY DEF TypeOK, Die, Step
<1>3. /\ ctx[s] \in Context /\ ctx[s].lock \in 0..MaxRequests
      /\ ctx[s].plan \in 0..MaxRequests
  BY <1>1, ContextsType DEF Context
<1>4. [dirs EXCEPT ![s] = CommonDir(s)] \in [Sids -> DirVals]
  BY <1>1, ContextsType DEF TypeOK
<1>5. \A pc \in WorkerPC : [w EXCEPT !.pc = pc] \in Worker
  BY <1>1 DEF Worker
<1>6. \A pc \in WorkerPC, lk \in 0..MaxRequests, f \in DirVals :
        [w EXCEPT !.pc = pc, !.lk = lk, !.src = f] \in Worker
  BY <1>1 DEF Worker
<1>7. ASSUME NEW label \in DirVals, MarkFailed(w, label)
      PROVE  /\ workers' \subseteq Worker
             /\ ctx' \in [Sids -> Context]
             /\ completing' \subseteq Completion
             /\ UNCHANGED disp => DispatcherOwnsOne'
  <2>1. CASE Contains(s)
    <3>1. FailAll(s, ctx[s].att, label) /\ Complete(w.job, w.lk)
      BY <1>7, <2>1 DEF MarkFailed
    <3>2. ctx' \in [Sids -> Context] /\ ctx'[s].att \in Attempts
      BY <1>1, <2>1, <3>1, ContextsType, FailAllType
    <3>3. PICK c \in Completion : c.by = w.job /\ completing' = completing \cup {c}
      BY <1>1, <3>1, <3>2, CompleteType, OwnerType
    <3>4. workers' \subseteq Worker
      BY <1>2, <1>7 DEF MarkFailed
    <3> QED
      BY <1>1, <3>2, <3>3, <3>4, OwnerType DEF TypeOK, DispatcherOwnsOne
  <2>2. CASE ~Contains(s)
    BY <1>2, <1>7, <2>2 DEF MarkFailed, TypeOK, DispatcherOwnsOne
  <2> QED
    BY <2>1, <2>2
<1>8. CASE StartCompile(w)
  <2>1. workers' \subseteq Worker /\ dirs' \in [Sids -> DirVals]
    <3>1. [w EXCEPT !.pc = "busy", !.lk = ctx[s].lock, !.src = CommonDir(s)] \in Worker
      BY <1>1, <1>3, <1>6, ContextsType DEF WorkerPC
    <3> QED
      BY <1>2, <1>4, <1>8, <3>1 DEF StartCompile, TypeOK
  <2> QED
    BY <1>8, <2>1 DEF StartCompile, TypeOK, DispatcherOwnsOne, ghost
<1>9. CASE FinishCompile(w)
  <2>1. PICK status \in {"AC", "CE"} : ctx' = [ctx EXCEPT ![s].compiled = status]
    BY <1>9 DEF FinishCompile
  <2>2. ctx' \in [Sids -> Context]
    <3> DEFINE r == [ctx[s] EXCEPT !.compiled = status]
    <3>1. r \in Context
      BY <1>3 DEF Context
    <3>2. ctx' = [ctx EXCEPT ![s] = r]
      BY <2>1 DEF TypeOK
    <3> HIDE DEF r
    <3> QED
      BY <1>1, <3>1, <3>2, SetContext
  <2> QED
    BY <1>2, <1>9, <2>2 DEF FinishCompile, TypeOK, DispatcherOwnsOne, files, ghost
<1>10. CASE StartBuild(w)
  <2>1. workers' \subseteq Worker /\ dirs' \in [Sids -> DirVals]
    <3>1. [w EXCEPT !.pc = "busy", !.lk = ctx[s].plan, !.src = CommonDir(s)] \in Worker
      BY <1>1, <1>3, <1>6, ContextsType DEF WorkerPC
    <3> QED
      BY <1>2, <1>4, <1>10, <3>1 DEF StartBuild, TypeOK
  <2> QED
    BY <1>10, <2>1 DEF StartBuild, TypeOK, DispatcherOwnsOne, ghost
<1>11. ASSUME NEW built \in BOOLEAN, EndPlan(s, built)
       PROVE  ctx' \in [Sids -> Context]
  <2> DEFINE r == [ctx[s] EXCEPT !.prebuilt = built, !.plan = 0]
  <2>1. r \in Context
    BY <1>3, Numbers DEF Context
  <2>2. ctx' = [ctx EXCEPT ![s] = r]
    BY <1>11 DEF EndPlan, TypeOK
  <2> HIDE DEF r
  <2> QED
    BY <1>1, <2>1, <2>2, SetContext
<1>12. CASE FinishBuild(w)
  BY <1>2, <1>11, <1>12 DEF FinishBuild, TypeOK, DispatcherOwnsOne, files, ghost
<1>13. CASE FailBuild(w)
  BY <1>2, <1>5, <1>11, <1>13
     DEF FailBuild, WorkerPC, TypeOK, DispatcherOwnsOne, files, ghost
<1>14. CASE ClearJobs(w)
  <2>1. [w EXCEPT !.pc = "fail", !.back = queue] \in Worker
    BY <1>1 DEF Worker, WorkerPC, TypeOK
  <2> QED
    BY <1>2, <1>14, <2>1, EmptySeq
       DEF ClearJobs, TypeOK, DispatcherOwnsOne, files, ghost
<1>15. CASE PutBack(w)
  <2>1. PICK i \in OthersJobs(w) :
          /\ queue' = Append(queue, w.back[i])
          /\ Step(w, [w EXCEPT !.back = SubSeq(@, i + 1, Len(@))])
    BY <1>15 DEF PutBack
  <2>2. /\ Len(w.back) \in Nat /\ i \in 1..Len(w.back)
        /\ \A k \in 1..Len(w.back) : w.back[k] \in Job
    BY <1>1, LenProperties, ElementOfSeq DEF OthersJobs
  <2>3. queue' \in Seq(Job)
    BY <2>1, <2>2, AppendProperties DEF TypeOK
  <2>4. SubSeq(w.back, i + 1, Len(w.back)) \in Seq(Job)
    BY <2>2, SubSeqProperties
  <2>5. [w EXCEPT !.back = SubSeq(@, i + 1, Len(@))] \in Worker
    BY <1>1, <2>4 DEF Worker
  <2> QED
    BY <1>2, <1>15, <2>1, <2>3, <2>5 DEF PutBack, TypeOK, DispatcherOwnsOne, files, ghost
<1>16. CASE MarkBuildFailed(w)
  BY <1>1, <1>7, <1>16 DEF MarkBuildFailed, TypeOK, files, ghost
<1>17. CASE PrepareCase(w)
  <2>1. /\ [w EXCEPT !.pc = "busy", !.src = CommonDir(s)] \in Worker
        /\ [w EXCEPT !.pc = "record", !.src = CommonDir(s), !.lk = ctx[s].lock] \in Worker
    BY <1>1, <1>3, ContextsType DEF Worker, WorkerPC
  <2> QED
    BY <1>2, <1>4, <1>17, <2>1 DEF PrepareCase, TypeOK, DispatcherOwnsOne, ghost
<1>18. CASE NoTeacher(w)
  <2>1. ctx[s].att \in DirVals
    BY <1>3, Numbers DEF Context
  <2> QED
    BY <1>7, <1>18, <2>1 DEF NoTeacher, TypeOK, files, ghost
<1>19. CASE RunCase(w)
  BY <1>2, <1>5, <1>19 DEF RunCase, WorkerPC, TypeOK, DispatcherOwnsOne, files, ghost
<1>20. CASE EndRun(w)
  BY <1>2, <1>5, <1>20 DEF EndRun, WorkerPC, TypeOK, DispatcherOwnsOne, files, ghost
<1>21. CASE FetchLock(w)
  <2>1. [w EXCEPT !.pc = "record", !.lk = ctx[s].lock] \in Worker
    BY <1>1, <1>3 DEF Worker, WorkerPC
  <2> QED
    BY <1>2, <1>21, <2>1 DEF FetchLock, TypeOK, DispatcherOwnsOne, files, ghost
<1>22. CASE RecordCase(w)
  <2> DEFINE rec == [ctx[s].rec EXCEPT ![w.job.case] = w.src]
             r   == [ctx[s] EXCEPT !.rec = rec]
  <2>1. workers' \subseteq Worker
    BY <1>2, <1>22 DEF RecordCase
  <2>2. CASE Contains(s) /\ w.job.case \in ctx[s].cases
    <3>1. rec \in [Cases -> DirVals]
      BY <1>1, <1>3 DEF Context
    <3>2. r \in Context /\ r.att = ctx[s].att
      BY <1>3, <3>1 DEF Context
    <3>3. ctx' = [ctx EXCEPT ![s] = r]
      BY <1>22, <2>2 DEF RecordCase, TypeOK
    <3> HIDE DEF r
    <3>4. ctx' \in [Sids -> Context] /\ ctx'[s].att \in Attempts
      BY <1>1, <2>2, <3>2, <3>3, SetContext, ContextsType DEF TypeOK
    <3>5. UNCHANGED completing \/ Complete(w.job, w.lk)
      BY <1>22, <2>2 DEF RecordCase
    <3>6. CASE UNCHANGED completing
      BY <1>22, <2>1, <3>4, <3>6 DEF RecordCase, TypeOK, DispatcherOwnsOne, files, ghost
    <3>7. CASE Complete(w.job, w.lk)
      <4>1. PICK c \in Completion : c.by = w.job /\ completing' = completing \cup {c}
        BY <1>1, <3>4, <3>7, CompleteType, OwnerType
      <4> QED
        BY <1>1, <1>22, <2>1, <3>4, <4>1, OwnerType
           DEF RecordCase, TypeOK, DispatcherOwnsOne, files, ghost
    <3> QED
      BY <3>5, <3>6, <3>7
  <2>3. CASE ~(Contains(s) /\ w.job.case \in ctx[s].cases)
    BY <1>22, <2>1, <2>3 DEF RecordCase, TypeOK, DispatcherOwnsOne, files, ghost
  <2> QED
    BY <2>2, <2>3
<1>23. CASE RaiseInTool(w)
  BY <1>2, <1>23 DEF RaiseInTool, TypeOK, DispatcherOwnsOne, files, ghost
<1> QED
  BY <1>8, <1>9, <1>10, <1>12, <1>13, <1>14, <1>15, <1>16, <1>17, <1>18, <1>19,
     <1>20, <1>21, <1>22, <1>23 DEF WorkerStep

(* A step of the dispatcher's loop.                                         *)
LEMMA DispatcherTyping ==
  ASSUME TypeInv, DispatcherStep
  PROVE  TypeInv'
<1> USE DEF TypeInv
<1> DEFINE s == Cur.sid
<1>1. /\ disp \in [pc : DispPC, hand : Seq(Job), fatal : BOOLEAN]
      /\ queue \in Seq(Job) /\ disp.hand \in Seq(Job)
  BY DEF TypeOK
<1>2. disp.hand # <<>> => Cur \in Job /\ s \in Sids /\ Tail(disp.hand) \in Seq(Job)
  <2>1. disp.hand # <<>> => Cur \in Job /\ Tail(disp.hand) \in Seq(Job)
    BY <1>1, HeadTailProperties DEF Cur
  <2> QED
    BY <2>1 DEF Job
<1>3. queue # <<>> => Head(queue) \in Job /\ Tail(queue) \in Seq(Job)
  BY <1>1, HeadTailProperties
<1>4. \A j \in Job : <<j>> \in Seq(Job) /\ <<j>> # <<>>
  OBVIOUS
<1>5. ASSUME disp.pc # "report", Loop, UNCHANGED completing
      PROVE  /\ disp' \in [pc : DispPC, hand : Seq(Job), fatal : BOOLEAN]
             /\ DispatcherOwnsOne'
  BY <1>5, EmptySeq DEF Loop, DispPC, DispatcherOwnsOne
<1>6. ASSUME NEW pc \in DispPC, NEW hand \in Seq(Job), disp.pc # "report",
             hand # <<>> \/ pc = "dead", At(pc, hand), UNCHANGED completing
      PROVE  /\ disp' \in [pc : DispPC, hand : Seq(Job), fatal : BOOLEAN]
             /\ DispatcherOwnsOne'
  BY <1>1, <1>6 DEF At, DispatcherOwnsOne
<1>7. disp.pc \notin {"loop", "dead"} => disp.hand # <<>>
  BY DEF DispatcherOwnsOne
<1>8. \A w \in workers : w \in Worker
  BY DEF TypeOK
<1>9. \A j \in Job : MkWorker(j) \in Worker
  BY Numbers, EmptySeq DEF MkWorker, Worker, WorkerPC
<1>10. ASSUME disp.pc # "report", NEW label \in DirVals, NEW fatal \in BOOLEAN,
              disp.hand # <<>>, FailSubmission(label, fatal)
       PROVE  /\ disp' \in [pc : DispPC, hand : Seq(Job), fatal : BOOLEAN]
              /\ ctx' \in [Sids -> Context] /\ completing' \subseteq Completion
              /\ DispatcherOwnsOne'
  <2>1. CASE Contains(s)
    <3>1. /\ FailAll(s, ctx[s].att, label) /\ Complete(DispThread(s), 0)
          /\ disp' = [disp EXCEPT !.pc = "report", !.fatal = fatal]
      BY <1>10, <2>1 DEF FailSubmission
    <3>2. ctx' \in [Sids -> Context] /\ ctx'[s].att \in Attempts
      BY <1>2, <1>10, <2>1, <3>1, ContextsType, FailAllType
    <3>3. PICK c \in Completion : /\ c.by = DispThread(s)
                                  /\ completing' = completing \cup {c}
      BY <1>2, <1>10, <3>1, <3>2, CompleteType, OwnerType, Numbers
    <3>4. disp' \in [pc : DispPC, hand : Seq(Job), fatal : BOOLEAN]
      BY <1>1, <3>1 DEF DispPC
    <3>5. DispatcherOwnsOne'
      BY <1>1, <1>10, <3>1, <3>3 DEF DispatcherOwnsOne
    <3> QED
      BY <3>2, <3>3, <3>4, <3>5 DEF TypeOK
  <2>2. CASE ~Contains(s)
    BY <1>5, <1>10, <2>2 DEF FailSubmission, TypeOK
  <2> QED
    BY <2>1, <2>2
<1> HIDE DEF s
<1> USE DEF DispPC, others, files, ghost
<1>11. CASE TakeJob
  BY <1>3, <1>4, <1>5, <1>6, <1>11 DEF TakeJob, TypeOK
<1>12. CASE DropTimedOut
  BY <1>5, <1>12 DEF DropTimedOut, TypeOK
<1>13. CASE DeferTrial
  BY <1>1, <1>6, <1>7, <1>13 DEF DeferTrial, TypeOK
<1>14. CASE LoseDispatcher
  BY <1>6, <1>14, EmptySeq DEF LoseDispatcher, TypeOK
<1>15. CASE StartAnalysis
  BY <1>1, <1>6, <1>7, <1>15 DEF StartAnalysis, Ready, TypeOK
<1>16. CASE StartNetwork
  BY <1>1, <1>6, <1>7, <1>16 DEF StartNetwork, Ready, TypeOK
<1>17. CASE StartBuildThread
  BY <1>2, <1>5, <1>7, <1>9, <1>17 DEF StartBuildThread, Ready, Spawn, TypeOK
<1>18. CASE StartCompileThread
  BY <1>2, <1>5, <1>7, <1>9, <1>18 DEF StartCompileThread, Ready, Spawn, TypeOK
<1>19. CASE StartCaseThread
  BY <1>2, <1>5, <1>7, <1>9, <1>19 DEF StartCaseThread, Ready, Spawn, TypeOK
<1>20. CASE Requeue
  BY <1>1, <1>6, <1>7, <1>20 DEF Requeue, Ready, TypeOK
<1>21. CASE PutJob
  <2>1. queue' \in Seq(Job)
    BY <1>1, <1>2, <1>21, AppendProperties DEF PutJob
  <2> QED
    BY <1>2, <1>5, <1>6, <1>21, <2>1 DEF PutJob, TypeOK
<1>22. CASE PassAnalysis
  <2>1. [Cur EXCEPT !.kind = "net"] \in Job
    BY <1>2, <1>7, <1>22 DEF PassAnalysis, Job, JobKinds
  <2>2. saPassed' \subseteq (Sids \X DirVals)
    BY <1>2, <1>7, <1>22, ContextsType DEF PassAnalysis, TypeOK, s
  <2> QED
    BY <1>4, <1>6, <1>22, <2>1, <2>2 DEF PassAnalysis, TypeOK
<1>23. CASE FailAnalysis
  <2>1. CommonDir(s) \in DirVals
    BY <1>2, <1>7, <1>23, ContextsType DEF FailAnalysis
  <2> QED
    BY <1>7, <1>10, <1>23, <2>1 DEF FailAnalysis, TypeOK, s
<1>24. CASE RaiseAnalysis
  <2>1. CommonDir(s) \in DirVals
    BY <1>2, <1>7, <1>24, ContextsType DEF RaiseAnalysis
  <2> QED
    BY <1>7, <1>10, <1>24, <2>1 DEF RaiseAnalysis, TypeOK, s
<1>25. CASE FinishNetwork
  <2>1. ctx[s] \in Context /\ ctx[s].pending \in Seq(Job)
    BY <1>2, <1>7, <1>25, ContextsType DEF FinishNetwork, Context
  <2>2. ctx' \in [Sids -> Context]
    <3> DEFINE r == [ctx[s] EXCEPT !.pending = <<>>]
    <3>1. r \in Context
      BY <2>1, EmptySeq DEF Context
    <3>2. ctx' = [ctx EXCEPT ![s] = r]
      BY <1>25 DEF FinishNetwork, TypeOK, s
    <3> HIDE DEF r
    <3> QED
      BY <1>2, <1>7, <1>25, <3>1, <3>2, SetContext DEF FinishNetwork
  <2> QED
    BY <1>5, <1>6, <1>25, <2>1, <2>2 DEF FinishNetwork, TypeOK, s
<1>26. CASE FailNetwork
  <2>1. ctx[s].att \in DirVals
    BY <1>2, <1>7, <1>26, ContextsType, Numbers DEF FailNetwork, Context
  <2> QED
    BY <1>7, <1>10, <1>26, <2>1 DEF FailNetwork, TypeOK, s
<1> QED
  BY <1>11, <1>12, <1>13, <1>14, <1>15, <1>16, <1>17, <1>18, <1>19, <1>20, <1>21,
     <1>22, <1>23, <1>24, <1>25, <1>26 DEF DispatcherStep

(* The type invariant holds at the start.                                   *)
LEMMA InitTyping == Init => TypeInv
<1> SUFFICES ASSUME Init PROVE TypeInv
  OBVIOUS
<1>1. ctx \in [Sids -> Context]
  BY NoContextType DEF Init
<1>2. reports \in [Sids -> [Attempts -> 0..2]]
  BY DEF Init
<1>3. dirs \in [Sids -> DirVals] /\ requests \in [Sids -> 0..MaxRequests]
  BY Numbers DEF Init
<1>4. disp \in [pc : DispPC, hand : Seq(Job), fatal : BOOLEAN] /\ queue \in Seq(Job)
  BY EmptySeq DEF Init, DispPC
<1> QED
  BY <1>1, <1>2, <1>3, <1>4 DEF Init, TypeInv, TypeOK, DispatcherOwnsOne

(* Every step preserves the type invariant.                                 *)
LEMMA NextTyping == TypeInv /\ [Next]_vars => TypeInv'
<1> SUFFICES ASSUME TypeInv, [Next]_vars PROVE TypeInv'
  OBVIOUS
<1>1. CASE Request
  BY <1>1, RequestTyping DEF Request
<1>2. CASE Clock
  BY <1>2, ExpireTyping DEF Clock
<1>3. CASE HandlersStep
  BY <1>3, HandlerTyping DEF HandlersStep
<1>4. CASE DispatcherStep
  BY <1>4, DispatcherTyping
<1>5. CASE WorkersStep
  BY <1>5, WorkerTyping DEF WorkersStep
<1>6. CASE CompletionsStep
  BY <1>6, CompletionTyping DEF CompletionsStep
<1>7. CASE UNCHANGED vars
  BY <1>7 DEF vars, files, ghost, TypeInv, TypeOK, DispatcherOwnsOne
<1> QED
  BY <1>1, <1>2, <1>3, <1>4, <1>5, <1>6, <1>7 DEF Next, Idle

(* Every variable always has its type, and the dispatcher thread is never   *)
(* inside two completions, nor at work on anything else during one.         *)
THEOREM Typing == Spec => [](TypeOK /\ DispatcherOwnsOne)
BY InitTyping, NextTyping, PTL DEF Spec, TypeInv

-----------------------------------------------------------------------------
(* Nothing is compiled, built or run before static analysis.  NeverUnscreened *)
(* speaks of threads; a thread is started for a job, so the invariant follows *)
(* a job from pending_tasks, where it waits for the analysis of its id,       *)
(* through the dispatcher's hand, the queue and back-and-forth moves.         *)
Screened(s) == \E f \in DirVals : <<s, f>> \in saPassed

AllScreened(jobs) ==
  \A i \in 1..Len(jobs) : jobs[i].kind # "sa" => Screened(jobs[i].sid)

PendingOwn ==
  \A s \in Sids : \A i \in 1..Len(ctx[s].pending) : ctx[s].pending[i].sid = s

OnlyScreened ==
  /\ AllScreened(queue)
  /\ AllScreened(disp.hand)
  /\ disp.pc = "net" => Cur.kind = "net"
  /\ \A w \in workers : Screened(w.job.sid) /\ AllScreened(w.back)

(* Adding a screened job to a screened queue.                               *)
LEMMA AppendScreened ==
  ASSUME NEW jobs \in Seq(Job), NEW j \in Job, AllScreened(jobs),
         j.kind # "sa" => Screened(j.sid)
  PROVE  AllScreened(Append(jobs, j))
<1>1. /\ Len(Append(jobs, j)) = Len(jobs) + 1 /\ Len(jobs) \in Nat
      /\ \A i \in 1..Len(jobs) : Append(jobs, j)[i] = jobs[i]
      /\ Append(jobs, j)[Len(jobs) + 1] = j
  BY AppendProperties, LenProperties
<1>2. \A i \in 1..Len(jobs) + 1 : i \in 1..Len(jobs) \/ i = Len(jobs) + 1
  BY <1>1
<1> QED
  BY <1>1, <1>2 DEF AllScreened

(* Taking the first job off a screened queue.                               *)
LEMMA TailScreened ==
  ASSUME NEW jobs \in Seq(Job), jobs # <<>>, AllScreened(jobs)
  PROVE  /\ AllScreened(Tail(jobs))
         /\ Head(jobs).kind # "sa" => Screened(Head(jobs).sid)
<1>1. /\ Len(jobs) \in Nat \ {0} /\ Head(jobs) = jobs[1]
      /\ Len(Tail(jobs)) = Len(jobs) - 1
      /\ \A i \in 1..Len(Tail(jobs)) : Tail(jobs)[i] = jobs[i + 1]
  BY HeadTailProperties, EmptySeq
<1>2. \A i \in 1..Len(jobs) - 1 : i + 1 \in 1..Len(jobs)
  BY <1>1
<1> QED
  BY <1>1, <1>2 DEF AllScreened

(* Dropping the first jobs of a screened queue.                             *)
LEMMA SubSeqScreened ==
  ASSUME NEW jobs \in Seq(Job), NEW i \in 1..Len(jobs), AllScreened(jobs)
  PROVE  AllScreened(SubSeq(jobs, i + 1, Len(jobs)))
<1> DEFINE rest == SubSeq(jobs, i + 1, Len(jobs))
<1>1. Len(jobs) \in Nat /\ \A k \in 1..Len(jobs) : jobs[k] \in Job
  BY LenProperties, ElementOfSeq
<1>2. /\ Len(rest) = IF i + 1 <= Len(jobs) THEN Len(jobs) - i ELSE 0
      /\ \A k \in 1..Len(rest) : rest[k] = jobs[i + k]
  BY <1>1, SubSeqProperties
<1>3. \A k \in 1..Len(rest) : i + k \in 1..Len(jobs)
  BY <1>1, <1>2
<1> QED
  BY <1>2, <1>3 DEF AllScreened

(* The empty queue is screened.                                             *)
LEMMA NoneScreened == AllScreened(<<>>)
BY EmptySeq DEF AllScreened

(* What a step does to the pending tasks of an id.                          *)
LEMMA FailAllPending ==
  ASSUME TypeOK, NEW s, NEW a, NEW label, FailAll(s, a, label), NEW t \in Sids
  PROVE  ctx'[t].pending = ctx[t].pending
BY DEF FailAll, TypeOK, Context

(* Releasing an id empties its list of waiting jobs.                        *)
LEMMA ForgetPending ==
  ASSUME TypeOK, NEW s, ForgetContext(s), NEW t \in Sids
  PROVE  ctx'[t].pending = ctx[t].pending \/ ctx'[t].pending = <<>>
BY DEF TypeOK, ForgetContext, NoContext

(* A handler keeps, empties or sets the waiting jobs.                       *)
LEMMA HandlerPending ==
  ASSUME TypeInv, NEW h \in handlers, HandlerStep(h), NEW t \in Sids
  PROVE  \/ ctx'[t].pending = ctx[t].pending /\ (PlanTasks(h) => t # h.sid)
         \/ ctx'[t].pending = <<>> /\ ~PlanTasks(h)
         \/ PlanTasks(h) /\ t = h.sid /\ ctx'[t].pending = TasksToRun(t, h.att)
<1> USE DEF TypeInv
<1>1. ctx \in [Sids -> Context] /\ h.sid \in Sids /\ h.att \in Attempts
  BY DEF TypeOK, Handler
<1>2. CASE ForgetLeftover(h) \/ RejectFull(h)
  BY <1>2, ForgetPending DEF ForgetLeftover, RejectFull, PlanTasks
<1>3. CASE FailRequest(h) /\ ~PlanTasks(h)
  <2>1. ctx'[t].pending = ctx[t].pending
    BY <1>3, FailAllPending DEF FailRequest
  <2> QED
    BY <1>3, <2>1
<1>4. CASE Register(h)
  BY <1>1, <1>4 DEF Register, PlanTasks, Context
<1>5. CASE PlanTasks(h)
  BY SMTT(30), <1>1, <1>5 DEF PlanTasks, Context
<1>6. CASE \/ WipeLeftover(h) \/ CreateAgain(h) \/ MarkTrial(h) \/ CheckRequest(h)
           \/ Enqueue(h) \/ UnwindRequest(h)
  BY <1>6 DEF WipeLeftover, CreateAgain, MarkTrial, CheckRequest, Enqueue,
              UnwindRequest, PlanTasks
<1> QED
  BY <1>2, <1>3, <1>4, <1>5, <1>6 DEF HandlerStep

(* A completing thread keeps or empties them.                               *)
LEMMA CompletionPending ==
  ASSUME TypeInv, NEW c \in completing, CompletionStep(c), NEW t \in Sids
  PROVE  ctx'[t].pending = ctx[t].pending \/ ctx'[t].pending = <<>>
BY ForgetPending DEF TypeInv, CompletionStep, PutResult, CleanData, BackupData,
                     ReleaseContext, ReleaseCustom

(* A worker keeps them.                                                     *)
LEMMA WorkerPending ==
  ASSUME TypeInv, NEW w \in workers, WorkerStep(w), NEW t \in Sids
  PROVE  ctx'[t].pending = ctx[t].pending
<1> USE DEF TypeInv
<1>1. ctx \in [Sids -> Context] /\ w.job.sid \in Sids
  BY DEF TypeOK, Worker, Job
<1>2. CASE FinishCompile(w)
  BY <1>1, <1>2 DEF FinishCompile, Context
<1>3. CASE FinishBuild(w) \/ FailBuild(w)
  <2>1. PICK built \in BOOLEAN :
          ctx' = [ctx EXCEPT ![w.job.sid].prebuilt = built, ![w.job.sid].plan = 0]
    BY <1>3 DEF FinishBuild, FailBuild, EndPlan
  <2> QED
    BY <1>1, <2>1 DEF Context
<1>4. CASE MarkBuildFailed(w) \/ NoTeacher(w)
  BY <1>4, FailAllPending DEF MarkBuildFailed, NoTeacher, MarkFailed
<1>5. CASE RecordCase(w)
  <2> DEFINE rec == [ctx[w.job.sid].rec EXCEPT ![w.job.case] = w.src]
  <2>1. \/ ctx' = ctx
        \/ ctx' = [ctx EXCEPT ![w.job.sid].rec = rec]
    BY <1>5 DEF RecordCase
  <2> HIDE DEF rec
  <2>2. ctx' = [ctx EXCEPT ![w.job.sid].rec = rec]
          => ctx'[t] = ctx[t] \/ ctx'[t] = [ctx[t] EXCEPT !.rec = rec]
    BY <1>1
  <2>3. [ctx[t] EXCEPT !.rec = rec].pending = ctx[t].pending
    BY <1>1 DEF Context
  <2> QED
    BY <2>1, <2>2, <2>3
<1>6. CASE \/ StartCompile(w) \/ StartBuild(w) \/ ClearJobs(w) \/ PutBack(w)
           \/ PrepareCase(w) \/ RunCase(w) \/ EndRun(w) \/ FetchLock(w)
           \/ RaiseInTool(w)
  BY <1>6 DEF StartCompile, StartBuild, ClearJobs, PutBack, PrepareCase, RunCase,
              EndRun, FetchLock, RaiseInTool
<1> QED
  BY <1>2, <1>3, <1>4, <1>5, <1>6 DEF WorkerStep

(* The dispatcher empties those of the id whose network it has set up.      *)
LEMMA DispatcherPending ==
  ASSUME TypeInv, DispatcherStep, NEW t \in Sids
  PROVE  \/ ctx'[t].pending = ctx[t].pending
         \/ FinishNetwork /\ t = Cur.sid /\ ctx'[t].pending = <<>>
<1> USE DEF TypeInv
<1>1. ctx \in [Sids -> Context]
  BY DEF TypeOK
<1>2. CASE FailAnalysis \/ RaiseAnalysis \/ FailNetwork
  BY <1>2, FailAllPending DEF FailAnalysis, RaiseAnalysis, FailNetwork, FailSubmission
<1>3. CASE FinishNetwork
  BY <1>1, <1>3 DEF FinishNetwork, Context
<1>4. CASE \/ TakeJob \/ DropTimedOut \/ DeferTrial \/ LoseDispatcher
           \/ StartAnalysis \/ StartNetwork \/ StartBuildThread
           \/ StartCompileThread \/ StartCaseThread \/ Requeue \/ PutJob
           \/ PassAnalysis
  BY <1>4 DEF TakeJob, DropTimedOut, DeferTrial, LoseDispatcher, StartAnalysis,
              StartNetwork, StartBuildThread, StartCompileThread, StartCaseThread,
              Requeue, PutJob, PassAnalysis
<1> QED
  BY <1>2, <1>3, <1>4 DEF DispatcherStep

(* Requests and the clock keep them.                                        *)
LEMMA RequestPending ==
  ASSUME TypeInv, NEW s \in Sids, CreateDir(s) \/ FindLeftover(s) \/ Expire(s),
         NEW t \in Sids
  PROVE  ctx'[t].pending = ctx[t].pending
<1>1. CASE CreateDir(s) \/ FindLeftover(s)
  BY <1>1 DEF CreateDir, FindLeftover
<1>2. CASE Expire(s)
  <2>1. ctx' = [ctx EXCEPT ![s].expired = TRUE]
    BY <1>2 DEF Expire
  <2> QED
    BY <2>1 DEF TypeInv, TypeOK, Context
<1> QED
  BY <1>1, <1>2

(* A step keeps a submission's waiting jobs, empties them or sets them to   *)
(* its own.                                                                 *)
LEMMA PendingStep ==
  ASSUME TypeInv, [Next]_vars, NEW t \in Sids
  PROVE  \/ ctx'[t].pending = ctx[t].pending
         \/ ctx'[t].pending = <<>>
         \/ \E a \in Attempts : ctx'[t].pending = TasksToRun(t, a)
<1>1. \A h \in handlers : h.att \in Attempts
  BY DEF TypeInv, TypeOK, Handler
<1> QED
  BY <1>1, RequestPending, HandlerPending, CompletionPending, WorkerPending,
     DispatcherPending
     DEF Next, Request, Clock, HandlersStep, WorkersStep, CompletionsStep, Idle, vars

(* So the jobs that wait in a context are its own submission's.             *)
LEMMA PendingInv == TypeInv /\ PendingOwn /\ [Next]_vars => PendingOwn'
<1> SUFFICES ASSUME TypeInv, PendingOwn, [Next]_vars, NEW t \in Sids
             PROVE  \A i \in 1..Len(ctx'[t].pending) : ctx'[t].pending[i].sid = t
  BY DEF PendingOwn
<1>1. CASE ctx'[t].pending = ctx[t].pending
  BY <1>1 DEF PendingOwn
<1>2. CASE ctx'[t].pending = <<>>
  BY <1>2, EmptySeq
<1>3. CASE \E a \in Attempts : ctx'[t].pending = TasksToRun(t, a)
  BY <1>3, TasksType DEF TypeInv
<1> QED
  BY <1>1, <1>2, <1>3, PendingStep

(* The jobs and threads stay screened.                                      *)
ScreenInv == TypeInv /\ PendingOwn /\ OnlyScreened

(* A step of dispatcher.handle queues screened jobs only.                   *)
LEMMA HandlerScreening ==
  ASSUME ScreenInv, NEW h \in handlers, HandlerStep(h)
  PROVE  OnlyScreened'
<1> USE DEF ScreenInv, TypeInv
<1>1. CASE Enqueue(h)
  <2>1. /\ FirstJob(h) \in Job /\ FirstJob(h).kind = "sa" /\ queue \in Seq(Job)
    BY JobType, Numbers DEF FirstJob, MkJob, JobKinds, TypeOK, Handler
  <2>2. AllScreened(Append(queue, FirstJob(h)))
    BY <2>1, AppendScreened DEF OnlyScreened
  <2> QED
    BY <1>1, <2>2 DEF Enqueue, OnlyScreened, AllScreened, Screened, Cur
<1>2. CASE ~Enqueue(h)
  BY <1>2 DEF HandlerStep, ForgetLeftover, WipeLeftover, CreateAgain, MarkTrial,
              CheckRequest, FailRequest, Register, PlanTasks, RejectFull,
              UnwindRequest, ghost, OnlyScreened, AllScreened, Screened, Cur
<1> QED
  BY <1>1, <1>2

(* A step of a completing thread queues screened jobs only.                 *)
LEMMA CompletionScreening ==
  ASSUME ScreenInv, NEW c \in completing, CompletionStep(c)
  PROVE  OnlyScreened'
<1>1. /\ UNCHANGED <<queue, workers, saPassed>>
      /\ UNCHANGED disp \/ ReleaseCustom(c)
  BY DEF CompletionStep, PutResult, CleanData, BackupData, ReleaseContext,
         ReleaseCustom, ghost
<1>2. CASE UNCHANGED disp
  BY <1>1, <1>2 DEF ScreenInv, OnlyScreened, AllScreened, Screened, Cur
<1>3. CASE ReleaseCustom(c)
  <2>1. /\ disp'.hand = <<>> \/ disp'.hand = disp.hand
        /\ disp' = disp \/ disp'.pc # "net"
    BY <1>3 DEF ReleaseCustom, AfterCompletion, ScreenInv, TypeInv, TypeOK
  <2>2. AllScreened(disp'.hand)
    BY <2>1, NoneScreened DEF ScreenInv, OnlyScreened
  <2> QED
    BY <1>1, <2>1, <2>2 DEF ScreenInv, OnlyScreened, AllScreened, Screened, Cur
<1> QED
  BY <1>1, <1>2, <1>3

(* A step of a worker queues screened jobs only.                            *)
LEMMA WorkerScreening ==
  ASSUME ScreenInv, NEW w \in workers, WorkerStep(w)
  PROVE  OnlyScreened'
<1> USE DEF ScreenInv, TypeInv
<1>1. /\ w \in Worker /\ Screened(w.job.sid) /\ AllScreened(w.back)
      /\ w.back \in Seq(Job) /\ queue \in Seq(Job)
  BY DEF OnlyScreened, TypeOK, Worker
<1>2. UNCHANGED <<disp, saPassed>>
  BY DEF WorkerStep, StartCompile, FinishCompile, StartBuild, FinishBuild, FailBuild,
         ClearJobs, PutBack, MarkBuildFailed, PrepareCase, NoTeacher, RunCase, EndRun,
         FetchLock, RecordCase, RaiseInTool, ghost
<1>3. ASSUME AllScreened(queue'),
             \A v \in workers' : v \in workers \/ (v.job = w.job /\ AllScreened(v.back))
      PROVE  OnlyScreened'
  BY <1>1, <1>2, <1>3 DEF OnlyScreened, AllScreened, Screened, Cur
<1>4. CASE ClearJobs(w)
  <2> DEFINE v == [w EXCEPT !.pc = "fail", !.back = queue]
  <2>1. v.job = w.job /\ v.back = queue
    BY <1>1 DEF Worker
  <2>2. queue' = <<>> /\ workers' = (workers \ {w}) \cup {v}
    BY <1>4 DEF ClearJobs, Step
  <2> HIDE DEF v
  <2> QED
    BY <1>3, <2>1, <2>2, NoneScreened DEF OnlyScreened
<1>5. CASE PutBack(w)
  <2>1. PICK i \in OthersJobs(w) :
          /\ queue' = Append(queue, w.back[i])
          /\ Step(w, [w EXCEPT !.back = SubSeq(@, i + 1, Len(@))])
    BY <1>5 DEF PutBack
  <2> DEFINE v == [w EXCEPT !.back = SubSeq(@, i + 1, Len(@))]
  <2>2. i \in 1..Len(w.back) /\ w.back[i] \in Job
    BY <1>1, ElementOfSeq DEF OthersJobs
  <2>3. AllScreened(queue')
    BY <1>1, <2>1, <2>2, AppendScreened DEF OnlyScreened, AllScreened
  <2>4. v.job = w.job /\ AllScreened(v.back)
    BY <1>1, <2>2, SubSeqScreened DEF Worker
  <2>5. workers' = (workers \ {w}) \cup {v}
    BY <2>1 DEF Step
  <2> HIDE DEF v
  <2> QED
    BY <1>3, <2>3, <2>4, <2>5
<1>6. CASE ~ClearJobs(w) /\ ~PutBack(w)
  <2>1. queue' = queue
    BY <1>6 DEF WorkerStep, StartCompile, FinishCompile, StartBuild, FinishBuild,
         FailBuild, MarkBuildFailed, PrepareCase, NoTeacher, RunCase, EndRun,
         FetchLock, RecordCase, RaiseInTool
  <2>2. \A v \in workers' : v \in workers \/ (v.job = w.job /\ v.back = w.back)
    <3>1. CASE StartCompile(w) \/ StartBuild(w)
      BY <1>1, <3>1 DEF StartCompile, StartBuild, Worker, Step, Die
    <3>2. CASE PrepareCase(w)
      BY <1>1, <3>2 DEF PrepareCase, Worker, Step
    <3>3. CASE RunCase(w) \/ EndRun(w) \/ FetchLock(w) \/ FailBuild(w)
      BY <1>1, <3>3 DEF RunCase, EndRun, FetchLock, FailBuild, Worker, Step, Die
    <3>4. CASE \/ FinishCompile(w) \/ FinishBuild(w) \/ MarkBuildFailed(w)
               \/ NoTeacher(w) \/ RecordCase(w) \/ RaiseInTool(w)
      BY <3>4 DEF FinishCompile, FinishBuild, MarkBuildFailed, NoTeacher, RecordCase,
                  RaiseInTool, MarkFailed, Die
    <3> QED
      BY <1>6, <3>1, <3>2, <3>3, <3>4 DEF WorkerStep
  <2>3. AllScreened(queue')
    BY <2>1 DEF OnlyScreened
  <2> QED
    BY <1>1, <1>3, <2>2, <2>3
<1> QED
  BY <1>4, <1>5, <1>6

(* A step of the dispatcher's loop starts screened jobs only.               *)
LEMMA DispatcherScreening ==
  ASSUME ScreenInv, DispatcherStep
  PROVE  OnlyScreened'
<1> USE DEF ScreenInv, TypeInv
<1>1. /\ disp.hand \in Seq(Job) /\ queue \in Seq(Job)
      /\ disp \in [pc : DispPC, hand : Seq(Job), fatal : BOOLEAN]
  BY DEF TypeOK
<1>2. disp.pc \notin {"loop", "dead"} =>
        /\ disp.hand # <<>> /\ Cur \in Job /\ Cur.sid \in Sids
        /\ Cur.kind # "sa" => Screened(Cur.sid)
        /\ AllScreened(Tail(disp.hand))
  <2>1. ASSUME disp.hand # <<>>
        PROVE  /\ Cur \in Job /\ AllScreened(Tail(disp.hand))
               /\ Cur.kind # "sa" => Screened(Cur.sid)
    BY <1>1, <2>1, TailScreened, HeadTailProperties DEF OnlyScreened, Cur
  <2> QED
    BY <2>1 DEF DispatcherOwnsOne, Job
<1>3. \A s : Screened(s) => Screened(s)'
  BY DEF DispatcherStep, TakeJob, DropTimedOut, DeferTrial, LoseDispatcher,
         StartAnalysis, StartNetwork, StartBuildThread, StartCompileThread,
         StartCaseThread, Requeue, PutJob, PassAnalysis, FailAnalysis, RaiseAnalysis,
         FinishNetwork, FailNetwork, Screened
<1>4. ASSUME AllScreened(queue'), AllScreened(disp'.hand),
             disp'.pc = "net" => disp'.hand # <<>> /\ Head(disp'.hand).kind = "net",
             \A w \in workers' : w \in workers \/ (Screened(w.job.sid) /\ w.back = <<>>)
      PROVE  OnlyScreened'
  <2>1. \A jobs : AllScreened(jobs) => \A i \in 1..Len(jobs) :
                     jobs[i].kind # "sa" => Screened(jobs[i].sid)'
    BY <1>3 DEF AllScreened
  <2>2. AllScreened(queue)' /\ AllScreened(disp.hand)'
    BY <1>4, <2>1 DEF AllScreened
  <2>3. ASSUME NEW w \in workers' PROVE Screened(w.job.sid)' /\ AllScreened(w.back)'
    <3>1. Screened(w.job.sid) /\ AllScreened(w.back)
      BY <1>4, NoneScreened DEF OnlyScreened
    <3> QED
      BY <1>3, <2>1, <3>1 DEF AllScreened
  <2> QED
    BY <1>4, <2>2, <2>3 DEF OnlyScreened, Cur
<1>5. AllScreened(queue) /\ AllScreened(disp.hand)
  BY DEF OnlyScreened
<1>6. Loop => AllScreened(disp'.hand) /\ disp'.pc # "net"
  BY NoneScreened DEF Loop
<1>7. \A pc \in {"put", "sa", "dead", "check", "net"} : \A hand :
         At(pc, hand) => disp'.pc = pc /\ disp'.hand = hand
  BY <1>1 DEF At
<1>8. CASE TakeJob
  <2>1. /\ AllScreened(Tail(queue)) /\ Head(queue) \in Job
        /\ Head(queue).kind # "sa" => Screened(Head(queue).sid)
    BY <1>1, <1>5, <1>8, TailScreened, HeadTailProperties DEF TakeJob
  <2>2. AllScreened(<<Head(queue)>>)
    BY <2>1 DEF AllScreened
  <2> QED
    BY <1>4, <1>6, <1>7, <1>8, <2>1, <2>2 DEF TakeJob
<1>9. CASE DropTimedOut
  BY <1>4, <1>5, <1>6, <1>9 DEF DropTimedOut
<1>10. CASE DeferTrial \/ Requeue \/ StartAnalysis
  <2>1. \/ At("put", disp.hand)
        \/ At("sa", disp.hand)
    BY <1>10 DEF DeferTrial, Requeue, StartAnalysis
  <2> QED
    BY <1>4, <1>5, <1>7, <1>10, <2>1 DEF DeferTrial, Requeue, StartAnalysis
<1>11. CASE LoseDispatcher
  BY <1>4, <1>5, <1>7, <1>11, NoneScreened DEF LoseDispatcher
<1>12. CASE StartNetwork
  BY <1>2, <1>4, <1>5, <1>7, <1>12 DEF StartNetwork, Ready, Cur
<1>13. CASE StartBuildThread \/ StartCompileThread \/ StartCaseThread
  <2>1. Cur.kind # "sa" /\ Loop /\ Spawn(Cur) /\ disp.pc = "check" /\ queue' = queue
    BY <1>13 DEF StartBuildThread, StartCompileThread, StartCaseThread, Ready
  <2>2. Screened(Cur.sid) /\ MkWorker(Cur).job = Cur /\ MkWorker(Cur).back = <<>>
    BY <1>2, <2>1 DEF MkWorker
  <2> QED
    BY <1>4, <1>5, <1>6, <2>1, <2>2 DEF Spawn
<1>14. CASE PutJob
  <2>1. AllScreened(queue')
    BY <1>1, <1>2, <1>5, <1>14, AppendScreened DEF PutJob
  <2> QED
    BY <1>2, <1>4, <1>6, <1>7, <1>14, <2>1 DEF PutJob
<1>15. CASE PassAnalysis
  <2>1. PICK j : j = [Cur EXCEPT !.kind = "net"]
    OBVIOUS
  <2>2. j.sid = Cur.sid /\ Cur.sid \in Sids /\ CommonDir(Cur.sid) \in DirVals
    BY <1>2, <1>15, <2>1, ContextsType DEF PassAnalysis, Job
  <2>3. disp'.pc = "put" /\ disp'.hand = <<j>> /\ UNCHANGED <<queue, workers>>
    BY <1>7, <1>15, <2>1 DEF PassAnalysis
  <2>4. \E f \in DirVals : <<j.sid, f>> \in saPassed'
    BY <1>15, <2>2 DEF PassAnalysis
  <2>5. AllScreened(disp.hand)'
    BY <2>3, <2>4 DEF AllScreened, Screened
  <2>6. AllScreened(queue)'
    BY <1>3, <1>5, <2>3 DEF AllScreened
  <2>7. \A w \in workers' : Screened(w.job.sid)' /\ AllScreened(w.back)'
    BY <1>3, <2>3 DEF OnlyScreened, AllScreened
  <2> QED
    BY <2>3, <2>5, <2>6, <2>7 DEF OnlyScreened
<1>16. CASE FailAnalysis \/ RaiseAnalysis \/ FailNetwork
  <2>1. Loop \/ disp' = [disp EXCEPT !.pc = "report", !.fatal = TRUE]
             \/ disp' = [disp EXCEPT !.pc = "report", !.fatal = FALSE]
    BY <1>16 DEF FailAnalysis, RaiseAnalysis, FailNetwork, FailSubmission
  <2>2. AllScreened(disp'.hand) /\ disp'.pc # "net"
    BY <1>1, <1>5, <1>6, <2>1
  <2> QED
    BY <1>4, <1>5, <1>16, <2>2 DEF FailAnalysis, RaiseAnalysis, FailNetwork
<1>17. CASE FinishNetwork
  <2>1. disp.pc = "net" /\ Cur.kind = "net" /\ Cur.sid \in Sids /\ Screened(Cur.sid)
    BY <1>2, <1>17 DEF FinishNetwork, OnlyScreened
  <2>2. AllScreened(ctx[Cur.sid].pending)
    BY <2>1 DEF PendingOwn, AllScreened
  <2> QED
    BY <1>4, <1>5, <1>6, <1>7, <1>17, <2>2 DEF FinishNetwork
<1> QED
  BY <1>8, <1>9, <1>10, <1>11, <1>12, <1>13, <1>14, <1>15, <1>16, <1>17
     DEF DispatcherStep

(* Every step preserves the screening invariant.                            *)
LEMMA ScreenStep == ScreenInv /\ [Next]_vars => ScreenInv'
<1> SUFFICES ASSUME ScreenInv, [Next]_vars PROVE OnlyScreened'
  BY NextTyping, PendingInv DEF ScreenInv
<1>1. CASE Request \/ Clock \/ UNCHANGED vars
  <2>1. UNCHANGED <<queue, disp, workers, saPassed>>
    BY <1>1 DEF Request, Clock, CreateDir, FindLeftover, Expire, vars, ghost
  <2> QED
    BY <2>1 DEF ScreenInv, OnlyScreened, AllScreened, Screened, Cur
<1>2. CASE HandlersStep
  BY <1>2, HandlerScreening DEF HandlersStep
<1>3. CASE DispatcherStep
  BY <1>3, DispatcherScreening
<1>4. CASE WorkersStep
  BY <1>4, WorkerScreening DEF WorkersStep
<1>5. CASE CompletionsStep
  BY <1>5, CompletionScreening DEF CompletionsStep
<1> QED
  BY <1>1, <1>2, <1>3, <1>4, <1>5 DEF Next, Idle

(* The screening invariant holds at the start.                              *)
LEMMA InitScreening == Init => ScreenInv
<1> SUFFICES ASSUME Init PROVE PendingOwn /\ OnlyScreened
  BY InitTyping DEF ScreenInv
<1>1. PendingOwn
  BY EmptySeq DEF Init, PendingOwn, NoContext
<1>2. OnlyScreened
  BY NoneScreened DEF Init, OnlyScreened
<1> QED
  BY <1>1, <1>2

(* No build, compile or case thread ever works for an id of which static    *)
(* analysis has accepted nothing: not after a requeue, a put-back, a second *)
(* request for the id, a time-out or the death of a thread.                 *)
THEOREM Screening == Spec => []NeverUnscreened
<1>1. ScreenInv => NeverUnscreened
  BY DEF ScreenInv, OnlyScreened, NeverUnscreened, Screened
<1> QED
  BY <1>1, InitScreening, ScreenStep, PTL DEF Spec

-----------------------------------------------------------------------------
(* What of a job makes it the one job of its kind: the network job of a     *)
(* request is its static analysis job, passed on.                           *)
Key(j) == [kind |-> IF j.kind = "sa" THEN "net" ELSE j.kind, sid |-> j.sid,
           case |-> j.case, att |-> j.att]

KeysOf(jobs)   == {Key(jobs[i]) : i \in 1..Len(jobs)}
Distinct(jobs) ==
  \A i, k \in 1..Len(jobs) : Key(jobs[i]) = Key(jobs[k]) => i = k

(* The jobs of a thread: its own, and the ones it has still to put back.    *)
Own(w) == {Key(w.job)} \cup KeysOf(w.back)

Waiting == UNION {KeysOf(ctx[s].pending) : s \in Sids}
Working == UNION {Own(w) : w \in workers}
Present == KeysOf(queue) \cup KeysOf(disp.hand) \cup Waiting \cup Working

(* Every list holds a job at most once ...                                  *)
ListsDistinct ==
  /\ Distinct(queue)
  /\ Distinct(disp.hand)
  /\ \A s \in Sids : Distinct(ctx[s].pending)
  /\ \A w \in workers : Distinct(w.back) /\ Key(w.job) \notin KeysOf(w.back)

(* ... and no job is in two of them.                                        *)
PlacesApart ==
  /\ KeysOf(queue) \cap KeysOf(disp.hand) = {}
  /\ \A s \in Sids : KeysOf(ctx[s].pending) \cap KeysOf(queue) = {}
  /\ \A s \in Sids : KeysOf(ctx[s].pending) \cap KeysOf(disp.hand) = {}
  /\ \A s, t \in Sids : s # t => KeysOf(ctx[s].pending) \cap KeysOf(ctx[t].pending) = {}
  /\ \A w \in workers : Own(w) \cap KeysOf(queue) = {}
  /\ \A w \in workers : Own(w) \cap KeysOf(disp.hand) = {}
  /\ \A w \in workers, s \in Sids : Own(w) \cap KeysOf(ctx[s].pending) = {}
  /\ \A w, v \in workers : w # v => Own(w) \cap Own(v) = {}

(* A request is served by one handler, and its jobs come from that handler: *)
(* there is none before PlanTasks and no analysis or network job before     *)
(* Enqueue.                                                                 *)
HandlersApart ==
  /\ \A h \in handlers : h.att <= requests[h.sid]
  /\ \A h, g \in handlers : h.sid = g.sid /\ h.att = g.att => h = g
  /\ \A k \in Present : k.sid \in Sids /\ k.att \in 0..requests[k.sid]
  /\ \A h \in handlers, k \in Present :
       k.sid = h.sid /\ k.att = h.att =>
         h.pc = "unwind" \/ (h.pc = "enqueue" /\ k.kind # "net")

(* What static analysis is at work on is an analysis job.                   *)
AnalysisInHand == disp.pc = "sa" => Cur.kind = "sa"

JobsApart == ListsDistinct /\ PlacesApart /\ HandlersApart /\ AnalysisInHand

-----------------------------------------------------------------------------
(* Jobs and sequences of jobs.                                              *)

(* No job waits in an empty list.                                           *)
LEMMA KeysEmpty == KeysOf(<<>>) = {} /\ Distinct(<<>>)
BY EmptySeq DEF KeysOf, Distinct

(* A list of one job.                                                       *)
LEMMA KeysOne ==
  ASSUME NEW j \in Job
  PROVE  KeysOf(<<j>>) = {Key(j)} /\ Distinct(<<j>>) /\ <<j>> \in Seq(Job)
<1>1. Len(<<j>>) = 1 /\ <<j>>[1] = j /\ 1..1 = {1}
  OBVIOUS
<1> QED
  BY <1>1 DEF KeysOf, Distinct

(* Appending a job that is not there.                                       *)
LEMMA KeysAppend ==
  ASSUME NEW jobs \in Seq(Job), NEW j \in Job
  PROVE  /\ KeysOf(Append(jobs, j)) = KeysOf(jobs) \cup {Key(j)}
         /\ Distinct(jobs) /\ Key(j) \notin KeysOf(jobs) => Distinct(Append(jobs, j))
<1>1. /\ Len(Append(jobs, j)) = Len(jobs) + 1 /\ Len(jobs) \in Nat
      /\ \A i \in 1..Len(jobs) : Append(jobs, j)[i] = jobs[i]
      /\ Append(jobs, j)[Len(jobs) + 1] = j
  BY AppendProperties, LenProperties
<1>2. 1..Len(jobs) + 1 = (1..Len(jobs)) \cup {Len(jobs) + 1}
  BY <1>1
<1>3. KeysOf(Append(jobs, j)) = KeysOf(jobs) \cup {Key(j)}
  BY <1>1, <1>2 DEF KeysOf
<1>4. ASSUME Distinct(jobs), Key(j) \notin KeysOf(jobs)
      PROVE  Distinct(Append(jobs, j))
  BY <1>1, <1>2, <1>4 DEF Distinct, KeysOf
<1> QED
  BY <1>3, <1>4

(* Taking the first job.                                                    *)
LEMMA KeysTail ==
  ASSUME NEW jobs \in Seq(Job), jobs # <<>>
  PROVE  /\ KeysOf(jobs) = {Key(Head(jobs))} \cup KeysOf(Tail(jobs))
         /\ Distinct(jobs) => /\ Distinct(Tail(jobs))
                              /\ Key(Head(jobs)) \notin KeysOf(Tail(jobs))
<1>1. /\ Len(jobs) \in Nat \ {0} /\ Head(jobs) = jobs[1]
      /\ Len(Tail(jobs)) = Len(jobs) - 1
      /\ \A i \in 1..Len(Tail(jobs)) : Tail(jobs)[i] = jobs[i + 1]
  BY HeadTailProperties, EmptySeq
<1>2. /\ \A i \in 1..Len(jobs) - 1 : i + 1 \in 1..Len(jobs)
      /\ \A i \in 1..Len(jobs) : i = 1 \/ (i - 1 \in 1..Len(jobs) - 1 /\ (i - 1) + 1 = i)
      /\ 1 \in 1..Len(jobs)
  BY <1>1
<1>3. KeysOf(jobs) = {Key(Head(jobs))} \cup KeysOf(Tail(jobs))
  <2>1. KeysOf(Tail(jobs)) \subseteq KeysOf(jobs)
    BY <1>1, <1>2 DEF KeysOf
  <2>2. ASSUME NEW i \in 1..Len(jobs)
        PROVE  Key(jobs[i]) \in {Key(Head(jobs))} \cup KeysOf(Tail(jobs))
    <3>1. CASE i = 1
      BY <1>1, <3>1
    <3>2. CASE i # 1
      BY <1>1, <1>2, <3>2 DEF KeysOf
    <3> QED
      BY <3>1, <3>2
  <2> QED
    BY ZenonT(30), <1>1, <1>2, <2>1, <2>2 DEF KeysOf
<1>4. ASSUME Distinct(jobs) PROVE Distinct(Tail(jobs))
  BY <1>1, <1>2, <1>4 DEF Distinct
<1>5. ASSUME Distinct(jobs), Key(Head(jobs)) \in KeysOf(Tail(jobs)) PROVE FALSE
  <2>1. PICK i \in 1..Len(Tail(jobs)) : Key(Head(jobs)) = Key(Tail(jobs)[i])
    BY <1>5 DEF KeysOf
  <2>2. i + 1 \in 1..Len(jobs) /\ i + 1 # 1 /\ Key(jobs[1]) = Key(jobs[i + 1])
    BY <1>1, <1>2, <2>1
  <2> QED
    BY <1>2, <1>5, <2>2 DEF Distinct
<1> QED
  BY <1>3, <1>4, <1>5

(* Dropping the first jobs.                                                 *)
LEMMA KeysSubSeq ==
  ASSUME NEW jobs \in Seq(Job), NEW i \in 1..Len(jobs)
  PROVE  /\ KeysOf(SubSeq(jobs, i + 1, Len(jobs))) \subseteq KeysOf(jobs)
         /\ Key(jobs[i]) \in KeysOf(jobs)
         /\ Distinct(jobs) =>
              /\ Distinct(SubSeq(jobs, i + 1, Len(jobs)))
              /\ Key(jobs[i]) \notin KeysOf(SubSeq(jobs, i + 1, Len(jobs)))
<1> DEFINE rest == SubSeq(jobs, i + 1, Len(jobs))
<1>1. Len(jobs) \in Nat /\ \A k \in 1..Len(jobs) : jobs[k] \in Job
  BY LenProperties, ElementOfSeq
<1>2. /\ Len(rest) = IF i + 1 <= Len(jobs) THEN Len(jobs) - i ELSE 0
      /\ \A k \in 1..Len(rest) : rest[k] = jobs[i + k]
  BY <1>1, SubSeqProperties
<1> HIDE DEF rest
<1>3. \A k \in 1..Len(rest) : i + k \in 1..Len(jobs) /\ i + k # i /\ k \in Nat
  BY <1>1, <1>2
<1>4. KeysOf(rest) \subseteq KeysOf(jobs) /\ Key(jobs[i]) \in KeysOf(jobs)
  BY <1>2, <1>3 DEF KeysOf
<1>5. ASSUME Distinct(jobs) PROVE Distinct(rest) /\ Key(jobs[i]) \notin KeysOf(rest)
  <2>1. ASSUME NEW k \in 1..Len(rest), NEW l \in 1..Len(rest), Key(rest[k]) = Key(rest[l])
        PROVE  k = l
    <3>1. i + k = i + l
      BY <1>2, <1>3, <1>5, <2>1 DEF Distinct
    <3> QED
      BY <1>3, <3>1
  <2>2. \A k \in 1..Len(rest) : Key(rest[k]) # Key(jobs[i])
    BY <1>2, <1>3, <1>5 DEF Distinct
  <2> QED
    BY <2>1, <2>2 DEF Distinct, KeysOf
<1> QED
  BY <1>4, <1>5 DEF rest

(* The jobs of an attempt are its own, none of them a network job, and no   *)
(* two of them the same.                                                    *)
LEMMA TasksKeys ==
  ASSUME TypeOK, NEW s \in Sids, NEW a \in Attempts
  PROVE  /\ Distinct(TasksToRun(s, a))
         /\ \A k \in KeysOf(TasksToRun(s, a)) :
              k.sid = s /\ k.att = a /\ k.kind # "net"
<1> DEFINE first == IF prof[s].make THEN <<MkJob("build", s, 0, a)>>
                    ELSE IF prof[s].compiled THEN <<MkJob("compile", s, 0, a)>> ELSE <<>>
           n     == prof[s].cases
           cases == [c \in 1..n |-> MkJob("exec", s, c, a)]
           jobs  == TasksToRun(s, a)
<1>1. n \in Nat /\ \A c \in 1..n : c \in 0..MaxCases
  BY CasesType, ConstantsAssumption
<1>2. /\ first \in Seq(Job) /\ Len(first) \in {0, 1}
      /\ \A i \in 1..Len(first) : \E k \in {"build", "compile"} :
             first[i] = MkJob(k, s, 0, a)
  <2>1. MkJob("build", s, 0, a) \in Job /\ MkJob("compile", s, 0, a) \in Job
    BY JobType, Numbers DEF JobKinds
  <2>2. CASE prof[s].make
    <3>1. first = <<MkJob("build", s, 0, a)>>
      BY <2>2
    <3> HIDE DEF first
    <3> QED
      BY <2>1, <3>1
  <2>3. CASE ~prof[s].make /\ prof[s].compiled
    <3>1. first = <<MkJob("compile", s, 0, a)>>
      BY <2>3
    <3> HIDE DEF first
    <3> QED
      BY <2>1, <3>1
  <2>4. CASE ~prof[s].make /\ ~prof[s].compiled
    <3>1. first = <<>>
      BY <2>4
    <3> HIDE DEF first
    <3> QED
      BY <3>1
  <2> QED
    BY <2>2, <2>3, <2>4
<1>3. /\ cases \in Seq(Job) /\ Len(cases) = n
      /\ \A c \in 1..n : cases[c] = MkJob("exec", s, c, a)
  <2>1. cases \in [1..n -> Job]
    BY <1>1, JobType DEF JobKinds
  <2> QED
    BY <1>1, <2>1, SeqDef
<1>4. jobs = first \o cases
  BY DEF TasksToRun, AllCases
<1> HIDE DEF first, cases, n, jobs
<1>5. /\ Len(jobs) = Len(first) + n
      /\ \A i \in 1..Len(jobs) :
           jobs[i] = IF i <= Len(first) THEN first[i] ELSE cases[i - Len(first)]
  BY <1>2, <1>3, <1>4, ConcatProperties
<1>6. ASSUME NEW i \in 1..Len(jobs)
      PROVE  \/ /\ i = 1 /\ Len(first) = 1
                /\ \E k \in {"build", "compile"} : jobs[i] = MkJob(k, s, 0, a)
             \/ /\ i - Len(first) \in 1..n
                /\ jobs[i] = MkJob("exec", s, i - Len(first), a)
  <2>1. CASE i <= Len(first)
    BY <1>2, <1>5, <2>1
  <2>2. CASE ~(i <= Len(first))
    <3>1. i - Len(first) \in 1..n
      BY <1>1, <1>2, <1>5, <2>2
    <3> QED
      BY <1>3, <1>5, <2>2, <3>1
  <2> QED
    BY <2>1, <2>2
<1>7. \A kind \in {"build", "compile", "exec"} : \A c :
        /\ Key(MkJob(kind, s, c, a)).kind = kind /\ Key(MkJob(kind, s, c, a)).case = c
        /\ Key(MkJob(kind, s, c, a)).sid = s /\ Key(MkJob(kind, s, c, a)).att = a
  BY DEF Key, MkJob
<1>8. ASSUME NEW i \in 1..Len(jobs)
      PROVE  /\ Key(jobs[i]).sid = s /\ Key(jobs[i]).att = a
             /\ Key(jobs[i]).kind \in {"build", "compile", "exec"}
             /\ Key(jobs[i]).kind = "exec" => Key(jobs[i]).case = i - Len(first)
             /\ Key(jobs[i]).kind # "exec" => i = 1
  BY <1>6, <1>7
<1>9. ASSUME NEW i \in 1..Len(jobs), NEW k \in 1..Len(jobs), Key(jobs[i]) = Key(jobs[k])
      PROVE  i = k
  <2>1. i \in Nat /\ k \in Nat /\ Len(first) \in Nat
    BY <1>1, <1>2, <1>5
  <2> QED
    BY <1>8, <1>9, <2>1
<1> QED
  BY <1>8, <1>9 DEF KeysOf, Distinct, jobs

-----------------------------------------------------------------------------
(* Moves of jobs: what was somewhere is there or elsewhere, or nowhere.     *)
Apart == ListsDistinct /\ PlacesApart
Moved == Apart' /\ Present' \subseteq Present

(* Jobs of the dispatcher's hand or of a context are dropped.               *)
LEMMA DropMoves ==
  ASSUME Apart, queue' = queue, workers' = workers,
         disp'.hand = disp.hand \/ disp'.hand = <<>>,
         \A s \in Sids : ctx'[s].pending = ctx[s].pending \/ ctx'[s].pending = <<>>
  PROVE  Moved
<1>1. /\ KeysOf(disp'.hand) \subseteq KeysOf(disp.hand)
      /\ Distinct(disp'.hand)
  BY KeysEmpty DEF Apart, ListsDistinct
<1>2. \A s \in Sids : /\ KeysOf(ctx'[s].pending) \subseteq KeysOf(ctx[s].pending)
                      /\ Distinct(ctx'[s].pending)
  BY KeysEmpty DEF Apart, ListsDistinct
<1>3. ListsDistinct'
  BY <1>1, <1>2 DEF Apart, ListsDistinct
<1>4. PlacesApart'
  BY <1>1, <1>2 DEF Apart, PlacesApart
<1>5. Present' \subseteq Present
  BY <1>1, <1>2 DEF Present, Waiting, Working
<1> QED
  BY <1>3, <1>4, <1>5 DEF Moved, Apart

(* A thread goes on with the jobs it has, or ends.                          *)
LEMMA WorkerMoves ==
  ASSUME Apart, queue' = queue, disp' = disp,
         \A s \in Sids : ctx'[s].pending = ctx[s].pending,
         NEW w \in workers, NEW v, v.job = w.job, v.back = w.back,
         workers' = workers \ {w} \/ workers' = (workers \ {w}) \cup {v}
  PROVE  Moved
<1>1. Own(v) = Own(w)
  BY DEF Own
<1>2. ListsDistinct'
  BY DEF Apart, ListsDistinct
<1>3. PlacesApart'
  BY <1>1 DEF Apart, PlacesApart
<1>4. Present' \subseteq Present
  BY <1>1 DEF Present, Waiting, Working
<1> QED
  BY <1>2, <1>3, <1>4 DEF Moved, Apart

(* A thread empties the queue into its hands.                               *)
LEMMA ClearMoves ==
  ASSUME Apart, queue' = <<>>, disp' = disp, ctx' = ctx,
         NEW w \in workers, NEW v, v.job = w.job, v.back = queue,
         workers' = (workers \ {w}) \cup {v}
  PROVE  Moved
<1>1. /\ Own(v) = {Key(w.job)} \cup KeysOf(queue) /\ Key(w.job) \in Own(w)
      /\ Key(w.job) \notin KeysOf(queue)
      /\ KeysOf(queue') = {} /\ Distinct(queue') /\ Distinct(v.back)
  BY KeysEmpty DEF Own, Apart, PlacesApart, ListsDistinct
<1>2. ListsDistinct'
  BY <1>1 DEF Apart, ListsDistinct
<1>3. PlacesApart'
  <2>1. /\ Own(v) \cap KeysOf(disp.hand) = {}
        /\ \A s \in Sids : Own(v) \cap KeysOf(ctx[s].pending) = {}
        /\ \A u \in workers : u # w => Own(v) \cap Own(u) = {}
    BY <1>1 DEF Apart, PlacesApart
  <2> QED
    BY <1>1, <2>1 DEF Apart, PlacesApart
<1>4. Present' \subseteq Present
  BY <1>1 DEF Present, Waiting, Working
<1> QED
  BY <1>2, <1>3, <1>4 DEF Moved, Apart

(* A thread puts a job back into the queue and drops others.                *)
LEMMA PutBackMoves ==
  ASSUME Apart, queue \in Seq(Job), disp' = disp, ctx' = ctx,
         NEW w \in workers, w.back \in Seq(Job), NEW i \in 1..Len(w.back),
         queue' = Append(queue, w.back[i]),
         NEW v, v.job = w.job, v.back = SubSeq(w.back, i + 1, Len(w.back)),
         workers' = (workers \ {w}) \cup {v}
  PROVE  Moved
<1>1. /\ w.back[i] \in Job
      /\ KeysOf(v.back) \subseteq KeysOf(w.back) /\ Key(w.back[i]) \in KeysOf(w.back)
      /\ Distinct(v.back) /\ Key(w.back[i]) \notin KeysOf(v.back)
  BY KeysSubSeq, ElementOfSeq DEF Apart, ListsDistinct
<1>2. /\ Own(v) \subseteq Own(w) /\ Key(w.back[i]) \in Own(w)
      /\ Key(w.back[i]) \notin Own(v) /\ Key(w.back[i]) \notin KeysOf(queue)
  BY <1>1 DEF Own, Apart, ListsDistinct, PlacesApart
<1>3. KeysOf(queue') = KeysOf(queue) \cup {Key(w.back[i])} /\ Distinct(queue')
  BY <1>1, <1>2, KeysAppend DEF Apart, ListsDistinct
<1>4. ListsDistinct'
  BY <1>1, <1>3 DEF Apart, ListsDistinct
<1>5. PlacesApart'
  <2>1. /\ Own(v) \cap KeysOf(queue') = {}
        /\ Own(v) \cap KeysOf(disp.hand) = {} /\ KeysOf(queue') \cap KeysOf(disp.hand) = {}
        /\ \A s \in Sids : /\ Own(v) \cap KeysOf(ctx[s].pending) = {}
                           /\ KeysOf(queue') \cap KeysOf(ctx[s].pending) = {}
        /\ \A u \in workers : u # w => /\ Own(v) \cap Own(u) = {}
                                       /\ Own(u) \cap KeysOf(queue') = {}
    BY <1>2, <1>3 DEF Apart, PlacesApart
  <2> QED
    BY <2>1 DEF Apart, PlacesApart
<1>6. Present' \subseteq Present
  BY <1>2, <1>3 DEF Present, Waiting, Working
<1> QED
  BY <1>4, <1>5, <1>6 DEF Moved, Apart

(* The dispatcher takes the first job of the queue, or discards it.         *)
LEMMA TakeMoves ==
  ASSUME Apart, queue \in Seq(Job), queue # <<>>, queue' = Tail(queue),
         disp'.hand = <<Head(queue)>> \/ disp'.hand = <<>>,
         ctx' = ctx, workers' = workers
  PROVE  Moved
<1>1. /\ KeysOf(queue) = {Key(Head(queue))} \cup KeysOf(queue')
      /\ Distinct(queue') /\ Key(Head(queue)) \notin KeysOf(queue')
  BY KeysTail DEF Apart, ListsDistinct
<1>2. KeysOf(disp'.hand) \subseteq {Key(Head(queue))} /\ Distinct(disp'.hand)
  <2>1. Head(queue) \in Job
    BY HeadTailProperties
  <2> QED
    BY <2>1, KeysOne, KeysEmpty
<1>3. ListsDistinct'
  BY <1>1, <1>2 DEF Apart, ListsDistinct
<1>4. PlacesApart'
  BY <1>1, <1>2 DEF Apart, PlacesApart
<1>5. Present' \subseteq Present
  BY <1>1, <1>2 DEF Present, Waiting, Working
<1> QED
  BY <1>3, <1>4, <1>5 DEF Moved, Apart

(* The dispatcher puts the first job of its hand into the queue.            *)
LEMMA PutMoves ==
  ASSUME Apart, queue \in Seq(Job), disp.hand \in Seq(Job), disp.hand # <<>>,
         queue' = Append(queue, Head(disp.hand)), disp'.hand = Tail(disp.hand),
         ctx' = ctx, workers' = workers
  PROVE  Moved
<1>1. /\ KeysOf(disp.hand) = {Key(Head(disp.hand))} \cup KeysOf(disp'.hand)
      /\ Distinct(disp'.hand) /\ Key(Head(disp.hand)) \notin KeysOf(disp'.hand)
      /\ Key(Head(disp.hand)) \notin KeysOf(queue)
  BY KeysTail DEF Apart, ListsDistinct, PlacesApart
<1>2. /\ KeysOf(queue') = KeysOf(queue) \cup {Key(Head(disp.hand))}
      /\ Distinct(queue')
  <2>1. Head(disp.hand) \in Job
    BY HeadTailProperties
  <2> QED
    BY <1>1, <2>1, KeysAppend DEF Apart, ListsDistinct
<1>3. ListsDistinct'
  BY <1>1, <1>2 DEF Apart, ListsDistinct
<1>4. PlacesApart'
  BY <1>1, <1>2 DEF Apart, PlacesApart
<1>5. Present' \subseteq Present
  BY <1>1, <1>2 DEF Present, Waiting, Working
<1> QED
  BY <1>3, <1>4, <1>5 DEF Moved, Apart

(* The job in the dispatcher's hand becomes a thread ...                    *)
LEMMA SpawnMoves ==
  ASSUME Apart, disp.hand \in Seq(Job), disp.hand # <<>>, disp'.hand = <<>>,
         workers' = workers \cup {MkWorker(Head(disp.hand))},
         queue' = queue, ctx' = ctx
  PROVE  Moved
<1> DEFINE v == MkWorker(Head(disp.hand))
<1>1. /\ Own(v) = {Key(Head(disp.hand))} /\ Distinct(v.back)
      /\ KeysOf(v.back) = {} /\ v.job = Head(disp.hand)
  BY KeysEmpty DEF Own, MkWorker
<1>2. Key(Head(disp.hand)) \in KeysOf(disp.hand)
  BY KeysTail
<1>3. KeysOf(disp'.hand) = {} /\ Distinct(disp'.hand)
  BY KeysEmpty
<1>4. workers' = workers \cup {v}
  OBVIOUS
<1> HIDE DEF v
<1>5. ListsDistinct'
  BY <1>1, <1>3, <1>4 DEF Apart, ListsDistinct
<1>6. PlacesApart'
  BY <1>1, <1>2, <1>3, <1>4 DEF Apart, PlacesApart
<1>7. Present' \subseteq Present
  BY <1>1, <1>2, <1>3, <1>4 DEF Present, Waiting, Working
<1> QED
  BY <1>5, <1>6, <1>7 DEF Moved, Apart

(* ... or the network job of its request,                                   *)
LEMMA PassMoves ==
  ASSUME Apart, disp.hand \in Seq(Job), disp.hand # <<>>, Head(disp.hand).kind = "sa",
         NEW j, j = [Head(disp.hand) EXCEPT !.kind = "net"], disp'.hand = <<j>>,
         queue' = queue, ctx' = ctx, workers' = workers
  PROVE  Moved
<1>1. Head(disp.hand) \in Job /\ Key(Head(disp.hand)) \in KeysOf(disp.hand)
  BY HeadTailProperties, KeysTail
<1>2. j \in Job /\ Key(j) = Key(Head(disp.hand))
  BY <1>1 DEF Job, JobKinds, Key
<1>3. KeysOf(disp'.hand) \subseteq KeysOf(disp.hand) /\ Distinct(disp'.hand)
  BY <1>1, <1>2, KeysOne
<1>4. ListsDistinct'
  BY <1>3 DEF Apart, ListsDistinct
<1>5. PlacesApart'
  BY <1>3 DEF Apart, PlacesApart
<1>6. Present' \subseteq Present
  BY <1>3 DEF Present, Waiting, Working
<1> QED
  BY <1>4, <1>5, <1>6 DEF Moved, Apart

(* or makes room for the tasks that waited in the context of its id.        *)
LEMMA ReleaseMoves ==
  ASSUME Apart, NEW s \in Sids, disp'.hand = ctx[s].pending, ctx'[s].pending = <<>>,
         \A t \in Sids : t # s => ctx'[t].pending = ctx[t].pending,
         queue' = queue, workers' = workers
  PROVE  Moved
<1>1. /\ KeysOf(disp'.hand) = KeysOf(ctx[s].pending) /\ Distinct(disp'.hand)
      /\ KeysOf(ctx'[s].pending) = {} /\ Distinct(ctx'[s].pending)
  BY KeysEmpty DEF Apart, ListsDistinct
<1>2. ListsDistinct'
  BY <1>1 DEF Apart, ListsDistinct
<1>3. PlacesApart'
  BY <1>1 DEF Apart, PlacesApart
<1>4. Present' \subseteq Present
  BY <1>1 DEF Present, Waiting, Working
<1> QED
  BY <1>2, <1>3, <1>4 DEF Moved, Apart
-----------------------------------------------------------------------------
(* The steps.                                                               *)

(* A worker that is not putting jobs back keeps the jobs it has.            *)
LEMMA WorkerGoesOn ==
  ASSUME TypeInv, NEW w \in workers, WorkerStep(w), ~ClearJobs(w), ~PutBack(w)
  PROVE  /\ queue' = queue
         /\ \E v : /\ v.job = w.job /\ v.back = w.back
                   /\ workers' = workers \ {w} \/ workers' = (workers \ {w}) \cup {v}
<1>1. w \in Worker
  BY DEF TypeInv, TypeOK
<1>2. \A pc, lk, f : /\ [w EXCEPT !.pc = pc].job = w.job
                     /\ [w EXCEPT !.pc = pc].back = w.back
                     /\ [w EXCEPT !.pc = pc, !.lk = lk].job = w.job
                     /\ [w EXCEPT !.pc = pc, !.lk = lk].back = w.back
                     /\ [w EXCEPT !.pc = pc, !.src = f].job = w.job
                     /\ [w EXCEPT !.pc = pc, !.src = f].back = w.back
                     /\ [w EXCEPT !.pc = pc, !.lk = lk, !.src = f].job = w.job
                     /\ [w EXCEPT !.pc = pc, !.lk = lk, !.src = f].back = w.back
                     /\ [w EXCEPT !.pc = pc, !.src = f, !.lk = lk].job = w.job
                     /\ [w EXCEPT !.pc = pc, !.src = f, !.lk = lk].back = w.back
  BY <1>1 DEF Worker
<1>3. queue' = queue
  BY DEF WorkerStep, StartCompile, FinishCompile, StartBuild, FinishBuild, FailBuild,
         MarkBuildFailed, PrepareCase, NoTeacher, RunCase, EndRun, FetchLock,
         RecordCase, RaiseInTool
<1>4. \/ Die(w)
      \/ \E pc : Step(w, [w EXCEPT !.pc = pc])
      \/ \E pc, lk : Step(w, [w EXCEPT !.pc = pc, !.lk = lk])
      \/ \E pc, f : Step(w, [w EXCEPT !.pc = pc, !.src = f])
      \/ \E pc, lk, f : Step(w, [w EXCEPT !.pc = pc, !.lk = lk, !.src = f])
      \/ \E pc, lk, f : Step(w, [w EXCEPT !.pc = pc, !.src = f, !.lk = lk])
  <2>1. CASE StartCompile(w) \/ StartBuild(w)
    BY <2>1 DEF StartCompile, StartBuild
  <2>2. CASE PrepareCase(w)
    BY <2>2 DEF PrepareCase
  <2>3. CASE RunCase(w) \/ EndRun(w) \/ FetchLock(w) \/ FailBuild(w)
    BY <2>3 DEF RunCase, EndRun, FetchLock, FailBuild
  <2>4. CASE \/ FinishCompile(w) \/ FinishBuild(w) \/ MarkBuildFailed(w)
             \/ NoTeacher(w) \/ RecordCase(w) \/ RaiseInTool(w)
    BY <2>4 DEF FinishCompile, FinishBuild, MarkBuildFailed, NoTeacher, RecordCase,
                RaiseInTool, MarkFailed
  <2> QED
    BY <2>1, <2>2, <2>3, <2>4 DEF WorkerStep
<1>5. CASE Die(w)
  BY <1>3, <1>5 DEF Die
<1>6. ASSUME NEW v, v.job = w.job, v.back = w.back, Step(w, v)
      PROVE  \E u : /\ u.job = w.job /\ u.back = w.back
                    /\ workers' = workers \ {w} \/ workers' = (workers \ {w}) \cup {u}
  BY <1>6 DEF Step
<1>7. CASE \E pc : Step(w, [w EXCEPT !.pc = pc])
  <2>1. PICK pc, v : v = [w EXCEPT !.pc = pc] /\ Step(w, v)
    BY <1>7
  <2>2. v.job = w.job /\ v.back = w.back
    BY <1>2, <2>1
  <2> QED
    BY <1>3, <1>6, <2>1, <2>2
<1>8. CASE \E pc, lk : Step(w, [w EXCEPT !.pc = pc, !.lk = lk])
  <2>1. PICK pc, lk, v : v = [w EXCEPT !.pc = pc, !.lk = lk] /\ Step(w, v)
    BY <1>8
  <2>2. v.job = w.job /\ v.back = w.back
    BY <1>2, <2>1
  <2> QED
    BY <1>3, <1>6, <2>1, <2>2
<1>9. CASE \E pc, f : Step(w, [w EXCEPT !.pc = pc, !.src = f])
  <2>1. PICK pc, f, v : v = [w EXCEPT !.pc = pc, !.src = f] /\ Step(w, v)
    BY <1>9
  <2>2. v.job = w.job /\ v.back = w.back
    BY <1>2, <2>1
  <2> QED
    BY <1>3, <1>6, <2>1, <2>2
<1>10. CASE \E pc, lk, f : Step(w, [w EXCEPT !.pc = pc, !.lk = lk, !.src = f])
  <2>1. PICK pc, lk, f, v : /\ v = [w EXCEPT !.pc = pc, !.lk = lk, !.src = f]
                            /\ Step(w, v)
    BY <1>10
  <2>2. v.job = w.job /\ v.back = w.back
    BY <1>2, <2>1
  <2> QED
    BY <1>3, <1>6, <2>1, <2>2
<1>11. CASE \E pc, lk, f : Step(w, [w EXCEPT !.pc = pc, !.src = f, !.lk = lk])
  <2>1. PICK pc, lk, f, v : /\ v = [w EXCEPT !.pc = pc, !.src = f, !.lk = lk]
                            /\ Step(w, v)
    BY <1>11
  <2>2. v.job = w.job /\ v.back = w.back
    BY <1>2, <2>1
  <2> QED
    BY <1>3, <1>6, <2>1, <2>2
<1> QED
  BY <1>4, <1>5, <1>7, <1>8, <1>9, <1>10, <1>11

(* A step of a worker.                                                      *)
LEMMA WorkerStepMoves ==
  ASSUME TypeInv, Apart, NEW w \in workers, WorkerStep(w)
  PROVE  Moved /\ handlers' = handlers /\ requests' = requests
<1>1. handlers' = handlers /\ requests' = requests /\ disp' = disp
  BY DEF WorkerStep, StartCompile, FinishCompile, StartBuild, FinishBuild, FailBuild,
         ClearJobs, PutBack, MarkBuildFailed, PrepareCase, NoTeacher, RunCase, EndRun,
         FetchLock, RecordCase, RaiseInTool, ghost
<1>2. w \in Worker /\ w.back \in Seq(Job) /\ queue \in Seq(Job)
  BY DEF TypeInv, TypeOK, Worker
<1>3. CASE ClearJobs(w)
  <2> DEFINE v == [w EXCEPT !.pc = "fail", !.back = queue]
  <2>1. v.job = w.job /\ v.back = queue
    BY <1>2 DEF Worker
  <2>2. /\ queue' = <<>> /\ ctx' = ctx /\ workers' = (workers \ {w}) \cup {v}
    BY <1>3 DEF ClearJobs, Step
  <2> HIDE DEF v
  <2> QED
    BY <1>1, <2>1, <2>2, ClearMoves
<1>4. CASE PutBack(w)
  <2>1. PICK i \in OthersJobs(w) :
          /\ queue' = Append(queue, w.back[i])
          /\ Step(w, [w EXCEPT !.back = SubSeq(@, i + 1, Len(@))])
    BY <1>4 DEF PutBack
  <2> DEFINE v == [w EXCEPT !.back = SubSeq(@, i + 1, Len(@))]
  <2>2. i \in 1..Len(w.back) /\ ctx' = ctx
    BY <1>4 DEF OthersJobs, PutBack
  <2>3. /\ v.job = w.job /\ v.back = SubSeq(w.back, i + 1, Len(w.back))
    BY <1>2 DEF Worker
  <2>4. workers' = (workers \ {w}) \cup {v}
    BY <2>1 DEF Step
  <2> HIDE DEF v
  <2> QED
    BY <1>1, <1>2, <2>1, <2>2, <2>3, <2>4, PutBackMoves
<1>5. CASE ~ClearJobs(w) /\ ~PutBack(w)
  <2>1. PICK v : /\ v.job = w.job /\ v.back = w.back
                 /\ workers' = workers \ {w} \/ workers' = (workers \ {w}) \cup {v}
    BY <1>5, WorkerGoesOn
  <2>2. queue' = queue /\ \A s \in Sids : ctx'[s].pending = ctx[s].pending
    BY <1>5, WorkerGoesOn, WorkerPending
  <2> QED
    BY <1>1, <2>1, <2>2, WorkerMoves
<1> QED
  BY <1>3, <1>4, <1>5

(* A step of a completing thread.                                           *)
LEMMA CompletionStepMoves ==
  ASSUME TypeInv, Apart, NEW c \in completing, CompletionStep(c)
  PROVE  Moved /\ handlers' = handlers /\ requests' = requests
<1>1. handlers' = handlers /\ requests' = requests /\ workers' = workers /\ queue' = queue
  BY DEF CompletionStep, PutResult, CleanData, BackupData, ReleaseContext,
         ReleaseCustom, ghost
<1>2. disp'.hand = disp.hand \/ disp'.hand = <<>>
  <2>1. \/ disp' = disp \/ disp' = [pc |-> "loop", hand |-> <<>>, fatal |-> FALSE]
        \/ disp' = [disp EXCEPT !.pc = "dead", !.hand = <<>>]
        \/ disp' = [disp EXCEPT !.pc = "saexc"]
    BY DEF CompletionStep, PutResult, CleanData, BackupData, ReleaseContext,
           ReleaseCustom, AfterCompletion
  <2>2. disp \in [pc : DispPC, hand : Seq(Job), fatal : BOOLEAN]
    BY DEF TypeInv, TypeOK
  <2>3. [disp EXCEPT !.pc = "saexc"].hand = disp.hand
    BY <2>2
  <2>4. [disp EXCEPT !.pc = "dead", !.hand = <<>>].hand = <<>>
    BY <2>2
  <2>5. [pc |-> "loop", hand |-> <<>>, fatal |-> FALSE].hand = <<>>
    OBVIOUS
  <2> QED
    BY <2>1, <2>3, <2>4, <2>5
<1> QED
  BY <1>1, <1>2, CompletionPending, DropMoves

(* A step of the dispatcher.                                                *)
LEMMA DispatcherStepMoves ==
  ASSUME TypeInv, Apart, disp.pc = "sa" => Cur.kind = "sa", DispatcherStep
  PROVE  Moved /\ handlers' = handlers /\ requests' = requests
<1> SUFFICES Moved
  BY DEF DispatcherStep, TakeJob, DropTimedOut, DeferTrial, LoseDispatcher,
         StartAnalysis, StartNetwork, StartBuildThread, StartCompileThread,
         StartCaseThread, Requeue, PutJob, PassAnalysis, FailAnalysis, RaiseAnalysis,
         FinishNetwork, FailNetwork, others
<1>1. /\ disp.hand \in Seq(Job) /\ queue \in Seq(Job)
      /\ disp \in [pc : DispPC, hand : Seq(Job), fatal : BOOLEAN]
      /\ disp.pc \notin {"loop", "dead"} => disp.hand # <<>>
  BY DEF TypeInv, TypeOK, DispatcherOwnsOne
<1>2. Loop => disp'.hand = <<>>
  BY DEF Loop
<1>3. \A pc, hand : At(pc, hand) => disp'.hand = hand /\ disp'.pc = pc
  BY <1>1 DEF At
<1>4. CASE TakeJob
  BY <1>1, <1>2, <1>3, <1>4, TakeMoves DEF TakeJob
<1>5. CASE PutJob
  <2>1. disp'.hand = Tail(disp.hand)
    BY <1>2, <1>3, <1>5 DEF PutJob
  <2> QED
    BY <1>1, <1>5, <2>1, PutMoves DEF PutJob, Cur
<1>6. CASE StartBuildThread \/ StartCompileThread \/ StartCaseThread
  BY <1>1, <1>2, <1>6, SpawnMoves
     DEF StartBuildThread, StartCompileThread, StartCaseThread, Spawn, Cur, Ready
<1>7. CASE PassAnalysis
  <2>1. PICK j : j = [Cur EXCEPT !.kind = "net"]
    OBVIOUS
  <2>2. /\ disp'.hand = <<j>> /\ queue' = queue /\ ctx' = ctx /\ workers' = workers
        /\ disp.hand # <<>> /\ Cur.kind = "sa"
    BY <1>1, <1>3, <1>7, <2>1 DEF PassAnalysis
  <2> QED
    BY <1>1, <2>1, <2>2, PassMoves DEF Cur
<1>8. CASE FinishNetwork
  <2>1. Cur \in Job /\ Cur.sid \in Sids
    <3>1. disp.hand # <<>>
      BY <1>1, <1>8 DEF FinishNetwork
    <3>2. Cur \in Job
      BY <1>1, <3>1, HeadTailProperties DEF Cur
    <3> QED
      BY <3>2 DEF Job
  <2>2. disp'.hand = ctx[Cur.sid].pending /\ ctx'[Cur.sid].pending = <<>>
    BY <1>2, <1>3, <1>8, <2>1 DEF FinishNetwork, TypeInv, TypeOK, Context
  <2>3. \A t \in Sids : t # Cur.sid => ctx'[t].pending = ctx[t].pending
    BY <1>8, DispatcherPending
  <2> QED
    BY <1>8, <2>1, <2>2, <2>3, ReleaseMoves DEF FinishNetwork
<1>9. CASE \/ DropTimedOut \/ DeferTrial \/ LoseDispatcher \/ StartAnalysis
           \/ StartNetwork \/ Requeue \/ FailAnalysis \/ RaiseAnalysis \/ FailNetwork
  <2>1. queue' = queue /\ workers' = workers
    BY <1>9 DEF DropTimedOut, DeferTrial, LoseDispatcher, StartAnalysis,
                StartNetwork, Requeue, FailAnalysis, RaiseAnalysis, FailNetwork
  <2>2. disp'.hand = disp.hand \/ disp'.hand = <<>>
    <3>1. \A fatal : [disp EXCEPT !.pc = "report", !.fatal = fatal].hand = disp.hand
      BY <1>1
    <3> QED
      BY <1>2, <1>3, <1>9, <3>1
         DEF DropTimedOut, DeferTrial, LoseDispatcher, StartAnalysis, StartNetwork,
             Requeue, FailAnalysis, RaiseAnalysis, FailNetwork, FailSubmission
  <2> QED
    BY <1>9, <2>1, <2>2, DispatcherPending, DropMoves
<1> QED
  BY <1>4, <1>5, <1>6, <1>7, <1>8, <1>9 DEF DispatcherStep
(* A handler of dispatcher.handle sets the waiting jobs of an id ...        *)
LEMMA PlanMoves ==
  ASSUME Apart, NEW s \in Sids, Distinct(ctx'[s].pending),
         KeysOf(ctx'[s].pending) \cap Present = {},
         \A t \in Sids : t # s => ctx'[t].pending = ctx[t].pending,
         queue' = queue, disp' = disp, workers' = workers
  PROVE  Apart' /\ Present' \subseteq Present \cup KeysOf(ctx'[s].pending)
<1>1. /\ KeysOf(ctx'[s].pending) \cap KeysOf(queue) = {}
      /\ KeysOf(ctx'[s].pending) \cap KeysOf(disp.hand) = {}
      /\ \A t \in Sids : KeysOf(ctx'[s].pending) \cap KeysOf(ctx[t].pending) = {}
      /\ \A w \in workers : KeysOf(ctx'[s].pending) \cap Own(w) = {}
  BY DEF Present, Waiting, Working
<1>2. ListsDistinct'
  BY DEF Apart, ListsDistinct
<1>3. PlacesApart'
  BY <1>1 DEF Apart, PlacesApart
<1>4. Present' \subseteq Present \cup KeysOf(ctx'[s].pending)
  BY DEF Present, Waiting, Working
<1> QED
  BY <1>2, <1>3, <1>4 DEF Apart

(* ... or queues a new job.                                                 *)
LEMMA EnqueueMoves ==
  ASSUME Apart, queue \in Seq(Job), NEW j \in Job, Key(j) \notin Present,
         queue' = Append(queue, j), ctx' = ctx, disp' = disp, workers' = workers
  PROVE  Apart' /\ Present' \subseteq Present \cup {Key(j)}
<1>1. /\ Key(j) \notin KeysOf(queue) /\ Key(j) \notin KeysOf(disp.hand)
      /\ \A t \in Sids : Key(j) \notin KeysOf(ctx[t].pending)
      /\ \A w \in workers : Key(j) \notin Own(w)
  BY DEF Present, Waiting, Working
<1>2. KeysOf(queue') = KeysOf(queue) \cup {Key(j)} /\ Distinct(queue')
  BY <1>1, KeysAppend DEF Apart, ListsDistinct
<1>3. ListsDistinct'
  BY <1>2 DEF Apart, ListsDistinct
<1>4. PlacesApart'
  BY <1>1, <1>2 DEF Apart, PlacesApart
<1>5. Present' \subseteq Present \cup {Key(j)}
  BY <1>2 DEF Present, Waiting, Working
<1> QED
  BY <1>3, <1>4, <1>5 DEF Apart

(* A step of a handler: its own request's jobs may come into being.         *)
LEMMA HandlersStay ==
  ASSUME TypeOK, HandlersApart, requests' = requests, NEW h \in handlers,
         NEW g, g.sid = h.sid, g.att = h.att,
         NEW K, Present' \subseteq Present \cup K,
         \A k \in K : k.sid = h.sid /\ k.att = h.att,
         \/ handlers' = handlers \ {h}
         \/ /\ handlers' = (handlers \ {h}) \cup {g}
            /\ h.pc \notin {"enqueue", "unwind"} \/ g.pc = "unwind"
            /\ \A k \in K : g.pc = "enqueue" /\ k.kind # "net"
  PROVE  HandlersApart'
<1>1. h.sid \in Sids /\ h.att \in 0..requests[h.sid]
  BY Numbers DEF TypeOK, Handler, HandlersApart
<1>2. \A f \in handlers' : f \in handlers \ {h} \/ f = g
  OBVIOUS
<1>3. \A f \in handlers' : f.att <= requests[f.sid]
  BY <1>1, <1>2 DEF HandlersApart
<1>4. \A f, e \in handlers' : f.sid = e.sid /\ f.att = e.att => f = e
  BY <1>2 DEF HandlersApart
<1>5. \A k \in Present' : k.sid \in Sids /\ k.att \in 0..requests[k.sid]
  BY <1>1 DEF HandlersApart
<1>6. ASSUME NEW f \in handlers', NEW k \in Present', k.sid = f.sid, k.att = f.att
      PROVE  f.pc = "unwind" \/ (f.pc = "enqueue" /\ k.kind # "net")
  <2>1. CASE f \in handlers \ {h}
    <3>1. k \notin K
      BY <1>6, <2>1 DEF HandlersApart
    <3> QED
      BY <1>6, <2>1, <3>1 DEF HandlersApart
  <2>2. CASE f \notin handlers \ {h}
    <3>1. /\ f = g /\ handlers' = (handlers \ {h}) \cup {g}
          /\ h.pc \notin {"enqueue", "unwind"} \/ g.pc = "unwind"
          /\ \A l \in K : g.pc = "enqueue" /\ l.kind # "net"
      BY <1>2, <2>2
    <3>2. CASE k \in K
      BY <3>1, <3>2
    <3>3. CASE k \notin K
      <4>1. k \in Present /\ k.sid = h.sid /\ k.att = h.att
        BY <1>6, <3>1, <3>3
      <4> QED
        BY <3>1, <4>1 DEF HandlersApart
    <3> QED
      BY <3>2, <3>3
  <2> QED
    BY <2>1, <2>2
<1> QED
  BY <1>3, <1>4, <1>5, <1>6 DEF HandlersApart

(* A step of another thread.                                                *)
LEMMA HandlersKept ==
  ASSUME HandlersApart, Present' \subseteq Present,
         handlers' = handlers, requests' = requests
  PROVE  HandlersApart'
BY DEF HandlersApart

(* A step of dispatcher.handle.                                             *)
LEMMA HandlerStepMoves ==
  ASSUME TypeInv, Apart, HandlersApart, NEW h \in handlers, HandlerStep(h)
  PROVE  Apart' /\ HandlersApart' /\ disp' = disp
<1>1. /\ requests' = requests /\ disp' = disp /\ workers' = workers
      /\ queue' = queue \/ Enqueue(h)
  BY DEF HandlerStep, ForgetLeftover, WipeLeftover, CreateAgain, MarkTrial,
         CheckRequest, FailRequest, Register, PlanTasks, Enqueue, RejectFull,
         UnwindRequest, ghost
<1>2. /\ h \in Handler /\ h.sid \in Sids /\ h.att \in Attempts /\ TypeOK
      /\ queue \in Seq(Job)
  BY DEF TypeInv, TypeOK, Handler
<1>3. \A pc : /\ [h EXCEPT !.pc = pc].sid = h.sid /\ [h EXCEPT !.pc = pc].att = h.att
              /\ [h EXCEPT !.pc = pc].pc = pc
  BY <1>2 DEF Handler
<1>4. \A k \in Present : k.sid = h.sid /\ k.att = h.att =>
        h.pc = "unwind" \/ (h.pc = "enqueue" /\ k.kind # "net")
  BY DEF HandlersApart
<1>5. CASE PlanTasks(h)
  <2> DEFINE K == KeysOf(TasksToRun(h.sid, h.att))
  <2>1. /\ ctx'[h.sid].pending = TasksToRun(h.sid, h.att)
        /\ \A t \in Sids : t # h.sid => ctx'[t].pending = ctx[t].pending
    BY <1>2, <1>5, HandlerPending
  <2>2. /\ Distinct(TasksToRun(h.sid, h.att))
        /\ \A k \in K : k.sid = h.sid /\ k.att = h.att /\ k.kind # "net"
    BY <1>2, TasksKeys
  <2>3. K \cap Present = {}
    BY <1>4, <1>5, <2>2 DEF PlanTasks
  <2> HIDE DEF K
  <2>4. KeysOf(ctx'[h.sid].pending) = K
    BY <2>1 DEF K
  <2>5. Apart' /\ Present' \subseteq Present \cup K
    <3>1. queue' = queue
      BY <1>5 DEF PlanTasks
    <3> QED
      BY <1>1, <1>2, <2>1, <2>2, <2>3, <2>4, <3>1, PlanMoves
  <2>6. PICK g : g = [h EXCEPT !.pc = "enqueue"]
    OBVIOUS
  <2>7. /\ g.sid = h.sid /\ g.att = h.att /\ g.pc = "enqueue"
        /\ handlers' = (handlers \ {h}) \cup {g} /\ h.pc = "plan"
    BY <1>3, <1>5, <2>6 DEF PlanTasks, Goto
  <2>8. HandlersApart'
    BY <1>1, <1>2, <2>2, <2>5, <2>7, HandlersStay
  <2> QED
    BY <1>1, <2>5, <2>8
<1>6. CASE Enqueue(h)
  <2>1. PICK j : j = FirstJob(h)
    OBVIOUS
  <2>2. /\ j \in Job /\ Key(j).kind = "net"
        /\ Key(j).sid = h.sid /\ Key(j).att = h.att
    BY <1>2, <2>1, JobType, Numbers DEF FirstJob, MkJob, JobKinds, Key
  <2>3. Key(j) \notin Present
    BY <1>4, <1>6, <2>2 DEF Enqueue
  <2>4. queue' = Append(queue, j) /\ ctx' = ctx
    BY <1>6, <2>1 DEF Enqueue
  <2>5. Apart' /\ Present' \subseteq Present \cup {Key(j)}
    BY <1>1, <1>2, <2>2, <2>3, <2>4, EnqueueMoves
  <2>6. handlers' = handlers \ {h}
    BY <1>6 DEF Enqueue, Leave
  <2>7. HandlersApart'
    <3>1. \A k \in {Key(j)} : k.sid = h.sid /\ k.att = h.att
      BY <2>2
    <3> QED
      BY <1>1, <1>2, <2>5, <2>6, <3>1, HandlersStay
  <2> QED
    BY <1>1, <2>5, <2>7
<1>7. CASE ~PlanTasks(h) /\ ~Enqueue(h)
  <2>1. Moved
    BY <1>1, <1>7, HandlerPending, DropMoves
  <2>2. \/ Leave(h)
        \/ \E pc : Goto(h, pc) /\ (h.pc \notin {"enqueue", "unwind"} \/ pc = "unwind")
    BY <1>7 DEF HandlerStep, ForgetLeftover, WipeLeftover, CreateAgain, MarkTrial,
           CheckRequest, FailRequest, Register, RejectFull, UnwindRequest
  <2>3. \E g : /\ g.sid = h.sid /\ g.att = h.att
               /\ \/ handlers' = handlers \ {h}
                  \/ /\ handlers' = (handlers \ {h}) \cup {g}
                     /\ h.pc \notin {"enqueue", "unwind"} \/ g.pc = "unwind"
    <3>1. CASE Leave(h)
      BY <3>1 DEF Leave
    <3>2. ASSUME NEW pc, Goto(h, pc), h.pc \notin {"enqueue", "unwind"} \/ pc = "unwind"
          PROVE  \E g : /\ g.sid = h.sid /\ g.att = h.att
                        /\ handlers' = (handlers \ {h}) \cup {g}
                        /\ h.pc \notin {"enqueue", "unwind"} \/ g.pc = "unwind"
      <4>1. PICK g : g = [h EXCEPT !.pc = pc]
        OBVIOUS
      <4>2. /\ g.sid = h.sid /\ g.att = h.att /\ g.pc = pc
            /\ handlers' = (handlers \ {h}) \cup {g}
        BY <1>3, <3>2, <4>1 DEF Goto
      <4> QED
        BY <3>2, <4>2
    <3> QED
      BY <2>2, <3>1, <3>2
  <2>4. HandlersApart'
    BY <1>1, <1>2, <2>1, <2>3, HandlersStay DEF Moved
  <2> QED
    BY <1>1, <2>1, <2>4 DEF Moved
<1> QED
  BY <1>5, <1>6, <1>7

(* A new request gets a number of its own.                                  *)
LEMMA RequestStepMoves ==
  ASSUME TypeInv, Apart, HandlersApart, NEW s \in Sids, CreateDir(s) \/ FindLeftover(s)
  PROVE  Apart' /\ HandlersApart' /\ disp' = disp
<1>1. /\ queue' = queue /\ disp' = disp /\ workers' = workers /\ ctx' = ctx
      /\ requests' = [requests EXCEPT ![s] = @ + 1]
      /\ requests \in [Sids -> 0..MaxRequests] /\ handlers \subseteq Handler
  BY DEF CreateDir, FindLeftover, TypeInv, TypeOK
<1>2. Moved
  BY <1>1, DropMoves
<1>3. /\ requests'[s] = requests[s] + 1 /\ requests[s] \in Nat
      /\ \A t \in Sids : t # s => requests'[t] = requests[t]
      /\ \A t \in Sids : requests[t] \in Nat
  BY <1>1, ConstantsAssumption
<1>4. \/ handlers' = handlers
      \/ \E pc, g : /\ handlers' = handlers \cup {g}
                    /\ g = [sid |-> s, att |-> requests'[s], pc |-> pc]
  BY DEF CreateDir, FindLeftover, Arrive
<1>5. PICK g : /\ g.sid = s /\ g.att = requests'[s]
               /\ handlers' = handlers \/ handlers' = handlers \cup {g}
  <2>1. PICK e : e = [sid |-> s, att |-> requests'[s]]
    OBVIOUS
  <2>2. e.sid = s /\ e.att = requests'[s]
    BY <2>1
  <2>3. \A pc, g : g = [sid |-> s, att |-> requests'[s], pc |-> pc]
                     => g.sid = s /\ g.att = requests'[s]
    OBVIOUS
  <2> QED
    BY <1>4, <2>2, <2>3
<1>6. \A f \in handlers : /\ f.sid \in Sids /\ f.att \in Nat
                          /\ f.att <= requests[f.sid]
  BY <1>1, Numbers, ConstantsAssumption DEF Handler, HandlersApart, Attempts
<1>7. \A f \in handlers' : f.att <= requests'[f.sid]
  BY <1>3, <1>5, <1>6
<1>8. \A f, e \in handlers' : f.sid = e.sid /\ f.att = e.att => f = e
  <2>1. \A f \in handlers : f.sid = s => f.att # requests'[s]
    BY <1>3, <1>6
  <2> QED
    BY <1>5, <2>1 DEF HandlersApart
<1>9. \A k \in Present' : /\ k.sid \in Sids /\ k.att \in 0..requests[k.sid]
                          /\ k \in Present
  BY <1>2 DEF Moved, HandlersApart
<1>10. \A k \in Present' : k.sid \in Sids /\ k.att \in 0..requests'[k.sid]
  BY <1>3, <1>9
<1>11. ASSUME NEW f \in handlers', NEW k \in Present', k.sid = f.sid, k.att = f.att
       PROVE  f.pc = "unwind" \/ (f.pc = "enqueue" /\ k.kind # "net")
  <2>1. f \in handlers
    BY <1>3, <1>5, <1>9, <1>11
  <2> QED
    BY <1>9, <1>11, <2>1 DEF HandlersApart
<1>12. HandlersApart'
  BY <1>7, <1>8, <1>10, <1>11 DEF HandlersApart
<1> QED
  BY <1>1, <1>2, <1>12 DEF Moved

(* Only StartAnalysis brings the dispatcher to the analysis of a job.       *)
LEMMA AnalysisStep ==
  ASSUME TypeInv, AnalysisInHand, DispatcherStep \/ (\E c \in completing : CompletionStep(c))
  PROVE  AnalysisInHand'
<1>1. disp \in [pc : DispPC, hand : Seq(Job), fatal : BOOLEAN]
  BY DEF TypeInv, TypeOK
<1>2. \A pc, hand : At(pc, hand) => disp'.pc = pc /\ disp'.hand = hand
  BY <1>1 DEF At
<1>3. Loop => disp'.pc = "loop"
  BY DEF Loop
<1>4. \A fatal : [disp EXCEPT !.pc = "report", !.fatal = fatal].pc = "report"
  BY <1>1
<1>5. /\ [disp EXCEPT !.pc = "dead", !.hand = <<>>].pc = "dead"
      /\ [disp EXCEPT !.pc = "saexc"].pc = "saexc"
  BY <1>1
<1>6. [pc |-> "loop", hand |-> <<>>, fatal |-> FALSE].pc = "loop"
  OBVIOUS
<1>7. CASE \E c \in completing : CompletionStep(c)
  <2>1. disp' = disp \/ (\E raised : disp' = AfterCompletion(raised))
    BY <1>7 DEF CompletionStep, PutResult, CleanData, BackupData, ReleaseContext,
                ReleaseCustom
  <2>2. \A raised : AfterCompletion(raised).pc \in {"loop", "dead", "saexc"}
    BY <1>5, <1>6 DEF AfterCompletion
  <2>3. disp' = disp \/ disp'.pc \in {"loop", "dead", "saexc"}
    BY <2>1, <2>2
  <2> QED
    BY <2>3 DEF AnalysisInHand, Cur
<1>8. CASE StartAnalysis
  BY <1>2, <1>8 DEF StartAnalysis, Ready, AnalysisInHand, Cur
<1>9. CASE FailAnalysis \/ RaiseAnalysis \/ FailNetwork
  <2>1. Loop \/ \E fatal : disp' = [disp EXCEPT !.pc = "report", !.fatal = fatal]
    BY <1>9 DEF FailAnalysis, RaiseAnalysis, FailNetwork, FailSubmission
  <2> QED
    BY <1>3, <1>4, <2>1 DEF AnalysisInHand
<1>10. CASE \/ TakeJob \/ DropTimedOut \/ DeferTrial \/ LoseDispatcher \/ StartNetwork
            \/ StartBuildThread \/ StartCompileThread \/ StartCaseThread \/ Requeue
            \/ PutJob \/ PassAnalysis \/ FinishNetwork
  <2>1. Loop \/ \E pc \in {"check", "put", "dead", "net"} : \E hand : At(pc, hand)
    BY <1>10
       DEF TakeJob, DropTimedOut, DeferTrial, LoseDispatcher, StartNetwork,
           StartBuildThread, StartCompileThread, StartCaseThread, Requeue, PutJob,
           PassAnalysis, FinishNetwork
  <2> QED
    BY <1>2, <1>3, <2>1 DEF AnalysisInHand
<1> QED
  BY <1>7, <1>8, <1>9, <1>10 DEF DispatcherStep

(* Every step keeps the jobs apart.                                         *)
LEMMA JobsStep == TypeInv /\ JobsApart /\ [Next]_vars => JobsApart'
<1> SUFFICES ASSUME TypeInv, JobsApart, [Next]_vars PROVE JobsApart'
  OBVIOUS
<1>0. Apart /\ HandlersApart /\ AnalysisInHand
  BY DEF JobsApart, Apart
<1>1. SUFFICES Apart' /\ HandlersApart' /\ AnalysisInHand'
  BY DEF JobsApart, Apart
<1>2. CASE Request
  <2>1. Apart' /\ HandlersApart' /\ disp' = disp
    BY <1>0, <1>2, RequestStepMoves DEF Request
  <2> QED
    BY <1>0, <2>1 DEF AnalysisInHand, Cur
<1>3. CASE Clock
  <2>1. PICK s \in Sids : Expire(s)
    BY <1>3 DEF Clock
  <2>2. /\ queue' = queue /\ workers' = workers /\ disp' = disp
        /\ handlers' = handlers /\ requests' = requests
    BY <2>1 DEF Expire, ghost
  <2>3. Moved
    BY <1>0, <2>1, <2>2, RequestPending, DropMoves
  <2> QED
    BY <1>0, <2>2, <2>3, HandlersKept DEF Moved, AnalysisInHand, Cur
<1>4. CASE HandlersStep
  <2>1. Apart' /\ HandlersApart' /\ disp' = disp
    BY <1>0, <1>4, HandlerStepMoves DEF HandlersStep
  <2> QED
    BY <1>0, <2>1 DEF AnalysisInHand, Cur
<1>5. CASE DispatcherStep
  <2>1. Moved /\ handlers' = handlers /\ requests' = requests
    BY <1>0, <1>5, DispatcherStepMoves DEF AnalysisInHand
  <2> QED
    BY <1>0, <1>5, <2>1, HandlersKept, AnalysisStep DEF Moved
<1>6. CASE WorkersStep
  <2>1. PICK w \in workers : WorkerStep(w)
    BY <1>6 DEF WorkersStep
  <2>2. Moved /\ handlers' = handlers /\ requests' = requests
    BY <1>0, <2>1, WorkerStepMoves
  <2>3. disp' = disp
    BY <2>1 DEF WorkerStep, StartCompile, FinishCompile, StartBuild, FinishBuild,
       FailBuild, ClearJobs, PutBack, MarkBuildFailed, PrepareCase, NoTeacher,
       RunCase, EndRun, FetchLock, RecordCase, RaiseInTool
  <2> QED
    BY <1>0, <2>2, <2>3, HandlersKept DEF Moved, AnalysisInHand, Cur
<1>7. CASE CompletionsStep
  <2>1. PICK c \in completing : CompletionStep(c)
    BY <1>7 DEF CompletionsStep
  <2>2. Moved /\ handlers' = handlers /\ requests' = requests
    BY <1>0, <2>1, CompletionStepMoves
  <2> QED
    BY <1>0, <2>1, <2>2, HandlersKept, AnalysisStep DEF Moved
<1>8. CASE UNCHANGED vars
  BY <1>0, <1>8 DEF vars, ghost, Apart, ListsDistinct, PlacesApart, HandlersApart,
                    Present, Waiting, Working, AnalysisInHand, Cur
<1> QED
  BY <1>2, <1>3, <1>4, <1>5, <1>6, <1>7, <1>8 DEF Next, Idle

(* There are no jobs at the start.                                          *)
LEMMA InitJobs == Init => JobsApart
<1> SUFFICES ASSUME Init PROVE JobsApart
  OBVIOUS
<1>1. \A s \in Sids : ctx[s].pending = <<>>
  BY DEF Init, NoContext
<1>2. queue = <<>> /\ disp.hand = <<>> /\ disp.pc = "loop" /\ workers = {} /\ handlers = {}
  BY DEF Init
<1>3. ListsDistinct
  BY <1>1, <1>2, KeysEmpty DEF ListsDistinct
<1>4. PlacesApart
  BY <1>1, <1>2, KeysEmpty DEF PlacesApart
<1>5. Present = {}
  BY <1>1, <1>2, KeysEmpty DEF Present, Waiting, Working
<1>6. HandlersApart
  BY <1>2, <1>5 DEF HandlersApart
<1> QED
  BY <1>2, <1>3, <1>4, <1>6 DEF JobsApart, AnalysisInHand
-----------------------------------------------------------------------------
(* From keys to jobs.                                                       *)

(* Putting two lists that share no job one after the other.                 *)
LEMMA KeysConcat ==
  ASSUME NEW jobs \in Seq(Job), NEW more \in Seq(Job),
         Distinct(jobs), Distinct(more), KeysOf(jobs) \cap KeysOf(more) = {}
  PROVE  /\ jobs \o more \in Seq(Job)
         /\ Distinct(jobs \o more)
         /\ KeysOf(jobs \o more) = KeysOf(jobs) \cup KeysOf(more)
<1> DEFINE both == jobs \o more
           m    == Len(jobs)
           n    == Len(more)
<1>1. m \in Nat /\ n \in Nat /\ both \in Seq(Job)
  BY LenProperties, ConcatProperties
<1>2. /\ Len(both) = m + n
      /\ \A i \in 1..m + n : both[i] = IF i <= m THEN jobs[i] ELSE more[i - m]
  BY ConcatProperties
<1> HIDE DEF both, m, n
<1>3. \A i \in 1..m + n : \/ i \in 1..m /\ both[i] = jobs[i]
                          \/ i - m \in 1..n /\ both[i] = more[i - m]
  BY <1>1, <1>2
<1>4. /\ \A i \in 1..m : i \in 1..m + n /\ both[i] = jobs[i]
      /\ \A i \in 1..n : i + m \in 1..m + n /\ both[i + m] = more[i]
  BY <1>1, <1>2
<1>5. \A i \in 1..m, k \in 1..n : Key(jobs[i]) # Key(more[k])
  BY DEF KeysOf, m, n
<1>6. Distinct(both)
  <2> SUFFICES ASSUME NEW i \in 1..m + n, NEW k \in 1..m + n, Key(both[i]) = Key(both[k])
               PROVE  i = k
    BY <1>2 DEF Distinct
  <2>1. CASE i \in 1..m /\ k \in 1..m
    BY <1>4, <2>1 DEF Distinct, m
  <2>2. CASE i - m \in 1..n /\ k - m \in 1..n
    <3>1. i \notin 1..m /\ k \notin 1..m
      BY <1>1, <2>2
    <3>2. both[i] = more[i - m] /\ both[k] = more[k - m]
      BY <1>3, <3>1
    <3>3. i - m = k - m
      BY <2>2, <3>2 DEF Distinct, n
    <3> QED
      BY <1>1, <3>3
  <2> QED
    BY <1>3, <1>5, <2>1, <2>2
<1>7. KeysOf(both) = KeysOf(jobs) \cup KeysOf(more)
  <2>1. KeysOf(both) \subseteq KeysOf(jobs) \cup KeysOf(more)
    BY <1>2, <1>3 DEF KeysOf, m, n
  <2>2. KeysOf(jobs) \subseteq KeysOf(both) /\ KeysOf(more) \subseteq KeysOf(both)
    BY <1>2, <1>4 DEF KeysOf, m, n
  <2> QED
    BY <2>1, <2>2
<1> QED
  BY <1>1, <1>6, <1>7 DEF both

(* A list without a repeated key has no repeated job.                       *)
LEMMA DistinctInjective ==
  ASSUME NEW jobs \in Seq(Job), Distinct(jobs)
  PROVE  IsInjective(jobs)
<1>1. DOMAIN jobs = 1..Len(jobs)
  BY LenProperties
<1> QED
  BY <1>1 DEF Distinct, IsInjective

(* A job is in one place at a time, whatever the dispatcher requeues, a     *)
(* failed build puts back or a release forgets: no case, compile or make is *)
(* started twice for one request.                                           *)
THEOREM JobsOnce == Spec => []NoJobTwice
<1>1. TypeInv /\ JobsApart => NoJobTwice
  <2> SUFFICES ASSUME TypeInv, JobsApart PROVE NoJobTwice
    OBVIOUS
  <2> DEFINE line == queue \o disp.hand
  <2>1. queue \in Seq(Job) /\ disp.hand \in Seq(Job)
    BY DEF TypeInv, TypeOK
  <2>2. /\ line \in Seq(Job) /\ Distinct(line)
        /\ KeysOf(line) = KeysOf(queue) \cup KeysOf(disp.hand)
    BY <2>1, KeysConcat DEF JobsApart, ListsDistinct, PlacesApart
  <2> HIDE DEF line
  <2>3. ASSUME NEW s \in Sids PROVE IsInjective(line \o ctx[s].pending)
    <3>1. ctx[s].pending \in Seq(Job)
      BY DEF TypeInv, TypeOK, Context
    <3>2. Distinct(ctx[s].pending) /\ KeysOf(line) \cap KeysOf(ctx[s].pending) = {}
      BY <2>2 DEF JobsApart, ListsDistinct, PlacesApart
    <3> QED
      BY <2>2, <3>1, <3>2, KeysConcat, DistinctInjective
  <2>4. ASSUME NEW w \in workers PROVE IsInjective((line \o w.back) \o <<w.job>>)
    <3>1. w.job \in Job /\ w.back \in Seq(Job)
      BY DEF TypeInv, TypeOK, Worker
    <3>2. /\ <<w.job>> \in Seq(Job) /\ Distinct(<<w.job>>)
          /\ KeysOf(<<w.job>>) = {Key(w.job)}
      BY <3>1, KeysOne
    <3>3. /\ Distinct(w.back) /\ Key(w.job) \notin KeysOf(w.back)
          /\ Own(w) \cap KeysOf(line) = {}
      BY <2>2 DEF JobsApart, ListsDistinct, PlacesApart
    <3>4. KeysOf(line) \cap KeysOf(w.back) = {} /\ Key(w.job) \notin KeysOf(line)
      BY <3>3 DEF Own
    <3>5. /\ line \o w.back \in Seq(Job) /\ Distinct(line \o w.back)
          /\ KeysOf(line \o w.back) = KeysOf(line) \cup KeysOf(w.back)
      BY <2>2, <3>1, <3>3, <3>4, KeysConcat
    <3>6. /\ (line \o w.back) \o <<w.job>> \in Seq(Job)
          /\ Distinct((line \o w.back) \o <<w.job>>)
      BY ZenonT(30), <3>2, <3>3, <3>4, <3>5, KeysConcat
    <3> QED
      BY <3>6, DistinctInjective
  <2> QED
    BY <2>3, <2>4 DEF NoJobTwice, line
<1>2. Init => TypeInv /\ JobsApart
  BY InitTyping, InitJobs
<1>3. TypeInv /\ JobsApart /\ [Next]_vars => (TypeInv /\ JobsApart)'
  BY NextTyping, JobsStep
<1> QED
  BY <1>1, <1>2, <1>3, PTL DEF Spec

-----------------------------------------------------------------------------
(* Counting containers.                                                     *)
Running == {w \in workers : Is(w, "exec", "run")}

(* Different threads have different jobs.                                   *)
LEMMA OneThreadPerJob ==
  ASSUME JobsApart, NEW w \in workers, NEW v \in workers, w.job = v.job
  PROVE  w = v
BY DEF JobsApart, PlacesApart, Own

Counted == IsFiniteSet(Running) /\ containers = Cardinality(Running)

(* No step but RunCase and EndRun changes what runs, nor the count; these   *)
(* two change both by the same thread.                                      *)
LEMMA RunningStep ==
  ASSUME TypeInv, JobsApart, [Next]_vars
  PROVE  \/ Running' = Running /\ containers' = containers
         \/ \E v : /\ v \notin Running /\ Running' = Running \cup {v}
                   /\ containers' = containers + 1
         \/ \E w \in Running : /\ Running' = Running \ {w}
                               /\ containers' = containers - 1
<1>1. CASE \/ Request \/ Clock \/ HandlersStep \/ CompletionsStep \/ UNCHANGED vars
  <2>1. workers' = workers /\ containers' = containers
    BY <1>1 DEF Request, Clock, HandlersStep, CompletionsStep, CreateDir, FindLeftover,
         Expire, HandlerStep, ForgetLeftover, WipeLeftover, CreateAgain, MarkTrial,
         CheckRequest, FailRequest, Register, PlanTasks, Enqueue, RejectFull,
         UnwindRequest, CompletionStep, PutResult, CleanData, BackupData,
         ReleaseContext, ReleaseCustom, vars
  <2> QED
    BY <2>1 DEF Running, Is
<1>2. CASE DispatcherStep
  <2>1. containers' = containers /\ (workers' = workers \/ Spawn(Cur))
    BY <1>2 DEF DispatcherStep, TakeJob, DropTimedOut, DeferTrial, LoseDispatcher,
         StartAnalysis, StartNetwork, StartBuildThread, StartCompileThread,
         StartCaseThread, Requeue, PutJob, PassAnalysis, FailAnalysis, RaiseAnalysis,
         FinishNetwork, FailNetwork, others
  <2> QED
    BY <2>1 DEF Running, Is, Spawn, MkWorker
<1>3. ASSUME NEW w \in workers, WorkerStep(w)
      PROVE  \/ Running' = Running /\ containers' = containers
             \/ \E v : /\ v \notin Running /\ Running' = Running \cup {v}
                       /\ containers' = containers + 1
             \/ \E u \in Running : /\ Running' = Running \ {u}
                                   /\ containers' = containers - 1
  <2>0. w \in Worker
    BY DEF TypeInv, TypeOK
  <2>1. CASE RunCase(w)
    <3> DEFINE v == [w EXCEPT !.pc = "run"]
               u == [w EXCEPT !.pc = "lock"]
    <3>1. /\ v.job = w.job /\ v.pc = "run" /\ u.job = w.job /\ u.pc = "lock"
          /\ w.job.kind = "exec" /\ w.pc = "busy"
      BY <2>0, <2>1 DEF Worker, RunCase, Is
    <3>2. \/ workers' = (workers \ {w}) \cup {u} /\ containers' = containers
          \/ workers' = (workers \ {w}) \cup {v} /\ containers' = containers + 1
      BY <2>1 DEF RunCase, Step
    <3> HIDE DEF u, v
    <3>3. v \notin workers
      BY <3>1, OneThreadPerJob
    <3> QED
      BY <3>1, <3>2, <3>3 DEF Running, Is
  <2>2. CASE EndRun(w)
    <3> DEFINE u == [w EXCEPT !.pc = "lock"]
    <3>1. u.pc = "lock" /\ w \in Running
      BY <2>0, <2>2 DEF Worker, EndRun, Is, Running
    <3>2. /\ workers' = (workers \ {w}) \cup {u} \/ workers' = workers \ {w}
          /\ containers' = containers - 1
      BY <2>2 DEF EndRun, Step, Die
    <3> HIDE DEF u
    <3> QED
      BY <3>1, <3>2 DEF Running, Is
  <2>3. CASE ~RunCase(w) /\ ~EndRun(w)
    <3>1. containers' = containers /\ ~Is(w, "exec", "run")
      <4>1. CASE \/ StartCompile(w) \/ FinishCompile(w) \/ StartBuild(w)
                 \/ FinishBuild(w) \/ FailBuild(w) \/ ClearJobs(w) \/ PutBack(w)
        BY <4>1 DEF StartCompile, FinishCompile, StartBuild, FinishBuild, FailBuild,
                    ClearJobs, PutBack, Is
      <4>2. CASE \/ MarkBuildFailed(w) \/ PrepareCase(w) \/ NoTeacher(w)
                 \/ FetchLock(w) \/ RecordCase(w) \/ RaiseInTool(w)
        BY <4>2 DEF MarkBuildFailed, PrepareCase, NoTeacher, FetchLock, RecordCase,
                    RaiseInTool, Is
      <4> QED
        BY <1>3, <2>3, <4>1, <4>2 DEF WorkerStep
    <3>2. \/ Die(w)
          \/ \E v : Step(w, v) /\ ~Is(v, "exec", "run")
      <4>1. CASE StartCompile(w) \/ StartBuild(w)
        <5>1. \A lk, f : [w EXCEPT !.pc = "busy", !.lk = lk, !.src = f].pc = "busy"
          BY <2>0 DEF Worker
        <5> QED
          BY <4>1, <5>1 DEF StartCompile, StartBuild, Is
      <4>2. CASE PrepareCase(w)
        <5>1. \A lk, f : /\ [w EXCEPT !.pc = "busy", !.src = f].pc = "busy"
                         /\ [w EXCEPT !.pc = "record", !.src = f, !.lk = lk].pc = "record"
          BY <2>0 DEF Worker
        <5> QED
          BY <4>2, <5>1 DEF PrepareCase, Is
      <4>3. CASE FailBuild(w) \/ ClearJobs(w) \/ FetchLock(w)
        <5>1. \A lk, b : /\ [w EXCEPT !.pc = "clear"].pc = "clear"
                         /\ [w EXCEPT !.pc = "fail", !.back = b].pc = "fail"
                         /\ [w EXCEPT !.pc = "record", !.lk = lk].pc = "record"
          BY <2>0 DEF Worker
        <5> QED
          BY <4>3, <5>1 DEF FailBuild, ClearJobs, FetchLock, Is
      <4>4. CASE PutBack(w)
        <5>1. \A b : [w EXCEPT !.back = b].pc = w.pc
          BY <2>0 DEF Worker
        <5>2. \E b : Step(w, [w EXCEPT !.back = b]) /\ w.pc = "fail"
          BY <4>4 DEF PutBack, Is
        <5> QED
          BY <5>1, <5>2 DEF Is
      <4>5. CASE \/ FinishCompile(w) \/ FinishBuild(w) \/ MarkBuildFailed(w)
                 \/ NoTeacher(w) \/ RecordCase(w) \/ RaiseInTool(w)
        BY <4>5 DEF FinishCompile, FinishBuild, MarkBuildFailed, NoTeacher, RecordCase,
                    RaiseInTool, MarkFailed
      <4> QED
        BY <1>3, <2>3, <4>1, <4>2, <4>3, <4>4, <4>5 DEF WorkerStep
    <3> QED
      BY <3>1, <3>2 DEF Running, Is, Die, Step
  <2> QED
    BY <2>1, <2>2, <2>3
<1> QED
  BY <1>1, <1>2, <1>3 DEF Next, WorkersStep, Idle

(* container_count is the number of cases whose container runs, whatever    *)
(* threads die: each case thread counts its container in before the run and *)
(* out after it, a runner's exception included.                             *)
THEOREM CountIsExact == Spec => []ContainersExact
<1>1. Init => TypeInv /\ JobsApart /\ Counted
  <2>1. Init => Running = {} /\ containers = 0
    BY DEF Init, Running
  <2>2. Init => Counted
    BY <2>1, FS_EmptySet DEF Counted
  <2> QED
    BY <2>2, InitTyping, InitJobs
<1>2. TypeInv /\ JobsApart /\ Counted /\ [Next]_vars => (TypeInv /\ JobsApart /\ Counted)'
  <2> SUFFICES ASSUME TypeInv, JobsApart, Counted, [Next]_vars PROVE Counted'
    BY NextTyping, JobsStep
  <2>1. CASE Running' = Running /\ containers' = containers
    BY <2>1 DEF Counted
  <2>2. ASSUME NEW v, v \notin Running, Running' = Running \cup {v},
               containers' = containers + 1
        PROVE  Counted'
    BY <2>2, FS_AddElement DEF Counted
  <2>3. ASSUME NEW w \in Running, Running' = Running \ {w}, containers' = containers - 1
        PROVE  Counted'
    BY <2>3, FS_RemoveElement DEF Counted
  <2> QED
    BY <2>1, <2>2, <2>3, RunningStep
<1>3. Counted => ContainersExact
  BY DEF Counted, ContainersExact, Running
<1> QED
  BY <1>1, <1>2, <1>3, PTL DEF Spec

-----------------------------------------------------------------------------
(* No case is lost.                                                         *)

(* The jobs that are not in a pending list.                                 *)
Outside ==
  Range(queue) \cup Range(disp.hand)
    \cup UNION {{w.job} \cup Range(w.back) : w \in workers}

(* A case that has no verdict yet has its job somewhere, or its submission  *)
(* is about to be marked failed, or the dispatcher is gone.                 *)
Case(j, s, n) == j.sid = s /\ j.kind = "exec" /\ j.case = n
OnItsWay(s, n) == \E j \in Outside \cup Range(ctx[s].pending) : Case(j, s, n)
Failing(s) == \E w \in workers : w.job.sid = s /\ Is(w, "build", "fail")
Safe(s) ==
  \A n \in ctx[s].cases :
    ctx[s].rec[n] = 0 => OnItsWay(s, n) \/ Failing(s) \/ disp.pc = "dead"

(* An id without an entry has no cases; one without a lock has none that    *)
(* waits for its verdict, so that a case thread that finds no lock takes    *)
(* nothing with it.                                                         *)
NoneUnknown == \A s \in Sids : ctx[s].att = 0 => ctx[s].cases = {}
Locked(s)   == ctx[s].lock = 0 => \A n \in ctx[s].cases : ctx[s].rec[n] # 0
AllLocked   == \A s \in Sids : Locked(s)

(* A request's own entry is made by its Register, and has a lock when its   *)
(* tasks are planned.                                                       *)
Early == HandlerPC \ {"plan", "enqueue", "unwind"}
OwnEntry ==
  /\ \A s \in Sids : ctx[s].att <= requests[s]
  /\ \A h \in handlers : h.pc \in Early => ctx[h.sid].att # h.att
  /\ \A h \in handlers : h.pc = "plan" /\ ctx[h.sid].att = h.att => ctx[h.sid].lock # 0

(* A thread works on files that are there; only one that has emptied the    *)
(* queue holds the jobs of others.                                          *)
WorkersHold ==
  \A w \in workers : /\ w.pc # "start" => w.src # NoDir
                     /\ w.back # <<>> => Is(w, "build", "fail")

(* The dispatcher holds one job, and no case while it analyses or sets up a *)
(* network.                                                                 *)
HandHolds ==
  /\ disp.pc = "loop" => disp.hand = <<>>
  /\ disp.pc \in {"check", "sa", "saexc", "net", "report"} => disp.hand = <<Cur>>
  /\ disp.pc \in {"sa", "saexc", "net", "report"} => Cur.kind \in {"sa", "net"}

(* The cases of an id are those of its problem.                             *)
CasesOwn == \A s \in Sids : ctx[s].cases \subseteq AllCases(s)

CasesSafe == ~MayRaise => \A s \in Sids : ctx[s].expired \/ Safe(s)

CaseInv ==
  /\ ScreenInv /\ JobsApart
  /\ NoneUnknown /\ CasesOwn /\ AllLocked /\ OwnEntry /\ WorkersHold /\ HandHolds
  /\ CasesSafe

-----------------------------------------------------------------------------
(* The jobs of a list.                                                      *)
LEMMA RangeIs ==
  ASSUME NEW jobs \in Seq(Job)
  PROVE  Range(jobs) = {jobs[i] : i \in 1..Len(jobs)}
BY LenProperties DEF Range

(* An empty one, and one with a single job.                                 *)
LEMMA RangeFew == Range(<<>>) = {} /\ \A j \in Job : Range(<<j>>) = {j}
<1>1. Range(<<>>) = {}
  BY EmptySeq DEF Range
<1>2. ASSUME NEW j \in Job PROVE Range(<<j>>) = {j}
  <2>1. <<j>> \in Seq(Job) /\ Len(<<j>>) = 1 /\ <<j>>[1] = j /\ 1..1 = {1}
    OBVIOUS
  <2>2. Range(<<j>>) = {<<j>>[i] : i \in 1..Len(<<j>>)}
    BY <2>1, RangeIs
  <2> QED
    BY <2>1, <2>2
<1> QED
  BY <1>1, <1>2

(* A job more.                                                              *)
LEMMA RangeAppend ==
  ASSUME NEW jobs \in Seq(Job), NEW j \in Job
  PROVE  Range(Append(jobs, j)) = Range(jobs) \cup {j}
<1>1. /\ Append(jobs, j) \in Seq(Job)
      /\ Len(Append(jobs, j)) = Len(jobs) + 1 /\ Len(jobs) \in Nat
      /\ \A i \in 1..Len(jobs) : Append(jobs, j)[i] = jobs[i]
      /\ Append(jobs, j)[Len(jobs) + 1] = j
  BY AppendProperties, LenProperties
<1>2. 1..Len(jobs) + 1 = (1..Len(jobs)) \cup {Len(jobs) + 1}
  BY <1>1
<1>3. Range(Append(jobs, j)) = {Append(jobs, j)[i] : i \in 1..Len(Append(jobs, j))}
  BY <1>1, RangeIs
<1>4. Range(jobs) = {jobs[i] : i \in 1..Len(jobs)}
  BY RangeIs
<1> QED
  BY <1>1, <1>2, <1>3, <1>4

(* The first job and the others.                                            *)
LEMMA RangeTail ==
  ASSUME NEW jobs \in Seq(Job), jobs # <<>>
  PROVE  /\ Range(jobs) = {Head(jobs)} \cup Range(Tail(jobs))
         /\ Head(jobs) \in Job /\ Tail(jobs) \in Seq(Job)
<1>1. /\ Len(jobs) \in Nat \ {0} /\ Head(jobs) = jobs[1]
      /\ Head(jobs) \in Job /\ Tail(jobs) \in Seq(Job)
      /\ Len(Tail(jobs)) = Len(jobs) - 1
      /\ \A i \in 1..Len(Tail(jobs)) : Tail(jobs)[i] = jobs[i + 1]
  BY HeadTailProperties, EmptySeq
<1>2. /\ \A i \in 1..Len(jobs) - 1 : i + 1 \in 1..Len(jobs)
      /\ \A i \in 1..Len(jobs) : i = 1 \/ (i - 1 \in 1..Len(jobs) - 1 /\ (i - 1) + 1 = i)
      /\ 1 \in 1..Len(jobs)
  BY <1>1
<1>3. Range(Tail(jobs)) = {Tail(jobs)[i] : i \in 1..Len(Tail(jobs))}
  BY <1>1, RangeIs
<1>4. Range(jobs) = {jobs[i] : i \in 1..Len(jobs)}
  BY RangeIs
<1>5. Range(Tail(jobs)) \subseteq Range(jobs)
  BY <1>1, <1>2, <1>3, <1>4
<1>6. ASSUME NEW i \in 1..Len(jobs) PROVE jobs[i] \in {Head(jobs)} \cup Range(Tail(jobs))
  <2>1. CASE i = 1
    BY <1>1, <2>1
  <2>2. CASE i # 1
    BY <1>1, <1>2, <1>3, <2>2
  <2> QED
    BY <2>1, <2>2
<1> QED
  BY <1>1, <1>2, <1>4, <1>5, <1>6

(* The i-th job, those before it and those after it.                        *)
LEMMA RangeSubSeq ==
  ASSUME NEW jobs \in Seq(Job), NEW i \in 1..Len(jobs)
  PROVE  /\ SubSeq(jobs, i + 1, Len(jobs)) \in Seq(Job) /\ jobs[i] \in Range(jobs)
         /\ Range(SubSeq(jobs, i + 1, Len(jobs))) \subseteq Range(jobs)
         /\ \A j \in Range(jobs) :
              \/ j \in {jobs[i]} \cup Range(SubSeq(jobs, i + 1, Len(jobs)))
              \/ \E k \in 1..Len(jobs) : k < i /\ j = jobs[k]
<1> DEFINE rest == SubSeq(jobs, i + 1, Len(jobs))
<1>1. Len(jobs) \in Nat /\ \A k \in 1..Len(jobs) : jobs[k] \in Job
  BY LenProperties, ElementOfSeq
<1>2. /\ Len(rest) = IF i + 1 <= Len(jobs) THEN Len(jobs) - i ELSE 0
      /\ \A k \in 1..Len(rest) : rest[k] = jobs[i + k]
      /\ rest \in Seq(Job)
  BY <1>1, SubSeqProperties
<1>3. Range(jobs) = {jobs[k] : k \in 1..Len(jobs)} /\ Range(rest) = {rest[k] : k \in 1..Len(rest)}
  BY <1>2, RangeIs
<1> HIDE DEF rest
<1>4. \A k \in 1..Len(rest) : i + k \in 1..Len(jobs)
  BY <1>1, <1>2
<1>5. ASSUME NEW k \in 1..Len(jobs), k > i PROVE jobs[k] \in Range(rest)
  <2>1. k - i \in 1..Len(rest) /\ i + (k - i) = k
    BY <1>1, <1>2, <1>5
  <2> QED
    BY <1>2, <1>3, <2>1
<1>6. ASSUME NEW j \in Range(jobs)
      PROVE  \/ j \in {jobs[i]} \cup Range(rest)
             \/ \E k \in 1..Len(jobs) : k < i /\ j = jobs[k]
  <2>1. PICK k \in 1..Len(jobs) : j = jobs[k]
    BY <1>3
  <2>2. k < i \/ k = i \/ k > i
    BY <1>1
  <2> QED
    BY <1>5, <2>1, <2>2
<1>7. Range(rest) \subseteq Range(jobs)
  BY <1>2, <1>3, <1>4
<1> QED
  BY <1>2, <1>3, <1>6, <1>7 DEF rest

(* Every case of an attempt is among its tasks.                             *)
LEMMA TasksCases ==
  ASSUME TypeOK, NEW s \in Sids, NEW a \in Attempts, NEW n \in AllCases(s)
  PROVE  \E j \in Range(TasksToRun(s, a)) : Case(j, s, n)
<1> DEFINE first == IF prof[s].make THEN <<MkJob("build", s, 0, a)>>
                    ELSE IF prof[s].compiled THEN <<MkJob("compile", s, 0, a)>> ELSE <<>>
           m     == prof[s].cases
           cases == [c \in 1..m |-> MkJob("exec", s, c, a)]
<1>1. m \in Nat /\ (\A c \in 1..m : c \in 0..MaxCases) /\ n \in 1..m
  BY CasesType, ConstantsAssumption DEF AllCases
<1>2. first \in Seq(Job) /\ Len(first) \in Nat
  <2>1. MkJob("build", s, 0, a) \in Job /\ MkJob("compile", s, 0, a) \in Job
    BY JobType, Numbers DEF JobKinds
  <2> QED
    BY <2>1
<1>3. cases \in Seq(Job) /\ Len(cases) = m /\ cases[n] = MkJob("exec", s, n, a)
  <2>1. cases \in [1..m -> Job]
    BY <1>1, JobType DEF JobKinds
  <2> QED
    BY <1>1, <2>1, SeqDef
<1>4. TasksToRun(s, a) = first \o cases
  BY DEF TasksToRun, AllCases
<1> HIDE DEF first, m, cases
<1>5. /\ first \o cases \in Seq(Job)
      /\ Len(first) + n \in 1..Len(first \o cases)
      /\ (first \o cases)[Len(first) + n] = cases[n]
  BY <1>1, <1>2, <1>3, ConcatProperties
<1>6. cases[n] \in Range(first \o cases)
  BY <1>5, RangeIs
<1> QED
  BY <1>3, <1>4, <1>6 DEF Case, MkJob

-----------------------------------------------------------------------------
(* What a step does to the results of an id.                                *)

(* Marking a submission failed gives every case a verdict.                  *)
LEMMA FailAllEffect ==
  ASSUME TypeOK, NEW s \in Sids, NEW a, NEW label, FailAll(s, a, label)
  PROVE  /\ ctx'[s].att = a /\ ctx'[s].cases = AllCases(s)
         /\ \A n \in AllCases(s) : ctx'[s].rec[n] = label
         /\ ctx'[s].lock = ctx[s].lock /\ ctx'[s].expired = ctx[s].expired
         /\ ctx'[s].plan = ctx[s].plan /\ ctx'[s].prebuilt = ctx[s].prebuilt
         /\ ctx'[s].compiled = ctx[s].compiled /\ ctx'[s].pending = ctx[s].pending
         /\ \A t \in Sids : t # s => ctx'[t] = ctx[t]
<1> DEFINE rec == [c \in Cases |-> IF c \in AllCases(s) THEN label ELSE 0]
           r   == [ctx[s] EXCEPT !.att = a, !.cases = AllCases(s), !.rec = rec]
<1>1. ctx \in [Sids -> Context] /\ ctx[s] \in Context
  BY DEF TypeOK
<1>2. ctx' = [ctx EXCEPT ![s] = r]
  BY <1>1 DEF FailAll
<1>3. ctx'[s] = r /\ \A t \in Sids : t # s => ctx'[t] = ctx[t]
  <2> HIDE DEF r
  <2> QED
    BY <1>1, <1>2
<1>4. \A n \in AllCases(s) : rec[n] = label
  BY CasesType DEF AllCases
<1> HIDE DEF rec
<1>5. /\ r.att = a /\ r.cases = AllCases(s) /\ r.rec = rec
      /\ r.lock = ctx[s].lock /\ r.expired = ctx[s].expired
      /\ r.plan = ctx[s].plan /\ r.prebuilt = ctx[s].prebuilt
      /\ r.compiled = ctx[s].compiled /\ r.pending = ctx[s].pending
  BY <1>1 DEF Context
<1> QED
  BY <1>3, <1>4, <1>5

(* Forgetting a submission.                                                 *)
LEMMA ForgetEffect ==
  ASSUME TypeOK, NEW s \in Sids, ForgetContext(s)
  PROVE  ctx'[s] = NoContext /\ \A t \in Sids : t # s => ctx'[t] = ctx[t]
BY DEF TypeOK, ForgetContext

(* The changes a step can make to att, cases, rec and lock of an id; only a *)
(* new entry is in time again.                                              *)
StaysExpired(t) == ctx[t].expired => ctx'[t].expired
SameResult(t) ==
  /\ ctx'[t].att = ctx[t].att /\ ctx'[t].cases = ctx[t].cases
  /\ ctx'[t].rec = ctx[t].rec /\ ctx'[t].lock = ctx[t].lock
  /\ StaysExpired(t)
AllFail(t) ==
  /\ ctx'[t].att # 0 /\ ctx'[t].cases = AllCases(t) /\ ctx'[t].lock = ctx[t].lock
  /\ \A n \in AllCases(t) : ctx'[t].rec[n] # 0
  /\ StaysExpired(t)
  /\ \/ ctx'[t].att = ctx[t].att
     \/ \E h \in handlers : FailRequest(h) /\ h.sid = t /\ ctx'[t].att = h.att
Begins(t) ==
  \E h \in handlers : /\ Register(h) /\ h.sid = t
                      /\ ctx'[t].att = h.att /\ ctx'[t].lock = h.att
                      /\ ctx'[t].cases = {}
Plans(t) ==
  \E h \in handlers : /\ PlanTasks(h) /\ h.sid = t
                      /\ ctx'[t].att = ctx[t].att /\ ctx'[t].lock = ctx[t].lock
                      /\ ctx'[t].rec = ctx[t].rec /\ StaysExpired(t)
                      /\ ctx'[t].pending = TasksToRun(t, h.att)
                      /\ ctx'[t].cases = IF ctx[t].att = h.att THEN AllCases(t)
                                                               ELSE ctx[t].cases
Records(t) ==
  /\ ctx'[t].att = ctx[t].att /\ ctx[t].att # 0
  /\ ctx'[t].cases = ctx[t].cases /\ ctx'[t].lock = ctx[t].lock
  /\ StaysExpired(t)
  /\ \A n \in ctx[t].cases : ctx'[t].rec[n] = ctx[t].rec[n] \/ ctx'[t].rec[n] # 0

Moves(t) ==
  \/ SameResult(t) \/ ctx'[t] = NoContext \/ AllFail(t) \/ Begins(t) \/ Plans(t)
  \/ Records(t)

(* Planning the tasks of a request.                                         *)
LEMMA PlanEffect ==
  ASSUME TypeInv, NEW h \in handlers, PlanTasks(h), NEW t \in Sids
  PROVE  IF t = h.sid THEN Plans(t) ELSE ctx'[t] = ctx[t]
<1>1. /\ h.sid \in Sids /\ h \in handlers
      /\ ctx \in [Sids -> Context] /\ \A s \in Sids : ctx[s] \in Context
  BY DEF TypeInv, TypeOK, Handler
<1> DEFINE p == prof[h.sid]
           r == [ctx[h.sid] EXCEPT
                   !.plan     = IF p.make THEN h.att ELSE @,
                   !.prebuilt = @ \/ (~p.make /\ ~p.compiled),
                   !.cases    = IF ctx[h.sid].att = h.att THEN AllCases(h.sid) ELSE @,
                   !.pending  = TasksToRun(h.sid, h.att)]
<1>2. ctx' = [ctx EXCEPT ![h.sid] = r]
  BY <1>1 DEF PlanTasks
<1>3. /\ r.att = ctx[h.sid].att /\ r.rec = ctx[h.sid].rec /\ r.lock = ctx[h.sid].lock
      /\ r.expired = ctx[h.sid].expired /\ r.pending = TasksToRun(h.sid, h.att)
      /\ r.cases = IF ctx[h.sid].att = h.att THEN AllCases(h.sid)
                                             ELSE ctx[h.sid].cases
  BY <1>1 DEF Context
<1> HIDE DEF r
<1>4. CASE t = h.sid
  BY <1>1, <1>2, <1>3, <1>4 DEF Plans, StaysExpired
<1>5. CASE t # h.sid
  BY <1>1, <1>2, <1>5
<1> QED
  BY <1>4, <1>5

(* A handler.                                                               *)
LEMMA HandlerResult ==
  ASSUME TypeInv, NEW h \in handlers, HandlerStep(h), NEW t \in Sids
  PROVE  Moves(t)
<1>1. /\ h.sid \in Sids /\ h.att \in Attempts /\ h.att # 0
      /\ ctx \in [Sids -> Context] /\ \A s \in Sids : ctx[s] \in Context
      /\ h \in handlers
  BY Numbers DEF TypeInv, TypeOK, Handler
<1>2. CASE FailRequest(h)
  <2>1. FailAll(h.sid, h.att, h.att)
    BY <1>2 DEF FailRequest
  <2>2. CASE t = h.sid
    <3>1. /\ ctx'[t].att = h.att /\ ctx'[t].cases = AllCases(t)
          /\ ctx'[t].lock = ctx[t].lock /\ ctx'[t].expired = ctx[t].expired
          /\ \A n \in AllCases(t) : ctx'[t].rec[n] = h.att
      BY <1>1, <2>1, <2>2, FailAllEffect DEF TypeInv
    <3>2. AllFail(t)
      BY <1>1, <1>2, <2>2, <3>1 DEF AllFail, StaysExpired
    <3> QED
      BY <3>2 DEF Moves
  <2>3. CASE t # h.sid
    BY <1>1, <2>1, <2>3, FailAllEffect DEF TypeInv, Moves, SameResult,
                                           StaysExpired
  <2> QED
    BY <2>2, <2>3
<1>3. CASE ForgetLeftover(h) \/ RejectFull(h)
  <2>1. ForgetContext(h.sid)
    BY <1>3 DEF ForgetLeftover, RejectFull
  <2> QED
    BY <1>1, <2>1, ForgetEffect DEF TypeInv, Moves, SameResult, StaysExpired
<1>4. CASE Register(h)
  <2> DEFINE r == [ctx[h.sid] EXCEPT !.att = h.att, !.cases = {}, !.rec = Blank,
                                     !.lock = h.att, !.expired = FALSE]
  <2>1. ctx' = [ctx EXCEPT ![h.sid] = r]
    BY <1>1, <1>4 DEF Register
  <2>2. r.att = h.att /\ r.cases = {} /\ r.lock = h.att
    BY <1>1 DEF Context
  <2> HIDE DEF r
  <2>3. CASE t = h.sid
    BY <1>1, <1>4, <2>1, <2>2, <2>3 DEF Moves, Begins
  <2>4. CASE t # h.sid
    BY <1>1, <2>1, <2>4 DEF Moves, SameResult, StaysExpired
  <2> QED
    BY <2>3, <2>4
<1>5. CASE PlanTasks(h)
  BY <1>1, <1>5, PlanEffect DEF Moves, SameResult, StaysExpired
<1>6. CASE \/ WipeLeftover(h) \/ CreateAgain(h) \/ MarkTrial(h) \/ CheckRequest(h)
           \/ Enqueue(h) \/ UnwindRequest(h)
  <2>1. ctx' = ctx
    BY <1>6 DEF WipeLeftover, CreateAgain, MarkTrial, CheckRequest, Enqueue, UnwindRequest
  <2> QED
    BY <2>1 DEF Moves, SameResult, StaysExpired
<1> QED
  BY <1>2, <1>3, <1>4, <1>5, <1>6 DEF HandlerStep

(* A request or the clock.                                                  *)
LEMMA RequestResult ==
  ASSUME TypeInv, NEW s \in Sids, CreateDir(s) \/ FindLeftover(s) \/ Expire(s),
         NEW t \in Sids
  PROVE  SameResult(t)
<1>1. CASE CreateDir(s) \/ FindLeftover(s)
  BY <1>1 DEF CreateDir, FindLeftover, SameResult, StaysExpired
<1>2. CASE Expire(s)
  <2>1. ctx' = [ctx EXCEPT ![s].expired = TRUE]
    BY <1>2 DEF Expire
  <2> QED
    BY <2>1 DEF TypeInv, TypeOK, Context, SameResult, StaysExpired
<1> QED
  BY <1>1, <1>2

(* A completing thread.                                                     *)
LEMMA CompletionResult ==
  ASSUME TypeInv, NEW c \in completing, CompletionStep(c), NEW t \in Sids
  PROVE  SameResult(t) \/ ctx'[t] = NoContext
<1>1. c.by.sid \in Sids
  BY DEF TypeInv, TypeOK, Completion, Owner
<1>2. CASE ReleaseContext(c)
  <2>1. ForgetContext(c.by.sid)
    BY <1>2 DEF ReleaseContext
  <2> QED
    BY <1>1, <2>1, ForgetEffect DEF TypeInv, SameResult, StaysExpired
<1>3. CASE ~ReleaseContext(c)
  BY <1>3 DEF CompletionStep, PutResult, CleanData, BackupData, ReleaseCustom,
              SameResult, StaysExpired
<1> QED
  BY <1>2, <1>3

(* A thread marks its submission failed, or finds it gone.                  *)
LEMMA MarkFailedResult ==
  ASSUME TypeInv, NEW w \in workers, NEW label, label # 0, MarkFailed(w, label),
         NEW t \in Sids
  PROVE  SameResult(t) \/ AllFail(t)
<1>1. w.job.sid \in Sids
  BY DEF TypeInv, TypeOK, Worker, Job
<1>2. CASE Contains(w.job.sid)
  <2>1. FailAll(w.job.sid, ctx[w.job.sid].att, label)
    BY <1>2 DEF MarkFailed
  <2>2. CASE t = w.job.sid
    <3>1. /\ ctx'[t].att = ctx[t].att /\ ctx'[t].cases = AllCases(t)
          /\ ctx'[t].lock = ctx[t].lock /\ ctx'[t].expired = ctx[t].expired
          /\ \A n \in AllCases(t) : ctx'[t].rec[n] = label
      BY <1>1, <2>1, <2>2, FailAllEffect DEF TypeInv
    <3> QED
      BY <1>2, <2>2, <3>1 DEF Contains, AllFail, StaysExpired
  <2>3. CASE t # w.job.sid
    BY <1>1, <2>1, <2>3, FailAllEffect DEF TypeInv, SameResult, StaysExpired
  <2> QED
    BY <2>2, <2>3
<1>3. CASE ~Contains(w.job.sid)
  BY <1>3 DEF MarkFailed, SameResult, StaysExpired
<1> QED
  BY <1>2, <1>3

(* A build, compile or case thread.                                         *)
LEMMA WorkerResult ==
  ASSUME TypeInv, WorkersHold, NEW w \in workers, WorkerStep(w), NEW t \in Sids
  PROVE  SameResult(t) \/ AllFail(t) \/ Records(t)
<1>1. /\ w.job.sid \in Sids /\ w.job.case \in 0..MaxCases
      /\ ctx \in [Sids -> Context] /\ \A s \in Sids : ctx[s] \in Context
      /\ w.pc # "start" => w.src # 0
  BY DEF TypeInv, TypeOK, Worker, Job, WorkersHold, NoDir
<1>2. CASE MarkBuildFailed(w)
  BY <1>1, <1>2, MarkFailedResult DEF MarkBuildFailed, Is
<1>3. CASE NoTeacher(w)
  <2>1. MarkFailed(w, ctx[w.job.sid].att)
    BY <1>3 DEF NoTeacher
  <2>2. CASE ctx[w.job.sid].att # 0
    BY <2>1, <2>2, MarkFailedResult
  <2>3. CASE ctx[w.job.sid].att = 0
    BY <2>1, <2>3 DEF MarkFailed, Contains, SameResult, StaysExpired
  <2> QED
    BY <2>2, <2>3
<1>4. CASE RecordCase(w)
  <2> DEFINE s   == w.job.sid
             rec == [ctx[s].rec EXCEPT ![w.job.case] = w.src]
  <2>1. CASE Contains(s) /\ w.job.case \in ctx[s].cases
    <3>1. ctx' = [ctx EXCEPT ![s].rec = rec]
      BY <1>4, <2>1 DEF RecordCase
    <3>2. w.src # 0
      BY <1>1, <1>4 DEF RecordCase, Is
    <3>3. CASE t = s
      <4>1. /\ ctx'[t].att = ctx[t].att /\ ctx'[t].cases = ctx[t].cases
            /\ ctx'[t].lock = ctx[t].lock /\ ctx'[t].rec = rec
            /\ ctx'[t].expired = ctx[t].expired
        BY <1>1, <3>1, <3>3 DEF Context
      <4>2. ctx[t].rec \in [Cases -> DirVals] /\ ctx[t].cases \subseteq Cases
        BY DEF TypeInv, TypeOK, Context
      <4>3. \A n \in ctx[t].cases : rec[n] = ctx[t].rec[n] \/ rec[n] # 0
        BY <3>2, <3>3, <4>2
      <4> QED
        BY <2>1, <3>3, <4>1, <4>3 DEF Records, Contains, StaysExpired
    <3>4. CASE t # s
      BY <1>1, <3>1, <3>4 DEF SameResult, StaysExpired
    <3> QED
      BY <3>3, <3>4
  <2>2. CASE ~(Contains(s) /\ w.job.case \in ctx[s].cases)
    BY <1>4, <2>2 DEF RecordCase, SameResult, StaysExpired
  <2> QED
    BY <2>1, <2>2
<1>5. CASE FinishCompile(w)
  <2>1. PICK status \in {"AC", "CE"} : ctx' = [ctx EXCEPT ![w.job.sid].compiled = status]
    BY <1>5 DEF FinishCompile
  <2> QED
    BY <1>1, <2>1 DEF Context, SameResult, StaysExpired
<1>6. CASE FinishBuild(w) \/ FailBuild(w)
  <2>1. PICK b \in BOOLEAN :
          ctx' = [ctx EXCEPT ![w.job.sid].prebuilt = b, ![w.job.sid].plan = 0]
    BY <1>6 DEF FinishBuild, FailBuild, EndPlan
  <2> QED
    BY <1>1, <2>1 DEF Context, SameResult, StaysExpired
<1>7. CASE \/ StartCompile(w) \/ StartBuild(w) \/ ClearJobs(w) \/ PutBack(w)
           \/ PrepareCase(w) \/ RunCase(w) \/ EndRun(w) \/ FetchLock(w) \/ RaiseInTool(w)
  <2>1. ctx' = ctx
    BY <1>7 DEF StartCompile, StartBuild, ClearJobs, PutBack, PrepareCase, RunCase,
                EndRun, FetchLock, RaiseInTool
  <2> QED
    BY <2>1 DEF SameResult, StaysExpired
<1> QED
  BY <1>2, <1>3, <1>4, <1>5, <1>6, <1>7 DEF WorkerStep

(* The dispatcher.                                                          *)
LEMMA DispatcherResult ==
  ASSUME TypeInv, DispatcherStep, NEW t \in Sids
  PROVE  SameResult(t) \/ AllFail(t)
<1>1. /\ ctx \in [Sids -> Context] /\ \A s \in Sids : ctx[s] \in Context
      /\ disp.pc \notin {"loop", "dead"} => disp.hand # <<>> /\ Cur.sid \in Sids
  <2>1. disp.hand \in Seq(Job)
    BY DEF TypeInv, TypeOK
  <2>2. disp.hand # <<>> => Cur \in Job
    BY <2>1, HeadTailProperties DEF Cur
  <2> QED
    BY <2>2 DEF TypeInv, TypeOK, DispatcherOwnsOne, Job
<1>2. CASE FailAnalysis \/ RaiseAnalysis \/ FailNetwork
  <2>1. PICK label, fatal : FailSubmission(label, fatal) /\ (Contains(Cur.sid) => label # 0)
    <3>1. CommonDir(Cur.sid) # 0
      BY ConstantsAssumption DEF CommonDir, NoDir, EmptyDir
    <3>2. CASE FailAnalysis \/ RaiseAnalysis
      <4>1. PICK fatal \in BOOLEAN : FailSubmission(CommonDir(Cur.sid), fatal)
        BY <3>2 DEF FailAnalysis, RaiseAnalysis
      <4> QED
        BY <3>1, <4>1
    <3>3. CASE FailNetwork
      <4>1. FailSubmission(ctx[Cur.sid].att, TRUE)
        BY <3>3 DEF FailNetwork
      <4> QED
        BY <4>1 DEF Contains
    <3> QED
      BY <1>2, <3>2, <3>3
  <2>2. Cur.sid \in Sids
    BY <1>1, <1>2 DEF FailAnalysis, RaiseAnalysis, FailNetwork
  <2>3. CASE Contains(Cur.sid)
    <3>1. FailAll(Cur.sid, ctx[Cur.sid].att, label)
      BY <2>1, <2>3 DEF FailSubmission
    <3>2. CASE t = Cur.sid
      <4>1. /\ ctx'[t].att = ctx[t].att /\ ctx'[t].cases = AllCases(t)
            /\ ctx'[t].lock = ctx[t].lock /\ ctx'[t].expired = ctx[t].expired
            /\ \A n \in AllCases(t) : ctx'[t].rec[n] = label
        BY <2>2, <3>1, <3>2, FailAllEffect DEF TypeInv
      <4> QED
        BY <2>1, <2>3, <3>2, <4>1 DEF Contains, AllFail, StaysExpired
    <3>3. CASE t # Cur.sid
      BY <2>2, <3>1, <3>3, FailAllEffect DEF TypeInv, SameResult, StaysExpired
    <3> QED
      BY <3>2, <3>3
  <2>4. CASE ~Contains(Cur.sid)
    BY <2>1, <2>4 DEF FailSubmission, SameResult, StaysExpired
  <2> QED
    BY <2>3, <2>4
<1>3. CASE FinishNetwork
  <2>1. ctx' = [ctx EXCEPT ![Cur.sid].pending = <<>>]
    BY <1>3 DEF FinishNetwork
  <2> QED
    BY <1>1, <2>1 DEF Context, SameResult, StaysExpired
<1>4. CASE \/ TakeJob \/ DropTimedOut \/ DeferTrial \/ LoseDispatcher
           \/ StartAnalysis \/ StartNetwork \/ StartBuildThread
           \/ StartCompileThread \/ StartCaseThread \/ Requeue \/ PutJob
           \/ PassAnalysis
  BY <1>4 DEF TakeJob, DropTimedOut, DeferTrial, LoseDispatcher, StartAnalysis,
              StartNetwork, StartBuildThread, StartCompileThread, StartCaseThread,
              Requeue, PutJob, PassAnalysis, SameResult, StaysExpired
<1> QED
  BY <1>2, <1>3, <1>4 DEF DispatcherStep

(* Any step.                                                                *)
LEMMA AnyResult ==
  ASSUME TypeInv, WorkersHold, [Next]_vars, NEW t \in Sids
  PROVE  Moves(t)
<1>1. CASE Request \/ Clock
  BY <1>1, RequestResult DEF Request, Clock, Moves
<1>2. CASE HandlersStep
  BY <1>2, HandlerResult DEF HandlersStep
<1>3. CASE DispatcherStep
  BY <1>3, DispatcherResult DEF Moves
<1>4. CASE WorkersStep
  BY <1>4, WorkerResult DEF WorkersStep, Moves
<1>5. CASE CompletionsStep
  BY <1>5, CompletionResult DEF CompletionsStep, Moves
<1>6. CASE Idle \/ UNCHANGED vars
  BY <1>6 DEF Idle, vars, Moves, SameResult, StaysExpired
<1> QED
  BY <1>1, <1>2, <1>3, <1>4, <1>5, <1>6 DEF Next

-----------------------------------------------------------------------------
(* What a step does to the handlers: it moves one on, or lets one in, or    *)
(* leaves all as they are.                                                  *)
Onward(h, f) ==
  \/ ForgetLeftover(h) /\ f.pc = "wipe"
  \/ WipeLeftover(h) /\ f.pc = "again"
  \/ CreateAgain(h) /\ f.pc = FirstPC(h.sid) /\ dirs[h.sid] = NoDir
  \/ MarkTrial(h) /\ f.pc = "check"
  \/ CheckRequest(h) /\ f.pc = "register" /\ dirs[h.sid] \in Attempts /\ ~Contains(h.sid)
  \/ Register(h) /\ f.pc = "plan"
  \/ PlanTasks(h) /\ f.pc = "enqueue"
  \/ RejectFull(h) /\ f.pc = "unwind"
Arrives(s, f) ==
  /\ requests' = [requests EXCEPT ![s] = @ + 1]
  /\ f.sid = s /\ f.att = requests'[s]
  /\ \/ CreateDir(s) /\ f.pc = FirstPC(s)
     \/ FindLeftover(s) /\ f.pc = "forget"

(* A handler's step leaves it or moves it on.                               *)
LEMMA HandlerMove ==
  ASSUME TypeInv, NEW h \in handlers, HandlerStep(h)
  PROVE  \/ handlers' = handlers \ {h}
         \/ \E f : /\ handlers' = (handlers \ {h}) \cup {f}
                   /\ f.sid = h.sid /\ f.att = h.att /\ Onward(h, f)
<1>1. h \in Handler
  BY DEF TypeInv, TypeOK
<1>2. \A pc : /\ [h EXCEPT !.pc = pc].sid = h.sid /\ [h EXCEPT !.pc = pc].att = h.att
              /\ [h EXCEPT !.pc = pc].pc = pc
  BY <1>1 DEF Handler
<1>3. ASSUME NEW pc, Goto(h, pc), \A f : f.pc = pc => Onward(h, f)
      PROVE  \E f : /\ handlers' = (handlers \ {h}) \cup {f}
                    /\ f.sid = h.sid /\ f.att = h.att /\ Onward(h, f)
  <2>1. Onward(h, [h EXCEPT !.pc = pc])
    BY <1>2, <1>3
  <2> QED
    BY <1>2, <1>3, <2>1 DEF Goto
<1>4. CASE ForgetLeftover(h)
  <2>1. Goto(h, "wipe") /\ \A f : f.pc = "wipe" => Onward(h, f)
    BY <1>4 DEF ForgetLeftover, Onward
  <2> QED
    BY <1>3, <2>1
<1>5. CASE WipeLeftover(h)
  <2>1. Leave(h) \/ Goto(h, "again")
    BY <1>5 DEF WipeLeftover
  <2>2. \A f : f.pc = "again" => Onward(h, f)
    BY <1>5 DEF Onward
  <2> QED
    BY <1>3, <2>1, <2>2 DEF Leave
<1>6. CASE CreateAgain(h)
  <2>1. Leave(h) \/ (Goto(h, FirstPC(h.sid)) /\ dirs[h.sid] = NoDir)
    BY <1>6 DEF CreateAgain
  <2>2. dirs[h.sid] = NoDir => \A f : f.pc = FirstPC(h.sid) => Onward(h, f)
    BY <1>6 DEF Onward
  <2> QED
    BY <1>3, <2>1, <2>2 DEF Leave
<1>7. CASE MarkTrial(h)
  <2>1. Goto(h, "check") /\ \A f : f.pc = "check" => Onward(h, f)
    BY <1>7 DEF MarkTrial, Onward
  <2> QED
    BY <1>3, <2>1
<1>8. CASE CheckRequest(h)
  <2>1. Leave(h) \/ (Goto(h, "register") /\ dirs[h.sid] \in Attempts /\ ~Contains(h.sid))
    BY <1>8 DEF CheckRequest
  <2>2. dirs[h.sid] \in Attempts /\ ~Contains(h.sid) =>
          \A f : f.pc = "register" => Onward(h, f)
    BY <1>8 DEF Onward
  <2> QED
    BY <1>3, <2>1, <2>2 DEF Leave
<1>9. CASE Register(h)
  <2>1. Goto(h, "plan") /\ \A f : f.pc = "plan" => Onward(h, f)
    BY <1>9 DEF Register, Onward
  <2> QED
    BY <1>3, <2>1
<1>10. CASE PlanTasks(h)
  <2>1. Goto(h, "enqueue") /\ \A f : f.pc = "enqueue" => Onward(h, f)
    BY <1>10 DEF PlanTasks, Onward
  <2> QED
    BY <1>3, <2>1
<1>11. CASE RejectFull(h)
  <2>1. Goto(h, "unwind") /\ \A f : f.pc = "unwind" => Onward(h, f)
    BY <1>11 DEF RejectFull, Onward
  <2> QED
    BY <1>3, <2>1
<1>12. CASE FailRequest(h) \/ Enqueue(h) \/ UnwindRequest(h)
  BY <1>12 DEF FailRequest, Enqueue, UnwindRequest, Leave
<1> QED
  BY <1>4, <1>5, <1>6, <1>7, <1>8, <1>9, <1>10, <1>11, <1>12 DEF HandlerStep

(* A handler after a step was there before, came from one that was, or is   *)
(* new.                                                                     *)
LEMMA HandlerOrigin ==
  ASSUME TypeInv, [Next]_vars, NEW f \in handlers'
  PROVE  \/ f \in handlers
         \/ \E h \in handlers : /\ HandlerStep(h) /\ f.sid = h.sid /\ f.att = h.att
                                /\ handlers' = (handlers \ {h}) \cup {f}
                                /\ Onward(h, f)
         \/ \E s \in Sids : Arrives(s, f)
<1>1. CASE Request
  <2>1. PICK s \in Sids : CreateDir(s) \/ FindLeftover(s)
    BY <1>1 DEF Request
  <2>2. ASSUME NEW pc, Arrive(s, pc), f \notin handlers
        PROVE  f.sid = s /\ f.att = requests'[s] /\ f.pc = pc
    BY <2>2 DEF Arrive
  <2>3. CASE CreateDir(s)
    <3>1. UNCHANGED handlers \/ Arrive(s, FirstPC(s))
      BY <2>3 DEF CreateDir
    <3>2. requests' = [requests EXCEPT ![s] = @ + 1]
      BY <2>3 DEF CreateDir
    <3> QED
      BY <2>2, <2>3, <3>1, <3>2 DEF Arrives
  <2>4. CASE FindLeftover(s)
    <3>1. Arrive(s, "forget") /\ requests' = [requests EXCEPT ![s] = @ + 1]
      BY <2>4 DEF FindLeftover
    <3> QED
      BY <2>2, <2>4, <3>1 DEF Arrives
  <2> QED
    BY <2>1, <2>3, <2>4
<1>2. CASE HandlersStep
  <2>1. PICK h \in handlers : HandlerStep(h)
    BY <1>2 DEF HandlersStep
  <2>2. CASE handlers' = handlers \ {h}
    BY <2>2
  <2>3. CASE \E g : /\ handlers' = (handlers \ {h}) \cup {g}
                    /\ g.sid = h.sid /\ g.att = h.att /\ Onward(h, g)
    BY <2>1, <2>3
  <2> QED
    BY <2>1, <2>2, <2>3, HandlerMove
<1>3. CASE Clock \/ DispatcherStep \/ CompletionsStep \/ WorkersStep
  <2>1. handlers' = handlers
    <3>1. CASE Clock
      BY <3>1 DEF Clock, Expire
    <3>2. CASE DispatcherStep
      BY <3>2 DEF DispatcherStep, TakeJob, DropTimedOut, DeferTrial, LoseDispatcher,
         StartAnalysis, StartNetwork, StartBuildThread, StartCompileThread,
         StartCaseThread, Requeue, PutJob, PassAnalysis, FailAnalysis, RaiseAnalysis,
         FinishNetwork, FailNetwork, others
    <3>3. CASE CompletionsStep
      BY <3>3 DEF CompletionsStep, CompletionStep, PutResult, CleanData, BackupData,
                  ReleaseContext, ReleaseCustom
    <3>4. CASE WorkersStep
      BY <3>4 DEF WorkersStep, WorkerStep, StartCompile, FinishCompile, StartBuild,
         FinishBuild, FailBuild, ClearJobs, PutBack, MarkBuildFailed, PrepareCase,
         NoTeacher, RunCase, EndRun, FetchLock, RecordCase, RaiseInTool
    <3> QED
      BY <1>3, <3>1, <3>2, <3>3, <3>4
  <2> QED
    BY <2>1
<1>4. CASE Idle \/ UNCHANGED vars
  BY <1>4 DEF Idle, vars
<1> QED
  BY <1>1, <1>2, <1>3, <1>4 DEF Next

-----------------------------------------------------------------------------
(* The parts of the invariant other than CasesSafe.                         *)

(* An id without an entry keeps having no cases.                            *)
LEMMA NoneUnknownStep ==
  ASSUME TypeInv, WorkersHold, NoneUnknown, [Next]_vars
  PROVE  NoneUnknown'
<1> SUFFICES ASSUME NEW t \in Sids, ctx'[t].att = 0 PROVE ctx'[t].cases = {}
  BY DEF NoneUnknown
<1>1. \A h \in handlers : h.att # 0
  BY Numbers DEF TypeInv, TypeOK, Handler
<1>2. Moves(t)
  BY AnyResult
<1>3. CASE SameResult(t) \/ Begins(t) \/ Records(t) \/ AllFail(t)
  BY <1>3 DEF SameResult, Begins, Records, AllFail, NoneUnknown
<1>4. CASE ctx'[t] = NoContext
  BY <1>4 DEF NoContext
<1>5. CASE Plans(t)
  BY <1>1, <1>5 DEF Plans, NoneUnknown
<1> QED
  BY <1>2, <1>3, <1>4, <1>5 DEF Moves

(* The cases of an id without a lock all have their verdict.                *)
LEMMA LockedStep ==
  ASSUME TypeInv, WorkersHold, AllLocked, OwnEntry, [Next]_vars
  PROVE  AllLocked'
<1> SUFFICES ASSUME NEW t \in Sids, ctx'[t].lock = 0
             PROVE  \A n \in ctx'[t].cases : ctx'[t].rec[n] # 0
  BY DEF AllLocked, Locked
<1>1. Moves(t)
  BY AnyResult
<1>2. CASE SameResult(t) \/ Begins(t) \/ Records(t) \/ AllFail(t)
  BY <1>2 DEF SameResult, Begins, Records, AllFail, AllLocked, Locked
<1>3. CASE ctx'[t] = NoContext
  BY <1>3 DEF NoContext
<1>4. CASE Plans(t)
  <2>1. PICK h \in handlers : /\ PlanTasks(h) /\ h.sid = t
                              /\ ctx'[t].att = ctx[t].att /\ ctx'[t].lock = ctx[t].lock
                              /\ ctx'[t].rec = ctx[t].rec
                              /\ ctx'[t].cases = IF ctx[t].att = h.att THEN AllCases(t)
                                                                       ELSE ctx[t].cases
    BY <1>4 DEF Plans
  <2>2. ctx[t].att # h.att
    BY <2>1 DEF OwnEntry, PlanTasks
  <2> QED
    BY <2>1, <2>2 DEF AllLocked, Locked
<1> QED
  BY <1>1, <1>2, <1>3, <1>4 DEF Moves

(* A request's entry is its own.                                            *)
LEMMA OwnEntryStep ==
  ASSUME TypeInv, WorkersHold, OwnEntry, HandlersApart, [Next]_vars
  PROVE  OwnEntry'
<1>1. /\ \A h \in handlers : /\ h.sid \in Sids /\ h.att # 0 /\ h.att \in Nat
                             /\ h.att <= requests[h.sid] /\ h \in Handler
      /\ \A s \in Sids : requests[s] \in Nat /\ ctx[s].att \in Nat
      /\ requests \in [Sids -> 0..MaxRequests]
  BY Numbers, ConstantsAssumption
     DEF TypeInv, TypeOK, Handler, HandlersApart, Attempts, Context
<1>2. \A s \in Sids : requests'[s] \in Nat /\ requests'[s] >= requests[s]
  <2>1. requests' = requests \/ \E s \in Sids : requests' = [requests EXCEPT ![s] = @ + 1]
    <3>1. CASE Request
      BY <3>1 DEF Request, CreateDir, FindLeftover
    <3>2. CASE Clock
      BY <3>2 DEF Clock, Expire, ghost
    <3>3. CASE HandlersStep
      <4>1. PICK h \in handlers : HandlerStep(h)
        BY <3>3 DEF HandlersStep
      <4> QED
        BY <4>1 DEF HandlerStep, ForgetLeftover, WipeLeftover, CreateAgain, MarkTrial,
           CheckRequest, FailRequest, Register, PlanTasks, Enqueue, RejectFull,
           UnwindRequest, ghost
    <3>4. CASE DispatcherStep
      BY <3>4 DEF DispatcherStep, TakeJob, DropTimedOut, DeferTrial, LoseDispatcher,
         StartAnalysis, StartNetwork, StartBuildThread, StartCompileThread,
         StartCaseThread, Requeue, PutJob, PassAnalysis, FailAnalysis, RaiseAnalysis,
         FinishNetwork, FailNetwork, others
    <3>5. CASE CompletionsStep
      BY <3>5 DEF CompletionsStep, CompletionStep, PutResult, CleanData, BackupData,
                  ReleaseContext, ReleaseCustom, ghost
    <3>6. CASE WorkersStep
      BY <3>6 DEF WorkersStep, WorkerStep, StartCompile, FinishCompile, StartBuild,
         FinishBuild, FailBuild, ClearJobs, PutBack, MarkBuildFailed, PrepareCase,
         NoTeacher, RunCase, EndRun, FetchLock, RecordCase, RaiseInTool, ghost
    <3>7. CASE Idle \/ UNCHANGED vars
      BY <3>7 DEF Idle, vars, ghost
    <3> QED
      BY <3>1, <3>2, <3>3, <3>4, <3>5, <3>6, <3>7 DEF Next
  <2> QED
    BY <1>1, <2>1
<1>3. \A h, g \in handlers : h.sid = g.sid /\ h.att = g.att => h = g
  BY DEF HandlersApart
<1>4. ASSUME NEW s \in Sids PROVE ctx'[s].att <= requests'[s]
  <2>1. \/ ctx'[s].att = ctx[s].att \/ ctx'[s].att = 0
        \/ \E h \in handlers : h.sid = s /\ ctx'[s].att = h.att
    BY AnyResult DEF Moves, SameResult, NoContext, AllFail, Begins, Plans, Records
  <2> QED
    BY <1>1, <1>2, <2>1 DEF OwnEntry
(* A step that gives an id the number of one of its handlers.               *)
<1>5. ASSUME NEW g \in handlers, ctx'[g.sid].att = g.att
      PROVE  \/ /\ ctx[g.sid].att = g.att /\ ctx'[g.sid].lock = ctx[g.sid].lock
             \/ /\ FailRequest(g)
                /\ handlers' = handlers \ {g} /\ ctx'[g.sid].lock = ctx[g.sid].lock
             \/ /\ Register(g) /\ ctx'[g.sid].lock = g.att
                /\ handlers' = (handlers \ {g}) \cup {[g EXCEPT !.pc = "plan"]}
  <2> DEFINE t == g.sid
  <2>1. Moves(t) /\ ctx'[t] # NoContext
    BY <1>1, <1>5, AnyResult DEF NoContext
  <2>2. CASE SameResult(t) \/ Records(t) \/ Plans(t)
    BY <1>5, <2>2 DEF SameResult, Records, Plans
  <2>3. CASE AllFail(t)
    BY <1>3, <1>5, <2>3 DEF AllFail, FailRequest, Leave
  <2>4. CASE Begins(t)
    BY <1>3, <1>5, <2>4 DEF Begins, Register, Goto
  <2> QED
    BY <2>1, <2>2, <2>3, <2>4 DEF Moves
<1>6. ASSUME NEW f \in handlers', NEW s \in Sids, Arrives(s, f)
      PROVE  ctx'[f.sid].att # f.att
  <2>1. f.sid = s /\ f.att = requests[s] + 1
    BY <1>1, <1>6 DEF Arrives
  <2>2. ctx'[s].att = ctx[s].att
    BY <1>6 DEF Arrives, CreateDir, FindLeftover
  <2> QED
    BY <1>1, <2>1, <2>2 DEF OwnEntry
<1>7. ASSUME NEW f \in handlers', ctx'[f.sid].att = f.att
      PROVE  /\ f.pc \notin Early
             /\ f.pc = "plan" => ctx'[f.sid].lock # 0
  <2>1. CASE f \in handlers
    <3>1. CASE ctx[f.sid].att = f.att /\ ctx'[f.sid].lock = ctx[f.sid].lock
      BY <2>1, <3>1 DEF OwnEntry
    <3>2. CASE /\ Register(f)
               /\ handlers' = (handlers \ {f}) \cup {[f EXCEPT !.pc = "plan"]}
      <4>1. [f EXCEPT !.pc = "plan"].pc = "plan" /\ f.pc = "register"
        BY <1>1, <2>1, <3>2 DEF Handler, Register
      <4>2. FALSE
        BY <3>2, <4>1
      <4> QED
        BY <4>2
    <3> QED
      BY <1>5, <1>7, <2>1, <3>1, <3>2
  <2>2. CASE \E h \in handlers : /\ HandlerStep(h) /\ f.sid = h.sid /\ f.att = h.att
                                 /\ handlers' = (handlers \ {h}) \cup {f}
                                 /\ Onward(h, f)
    <3>1. PICK h \in handlers : /\ HandlerStep(h) /\ f.sid = h.sid /\ f.att = h.att
                                /\ handlers' = (handlers \ {h}) \cup {f}
                                /\ Onward(h, f)
      BY <2>2
    <3>2. CASE ctx[h.sid].att = h.att /\ ctx'[h.sid].lock = ctx[h.sid].lock
      <4>1. h.pc \notin Early
        BY <3>2 DEF OwnEntry
      <4>2. h.pc \in {"plan", "enqueue", "unwind"}
        BY <1>1, <4>1 DEF Early, Handler
      <4>3. f.pc \in {"enqueue", "unwind"}
        BY <3>1, <4>2 DEF Onward, ForgetLeftover, WipeLeftover, CreateAgain, MarkTrial,
                          CheckRequest, Register
      <4> QED
        BY <4>3 DEF Early
    <3>3. CASE handlers' = handlers \ {h}
      BY <2>2, <3>1, <3>3, <1>3
    <3>4. CASE Register(h) /\ ctx'[h.sid].lock = h.att
      <4>1. f.pc = "plan"
        BY <3>1, <3>4 DEF Onward, ForgetLeftover, WipeLeftover, CreateAgain, MarkTrial,
                          CheckRequest, Register, PlanTasks, RejectFull
      <4> QED
        BY <1>1, <3>1, <3>4, <4>1 DEF Early
    <3> QED
      BY <1>5, <1>7, <3>1, <3>2, <3>3, <3>4
  <2>3. CASE \E s \in Sids : Arrives(s, f)
    BY <1>6, <1>7, <2>3
  <2> QED
    BY <2>1, <2>2, <2>3, HandlerOrigin
<1> QED
  BY <1>4, <1>7 DEF OwnEntry

-----------------------------------------------------------------------------
(* What a step of a build, compile or case thread does to the thread: it    *)
(* ends, or goes on as another record of the same job.                      *)
Ends(w) ==
  \/ StartCompile(w) \/ FinishCompile(w) \/ StartBuild(w) \/ FinishBuild(w)
  \/ MarkBuildFailed(w) \/ NoTeacher(w) \/ RecordCase(w) \/ RaiseInTool(w)
  \/ EndRun(w) /\ MayRaise
  \/ FetchLock(w) /\ ctx[w.job.sid].lock = 0

GoesOn(w, v) ==
  \/ /\ StartCompile(w) /\ v.pc = "busy" /\ v.src = CommonDir(w.job.sid)
     /\ v.back = w.back /\ v.lk = ctx[w.job.sid].lock
  \/ /\ StartBuild(w) /\ v.pc = "busy" /\ v.src = CommonDir(w.job.sid)
     /\ v.back = w.back /\ v.lk = ctx[w.job.sid].plan /\ v.lk # 0
  \/ FailBuild(w) /\ v.pc = "clear" /\ v.src = w.src /\ v.back = w.back
  \/ ClearJobs(w) /\ v.pc = "fail" /\ v.src = w.src /\ v.back = queue
  \/ /\ PutBack(w) /\ v.pc = "fail" /\ v.src = w.src
     /\ \E i \in OthersJobs(w) :
          /\ \A k \in OthersJobs(w) : i <= k
          /\ queue' = Append(queue, w.back[i])
          /\ v.back = SubSeq(w.back, i + 1, Len(w.back))
  \/ /\ PrepareCase(w) /\ v.pc \in {"busy", "record"} /\ v.src = CommonDir(w.job.sid)
     /\ v.back = w.back
  \/ RunCase(w) /\ v.pc \in {"lock", "run"} /\ v.src = w.src /\ v.back = w.back
  \/ EndRun(w) /\ v.pc = "lock" /\ v.src = w.src /\ v.back = w.back
  \/ FetchLock(w) /\ v.pc = "record" /\ v.src = w.src /\ v.back = w.back

LEMMA WorkerMove ==
  ASSUME TypeInv, NEW w \in workers, WorkerStep(w)
  PROVE  \/ workers' = workers \ {w} /\ Ends(w)
         \/ \E v : /\ workers' = (workers \ {w}) \cup {v}
                   /\ v.job = w.job /\ GoesOn(w, v)
<1>1. w \in Worker
  BY DEF TypeInv, TypeOK
<1> DEFINE Kept(v) == v.job = w.job /\ v.back = w.back
           Goes(v) == workers' = (workers \ {w}) \cup {v}
           s       == w.job.sid
<1>2. \A pc : LET v == [w EXCEPT !.pc = pc] IN Kept(v) /\ v.pc = pc /\ v.src = w.src
  BY <1>1 DEF Worker
<1>3. \A pc, lk : LET v == [w EXCEPT !.pc = pc, !.lk = lk]
                  IN Kept(v) /\ v.pc = pc /\ v.src = w.src
  BY <1>1 DEF Worker
<1>4. \A pc, lk, f : LET v == [w EXCEPT !.pc = pc, !.lk = lk, !.src = f]
                     IN Kept(v) /\ v.pc = pc /\ v.src = f /\ v.lk = lk
  BY <1>1 DEF Worker
<1>5. \A pc, f : LET v == [w EXCEPT !.pc = pc, !.src = f]
                 IN Kept(v) /\ v.pc = pc /\ v.src = f
  BY <1>1 DEF Worker
<1>6. \A pc, lk, f : LET v == [w EXCEPT !.pc = pc, !.src = f, !.lk = lk]
                     IN Kept(v) /\ v.pc = pc /\ v.src = f /\ v.lk = lk
  BY <1>1 DEF Worker
<1>7. CASE StartCompile(w)
  <2>1. \/ Die(w)
        \/ Step(w, [w EXCEPT !.pc = "busy", !.lk = ctx[s].lock, !.src = CommonDir(s)])
    BY <1>7 DEF StartCompile
  <2>2. PICK v : v = [w EXCEPT !.pc = "busy", !.lk = ctx[s].lock, !.src = CommonDir(s)]
    OBVIOUS
  <2>3. Kept(v) /\ v.pc = "busy" /\ v.src = CommonDir(s) /\ v.lk = ctx[s].lock
    BY <1>4, <2>2
  <2> QED
    BY <1>7, <2>1, <2>2, <2>3 DEF Die, Step, Ends, GoesOn
<1>8. CASE StartBuild(w)
  <2>1. \/ Die(w)
        \/ /\ Step(w, [w EXCEPT !.pc = "busy", !.lk = ctx[s].plan, !.src = CommonDir(s)])
           /\ ctx[s].plan # 0
    BY <1>8 DEF StartBuild
  <2>2. PICK v : v = [w EXCEPT !.pc = "busy", !.lk = ctx[s].plan, !.src = CommonDir(s)]
    OBVIOUS
  <2>3. Kept(v) /\ v.pc = "busy" /\ v.src = CommonDir(s) /\ v.lk = ctx[s].plan
    BY <1>4, <2>2
  <2> QED
    BY <1>8, <2>1, <2>2, <2>3 DEF Die, Step, Ends, GoesOn
<1>9. CASE FailBuild(w)
  <2>1. PICK v : v = [w EXCEPT !.pc = "clear"] /\ Goes(v)
    BY <1>9 DEF FailBuild, Step
  <2>2. Kept(v) /\ v.pc = "clear" /\ v.src = w.src
    BY <1>2, <2>1
  <2> QED
    BY <1>9, <2>1, <2>2 DEF GoesOn
<1>10. CASE ClearJobs(w)
  <2>1. PICK v : v = [w EXCEPT !.pc = "fail", !.back = queue] /\ Goes(v)
    BY <1>10 DEF ClearJobs, Step
  <2>2. v.job = w.job /\ v.pc = "fail" /\ v.src = w.src /\ v.back = queue
    BY <1>1, <2>1 DEF Worker
  <2> QED
    BY <1>10, <2>1, <2>2 DEF GoesOn
<1>11. CASE PutBack(w)
  <2>1. PICK i \in OthersJobs(w) :
          /\ \A k \in OthersJobs(w) : i <= k
          /\ queue' = Append(queue, w.back[i])
          /\ Step(w, [w EXCEPT !.back = SubSeq(@, i + 1, Len(@))])
    BY <1>11 DEF PutBack
  <2>2. PICK v : v = [w EXCEPT !.back = SubSeq(@, i + 1, Len(@))]
    OBVIOUS
  <2>3. /\ v.job = w.job /\ v.pc = w.pc /\ v.src = w.src
        /\ v.back = SubSeq(w.back, i + 1, Len(w.back))
    BY <1>1, <2>2 DEF Worker
  <2>4. Goes(v) /\ w.pc = "fail"
    BY <1>11, <2>1, <2>2 DEF Step, PutBack, Is
  <2>5. GoesOn(w, v)
    BY <1>11, <2>1, <2>3, <2>4 DEF GoesOn
  <2> QED
    BY <2>3, <2>4, <2>5
<1>12. CASE PrepareCase(w)
  <2>1. \/ Step(w, [w EXCEPT !.pc = "busy", !.src = CommonDir(s)])
        \/ Step(w, [w EXCEPT !.pc = "record", !.src = CommonDir(s), !.lk = ctx[s].lock])
    BY <1>12 DEF PrepareCase
  <2>2. PICK v : /\ Goes(v) /\ Kept(v) /\ v.pc \in {"busy", "record"}
                 /\ v.src = CommonDir(s)
    <3>1. CASE Step(w, [w EXCEPT !.pc = "busy", !.src = CommonDir(s)])
      <4>1. PICK v : v = [w EXCEPT !.pc = "busy", !.src = CommonDir(s)] /\ Goes(v)
        BY <3>1 DEF Step
      <4>2. Kept(v) /\ v.pc = "busy" /\ v.src = CommonDir(s)
        BY <1>5, <4>1
      <4> QED
        BY <4>1, <4>2
    <3>2. CASE Step(w, [w EXCEPT !.pc = "record", !.src = CommonDir(s), !.lk = ctx[s].lock])
      <4>1. PICK v : /\ v = [w EXCEPT !.pc = "record", !.src = CommonDir(s), !.lk = ctx[s].lock]
                     /\ Goes(v)
        BY <3>2 DEF Step
      <4>2. Kept(v) /\ v.pc = "record" /\ v.src = CommonDir(s)
        BY <1>6, <4>1
      <4> QED
        BY <4>1, <4>2
    <3> QED
      BY <2>1, <3>1, <3>2
  <2> QED
    BY <1>12, <2>2 DEF GoesOn
<1>13. CASE RunCase(w) \/ EndRun(w)
  <2>1. \/ RunCase(w) /\ \E pc \in {"lock", "run"} : Step(w, [w EXCEPT !.pc = pc])
        \/ EndRun(w) /\ \/ Step(w, [w EXCEPT !.pc = "lock"])
                        \/ MayRaise /\ Die(w)
    BY <1>13 DEF RunCase, EndRun
  <2>2. CASE EndRun(w) /\ MayRaise /\ Die(w)
    BY <2>2 DEF Die, Ends
  <2>3. CASE \/ RunCase(w) /\ \E pc \in {"lock", "run"} : Step(w, [w EXCEPT !.pc = pc])
             \/ EndRun(w) /\ Step(w, [w EXCEPT !.pc = "lock"])
    <3>1. PICK pc \in {"lock", "run"} : /\ Step(w, [w EXCEPT !.pc = pc])
                                        /\ RunCase(w) \/ (EndRun(w) /\ pc = "lock")
      BY <2>3
    <3>2. PICK v : v = [w EXCEPT !.pc = pc] /\ Goes(v)
      BY <3>1 DEF Step
    <3>3. Kept(v) /\ v.pc = pc /\ v.src = w.src
      BY <1>2, <3>2
    <3> QED
      BY <3>1, <3>2, <3>3 DEF GoesOn
  <2> QED
    BY <2>1, <2>2, <2>3
<1>14. CASE FetchLock(w)
  <2>1. \/ Die(w) /\ ctx[s].lock = 0
        \/ Step(w, [w EXCEPT !.pc = "record", !.lk = ctx[s].lock])
    BY <1>14 DEF FetchLock
  <2>2. PICK v : v = [w EXCEPT !.pc = "record", !.lk = ctx[s].lock]
    OBVIOUS
  <2>3. Kept(v) /\ v.pc = "record" /\ v.src = w.src
    BY <1>3, <2>2
  <2> QED
    BY <1>14, <2>1, <2>2, <2>3 DEF Die, Step, Ends, GoesOn
<1>15. CASE \/ FinishCompile(w) \/ FinishBuild(w) \/ MarkBuildFailed(w)
            \/ NoTeacher(w) \/ RecordCase(w) \/ RaiseInTool(w)
  BY <1>15 DEF FinishCompile, FinishBuild, MarkBuildFailed, NoTeacher, RecordCase,
               RaiseInTool, MarkFailed, Die, Ends
<1> QED
  BY <1>7, <1>8, <1>9, <1>10, <1>11, <1>12, <1>13, <1>14, <1>15 DEF WorkerStep

(* Threads keep working on files that are there.                            *)
LEMMA WorkersHoldStep ==
  ASSUME TypeInv, WorkersHold, [Next]_vars
  PROVE  WorkersHold'
<1>1. \A s : CommonDir(s) # NoDir
  BY ConstantsAssumption DEF CommonDir, NoDir, EmptyDir
<1>2. CASE WorkersStep
  <2>1. PICK w \in workers : WorkerStep(w)
    BY <1>2 DEF WorkersStep
  <2>2. (w.pc # "start" => w.src # NoDir) /\ (w.back # <<>> => Is(w, "build", "fail"))
    BY DEF WorkersHold
  <2>3. CASE workers' = workers \ {w}
    BY <2>3 DEF WorkersHold, Is
  <2>4. ASSUME NEW v, v.job = w.job, GoesOn(w, v)
        PROVE  v.src # NoDir /\ (v.back # <<>> => v.job.kind = "build" /\ v.pc = "fail")
    <3>1. v.src = CommonDir(w.job.sid) \/ (v.src = w.src /\ w.pc # "start")
      BY <2>4 DEF GoesOn, FailBuild, ClearJobs, PutBack, RunCase, EndRun, FetchLock, Is
    <3>2. \/ v.back = w.back /\ ~Is(w, "build", "fail")
          \/ v.pc = "fail" /\ w.job.kind = "build"
      BY <2>4 DEF GoesOn, StartCompile, StartBuild, FailBuild, ClearJobs, PutBack,
                  PrepareCase, RunCase, EndRun, FetchLock, Is
    <3> QED
      BY <1>1, <2>2, <2>4, <3>1, <3>2
  <2>5. CASE \E v : /\ workers' = (workers \ {w}) \cup {v}
                    /\ v.job = w.job /\ GoesOn(w, v)
    BY <2>4, <2>5 DEF WorkersHold, Is
  <2> QED
    BY <2>1, <2>3, <2>5, WorkerMove
<1>3. CASE DispatcherStep
  <2>1. workers' = workers \/ workers' = workers \cup {MkWorker(Cur)}
    BY <1>3 DEF DispatcherStep, TakeJob, DropTimedOut, DeferTrial, LoseDispatcher,
         StartAnalysis, StartNetwork, StartBuildThread, StartCompileThread,
         StartCaseThread, Requeue, PutJob, PassAnalysis, FailAnalysis, RaiseAnalysis,
         FinishNetwork, FailNetwork, Spawn
  <2>2. MkWorker(Cur).pc = "start" /\ MkWorker(Cur).back = <<>>
    BY DEF MkWorker
  <2> QED
    BY <2>1, <2>2 DEF WorkersHold, Is
<1>4. CASE Request \/ Clock \/ HandlersStep \/ CompletionsStep \/ Idle \/ UNCHANGED vars
  <2>1. workers' = workers
    <3>1. CASE Request \/ Clock
      BY <3>1 DEF Request, Clock, CreateDir, FindLeftover, Expire
    <3>2. CASE HandlersStep
      BY <3>2 DEF HandlersStep, HandlerStep, ForgetLeftover, WipeLeftover, CreateAgain,
         MarkTrial, CheckRequest, FailRequest, Register, PlanTasks, Enqueue, RejectFull,
         UnwindRequest
    <3>3. CASE CompletionsStep
      BY <3>3 DEF CompletionsStep, CompletionStep, PutResult, CleanData, BackupData,
                  ReleaseContext, ReleaseCustom
    <3>4. CASE Idle \/ UNCHANGED vars
      BY <3>4 DEF Idle, vars
    <3> QED
      BY <1>4, <3>1, <3>2, <3>3, <3>4
  <2> QED
    BY <2>1 DEF WorkersHold, Is
<1> QED
  BY <1>2, <1>3, <1>4 DEF Next

-----------------------------------------------------------------------------
(* What a step does to the dispatcher's hand and to the jobs outside.       *)

(* The forms disp can take.                                                 *)
Reports(fatal) == disp' = [disp EXCEPT !.pc = "report", !.fatal = fatal]

LEMMA DispForms ==
  ASSUME TypeInv
  PROVE  /\ \A pc, hand : At(pc, hand) => disp'.pc = pc /\ disp'.hand = hand
         /\ Loop => disp'.pc = "loop" /\ disp'.hand = <<>>
         /\ \A fatal : Reports(fatal) => disp'.pc = "report" /\ disp'.hand = disp.hand
         /\ \A raised : disp' = AfterCompletion(raised) =>
              \/ disp'.pc = "loop" /\ disp'.hand = <<>>
              \/ disp'.pc = "dead" /\ disp'.hand = <<>>
              \/ disp'.pc = "saexc" /\ disp'.hand = disp.hand
<1>1. disp \in [pc : DispPC, hand : Seq(Job), fatal : BOOLEAN]
  BY DEF TypeInv, TypeOK
<1>2. \A pc, hand : At(pc, hand) => disp'.pc = pc /\ disp'.hand = hand
  BY <1>1 DEF At
<1>3. ASSUME NEW fatal, Reports(fatal)
      PROVE  disp'.pc = "report" /\ disp'.hand = disp.hand
  BY <1>1, <1>3 DEF Reports
<1>4. Loop => disp'.pc = "loop" /\ disp'.hand = <<>>
  BY DEF Loop
<1>5. /\ [disp EXCEPT !.pc = "dead", !.hand = <<>>].pc = "dead"
      /\ [disp EXCEPT !.pc = "dead", !.hand = <<>>].hand = <<>>
      /\ [disp EXCEPT !.pc = "saexc"].pc = "saexc"
      /\ [disp EXCEPT !.pc = "saexc"].hand = disp.hand
  BY <1>1
<1>6. /\ [pc |-> "loop", hand |-> <<>>, fatal |-> FALSE].pc = "loop"
      /\ [pc |-> "loop", hand |-> <<>>, fatal |-> FALSE].hand = <<>>
  OBVIOUS
<1>7. ASSUME NEW raised, disp' = AfterCompletion(raised)
      PROVE  \/ disp'.pc = "loop" /\ disp'.hand = <<>>
             \/ disp'.pc = "dead" /\ disp'.hand = <<>>
             \/ disp'.pc = "saexc" /\ disp'.hand = disp.hand
  <2>1. \/ AfterCompletion(raised) = [pc |-> "loop", hand |-> <<>>, fatal |-> FALSE]
        \/ AfterCompletion(raised) = [disp EXCEPT !.pc = "dead", !.hand = <<>>]
        \/ AfterCompletion(raised) = [disp EXCEPT !.pc = "saexc"]
    BY DEF AfterCompletion
  <2> QED
    BY <1>5, <1>6, <1>7, <2>1
<1> QED
  BY <1>2, <1>3, <1>4, <1>7

(* The job in hand.                                                         *)
LEMMA CurType ==
  ASSUME TypeInv
  PROVE  /\ disp.hand \in Seq(Job) /\ queue \in Seq(Job)
         /\ disp.pc \notin {"loop", "dead"} =>
              disp.hand # <<>> /\ Cur \in Job /\ Cur.sid \in Sids
<1>1. disp.hand \in Seq(Job) /\ queue \in Seq(Job)
  BY DEF TypeInv, TypeOK
<1>2. disp.hand # <<>> => Cur \in Job
  BY <1>1, HeadTailProperties DEF Cur
<1>3. Cur \in Job => Cur.sid \in Sids
  BY DEF Job
<1> QED
  BY <1>1, <1>2, <1>3 DEF TypeInv, DispatcherOwnsOne

(* A step of another thread: disp changes only by the end of a completion   *)
(* of the dispatcher's own.                                                 *)
LEMMA DispKept ==
  ASSUME TypeInv, [Next]_vars, ~DispatcherStep
  PROVE  \/ disp' = disp
         \/ disp.pc = "report" /\ \E raised : disp' = AfterCompletion(raised)
<1>1. CASE CompletionsStep
  <2>1. PICK c \in completing : CompletionStep(c)
    BY <1>1 DEF CompletionsStep
  <2>2. c.by.kind = "disp" => disp.pc = "report"
    BY DEF TypeInv, DispatcherOwnsOne
  <2> QED
    BY <2>1, <2>2 DEF CompletionStep, PutResult, CleanData, BackupData, ReleaseContext,
                      ReleaseCustom
<1>2. CASE WorkersStep
  BY <1>2 DEF WorkersStep, WorkerStep, StartCompile, FinishCompile, StartBuild,
       FinishBuild, FailBuild, ClearJobs, PutBack, MarkBuildFailed, PrepareCase,
       NoTeacher, RunCase, EndRun, FetchLock, RecordCase, RaiseInTool
<1>3. CASE Request \/ Clock
  BY <1>3 DEF Request, Clock, CreateDir, FindLeftover, Expire
<1>4. CASE HandlersStep
  BY <1>4 DEF HandlersStep, HandlerStep, ForgetLeftover, WipeLeftover, CreateAgain,
       MarkTrial, CheckRequest, FailRequest, Register, PlanTasks, Enqueue, RejectFull,
       UnwindRequest
<1>5. CASE Idle \/ UNCHANGED vars
  BY <1>5 DEF Idle, vars
<1> QED
  BY <1>1, <1>2, <1>3, <1>4, <1>5 DEF Next

(* The dispatcher holds one job while it works on it.                       *)
LEMMA HandHoldsStep ==
  ASSUME TypeInv, HandHolds, AnalysisInHand, [Next]_vars
  PROVE  HandHolds'
<1>1. \A j : Head(<<j>>) = j
  OBVIOUS
<1>2. CASE DispatcherStep
  <2>1. CASE TakeJob
    <3>1. Loop \/ At("check", <<Head(queue)>>)
      BY <2>1 DEF TakeJob
    <3> QED
      BY <1>1, <3>1, DispForms DEF HandHolds, Cur
  <2>2. CASE DropTimedOut \/ StartBuildThread \/ StartCompileThread \/ StartCaseThread
    <3>1. Loop
      BY <2>2 DEF DropTimedOut, StartBuildThread, StartCompileThread, StartCaseThread
    <3> QED
      BY <3>1, DispForms DEF HandHolds
  <2>3. CASE DeferTrial \/ Requeue \/ LoseDispatcher \/ PutJob \/ PassAnalysis \/ FinishNetwork
    <3>1. Loop \/ \E pc \in {"put", "dead"} : \E hand : At(pc, hand)
      BY <2>3 DEF DeferTrial, Requeue, LoseDispatcher, PutJob, PassAnalysis, FinishNetwork
    <3> QED
      BY <3>1, DispForms DEF HandHolds
  <2>4. CASE StartAnalysis \/ StartNetwork
    <3>1. /\ disp.hand = <<Cur>> /\ Cur.kind \in {"sa", "net"}
          /\ At("sa", disp.hand) \/ At("net", disp.hand)
      BY <2>4 DEF StartAnalysis, StartNetwork, Ready, HandHolds
    <3>2. disp'.hand = disp.hand /\ disp'.pc \in {"sa", "net"}
      BY <3>1, DispForms
    <3> QED
      BY <3>1, <3>2 DEF HandHolds, Cur
  <2>5. CASE FailAnalysis \/ RaiseAnalysis \/ FailNetwork
    <3>1. disp.hand = <<Cur>> /\ Cur.kind \in {"sa", "net"}
      BY <2>5 DEF FailAnalysis, RaiseAnalysis, FailNetwork, HandHolds
    <3>2. Loop \/ \E fatal : Reports(fatal)
      BY <2>5 DEF FailAnalysis, RaiseAnalysis, FailNetwork, FailSubmission, Reports
    <3>3. \/ disp'.pc = "loop" /\ disp'.hand = <<>>
          \/ disp'.pc = "report" /\ disp'.hand = disp.hand
      BY <3>2, DispForms
    <3> QED
      BY <3>1, <3>3 DEF HandHolds, Cur
  <2> QED
    BY <1>2, <2>1, <2>2, <2>3, <2>4, <2>5 DEF DispatcherStep
<1>3. CASE ~DispatcherStep
  <2>1. CASE disp' = disp
    BY <2>1 DEF HandHolds, Cur
  <2>2. CASE disp.pc = "report" /\ \E raised : disp' = AfterCompletion(raised)
    <3>1. \/ disp'.pc \in {"loop", "dead"} /\ disp'.hand = <<>>
          \/ disp'.pc = "saexc" /\ disp'.hand = disp.hand
      BY <2>2, DispForms
    <3>2. disp.hand = <<Cur>> /\ Cur.kind \in {"sa", "net"}
      BY <2>2 DEF HandHolds
    <3> QED
      BY <3>1, <3>2 DEF HandHolds, Cur
  <2> QED
    BY <1>3, <2>1, <2>2, DispKept
<1> QED
  BY <1>2, <1>3

(* A case job leaves the dispatcher only into the queue or a thread, unless *)
(* its id is gone or has timed out; released jobs go where it can find them. *)
LEMMA DispatcherKeeps ==
  ASSUME TypeInv, HandHolds, AnalysisInHand, OnlyScreened, DispatcherStep
  PROVE  /\ \A j \in Outside : j.kind = "exec" =>
              \/ j \in Outside'
              \/ ctx[j.sid].att = 0 \/ ctx[j.sid].expired \/ disp'.pc = "dead"
         /\ \A t \in Sids : \/ ctx'[t].pending = ctx[t].pending
                            \/ Range(ctx[t].pending) \subseteq Outside'
<1> DEFINE threads == UNION {{w.job} \cup Range(w.back) : w \in workers}
<1>1. /\ disp.hand \in Seq(Job) /\ queue \in Seq(Job)
      /\ disp.pc \notin {"loop", "dead"} =>
           disp.hand # <<>> /\ Cur \in Job /\ Cur.sid \in Sids
  BY CurType
<1>2. \A j \in Job : Range(<<j>>) = {j}
  BY RangeFew
<1>3. Range(<<>>) = {}
  BY RangeFew
<1>4. Outside = Range(queue) \cup Range(disp.hand) \cup threads
  BY DEF Outside
<1>5. workers' = workers =>
        Outside' = Range(queue') \cup Range(disp'.hand) \cup threads
  BY DEF Outside
<1> HIDE DEF threads
<1>6. CASE TakeJob
  <2>1. /\ queue # <<>> /\ queue' = Tail(queue) /\ workers' = workers /\ ctx' = ctx
        /\ disp.pc = "loop" /\ disp.hand = <<>>
    BY <1>6 DEF TakeJob, HandHolds
  <2>2. Range(queue) = {Head(queue)} \cup Range(Tail(queue)) /\ Head(queue) \in Job
    BY <1>1, <2>1, RangeTail
  <2>3. CASE Contains(Head(queue).sid)
    <3>1. disp'.hand = <<Head(queue)>>
      BY <1>6, <2>3, DispForms DEF TakeJob
    <3> QED
      BY <1>2, <1>3, <1>4, <1>5, <2>1, <2>2, <3>1
  <2>4. CASE ~Contains(Head(queue).sid)
    BY <1>3, <1>4, <1>5, <2>1, <2>2, <2>4 DEF Contains
  <2> QED
    BY <2>3, <2>4
<1>7. CASE DropTimedOut
  <2>1. /\ disp.hand = <<Cur>> /\ Cur \in Job /\ ctx[Cur.sid].expired
        /\ queue' = queue /\ workers' = workers /\ ctx' = ctx
    BY <1>1, <1>7 DEF DropTimedOut, HandHolds, TimedOut
  <2>2. Range(disp.hand) = {Cur}
    BY <1>2, <2>1
  <2> QED
    BY <1>4, <1>5, <2>1, <2>2
<1>8. CASE LoseDispatcher
  BY <1>8, DispForms DEF LoseDispatcher
<1>9. CASE DeferTrial \/ Requeue \/ StartAnalysis \/ StartNetwork
  <2>1. disp'.hand = disp.hand /\ queue' = queue /\ workers' = workers /\ ctx' = ctx
    BY <1>9, DispForms DEF DeferTrial, Requeue, StartAnalysis, StartNetwork
  <2> QED
    BY <1>4, <1>5, <2>1
<1>10. CASE StartBuildThread \/ StartCompileThread \/ StartCaseThread
  <2>1. /\ disp.hand = <<Cur>> /\ Cur \in Job
        /\ queue' = queue /\ workers' = workers \cup {MkWorker(Cur)} /\ ctx' = ctx
    BY <1>1, <1>10 DEF StartBuildThread, StartCompileThread, StartCaseThread, Ready,
                       HandHolds, Spawn
  <2>2. MkWorker(Cur).job = Cur /\ MkWorker(Cur) \in workers'
    BY <2>1 DEF MkWorker
  <2>3. Range(disp.hand) = {Cur}
    BY <1>2, <2>1
  <2>4. threads \subseteq Outside' /\ Cur \in Outside' /\ Range(queue) \subseteq Outside'
    BY <2>1, <2>2 DEF Outside, threads
  <2> QED
    BY <1>4, <2>1, <2>3, <2>4
<1>11. CASE PutJob
  <2>1. /\ disp.hand # <<>> /\ queue' = Append(queue, Cur) /\ workers' = workers /\ ctx' = ctx
        /\ disp'.hand = Tail(disp.hand)
    BY <1>11, DispForms DEF PutJob
  <2>2. Range(queue') = Range(queue) \cup {Cur}
    BY <1>1, <1>11, <2>1, RangeAppend DEF PutJob
  <2>3. Range(disp.hand) = {Cur} \cup Range(Tail(disp.hand))
    BY <1>1, <2>1, RangeTail DEF Cur
  <2> QED
    BY <1>4, <1>5, <2>1, <2>2, <2>3
<1>12. CASE PassAnalysis
  <2>1. /\ disp.hand = <<Cur>> /\ Cur \in Job /\ Cur.kind = "sa"
        /\ queue' = queue /\ workers' = workers /\ ctx' = ctx
    BY <1>1, <1>12 DEF PassAnalysis, HandHolds, AnalysisInHand
  <2>2. Range(disp.hand) = {Cur}
    BY <1>2, <2>1
  <2> QED
    BY <1>4, <1>5, <2>1, <2>2
<1>13. CASE FailAnalysis \/ RaiseAnalysis \/ FailNetwork
  <2>1. /\ disp.hand = <<Cur>> /\ Cur \in Job /\ Cur.kind \in {"sa", "net"}
        /\ queue' = queue /\ workers' = workers
    BY <1>1, <1>13 DEF FailAnalysis, RaiseAnalysis, FailNetwork, HandHolds
  <2>2. Range(disp.hand) = {Cur}
    BY <1>2, <2>1
  <2>3. PICK label, fatal : FailSubmission(label, fatal)
    BY <1>13 DEF FailAnalysis, RaiseAnalysis, FailNetwork
  <2>4. ctx' = ctx \/ FailAll(Cur.sid, ctx[Cur.sid].att, label)
    BY <2>3 DEF FailSubmission
  <2>5. Cur.sid \in Sids
    BY <2>1 DEF Job
  <2>6. \A t \in Sids : ctx'[t].pending = ctx[t].pending
    BY <2>4, <2>5, FailAllEffect DEF TypeInv
  <2> QED
    BY <1>4, <1>5, <2>1, <2>2, <2>6
<1>14. CASE FinishNetwork
  <2>1. /\ disp.hand = <<Cur>> /\ Cur \in Job /\ Cur.kind = "net" /\ Cur.sid \in Sids
        /\ queue' = queue /\ workers' = workers
    BY <1>1, <1>14 DEF FinishNetwork, HandHolds, OnlyScreened
  <2>2. Range(disp.hand) = {Cur}
    BY <1>2, <2>1
  <2>3. disp'.hand = ctx[Cur.sid].pending
    BY <1>14, DispForms DEF FinishNetwork
  <2>4. \A t \in Sids : t # Cur.sid => ctx'[t].pending = ctx[t].pending
    BY <1>14, <2>1 DEF FinishNetwork, TypeInv, TypeOK
  <2> QED
    BY <1>4, <1>5, <2>1, <2>2, <2>3, <2>4
<1> QED
  BY <1>6, <1>7, <1>8, <1>9, <1>10, <1>11, <1>12, <1>13, <1>14 DEF DispatcherStep

(* The job's case needs no verdict: it has one, or is no case of its        *)
(* submission.                                                              *)
Judged(j) == j.case \in ctx[j.sid].cases => ctx[j.sid].rec[j.case] # 0

(* A thread that ends takes no job with it whose case needs a verdict.      *)
LEMMA EndingKeeps ==
  ASSUME TypeInv, NoneUnknown, AllLocked, WorkersHold, ~MayRaise,
         NEW w \in workers, WorkerStep(w), Ends(w),
         NEW j \in {w.job} \cup Range(w.back), j.kind = "exec"
  PROVE  Judged(j)'
<1>1. /\ w.job \in Job /\ w.job.sid \in Sids /\ w.back \in Seq(Job) /\ w \in Worker
      /\ w.pc # "start" => w.src # 0
      /\ w.back # <<>> => Is(w, "build", "fail")
      /\ ctx \in [Sids -> Context] /\ \A s \in Sids : ctx[s] \in Context
  BY DEF TypeInv, TypeOK, Worker, Job, WorkersHold, NoDir
<1>2. ASSUME NEW label, label # 0, MarkFailed(w, label), j.sid = w.job.sid
      PROVE  Judged(j)'
  <2>1. CASE Contains(w.job.sid)
    <3>1. FailAll(w.job.sid, ctx[w.job.sid].att, label)
      BY <1>2, <2>1 DEF MarkFailed
    <3>2. /\ ctx'[j.sid].cases = AllCases(j.sid)
          /\ \A n \in AllCases(j.sid) : ctx'[j.sid].rec[n] = label
      BY <1>1, <1>2, <3>1, FailAllEffect DEF TypeInv
    <3> QED
      BY <1>2, <3>2 DEF Judged
  <2>2. CASE ~Contains(w.job.sid)
    BY <1>1, <1>2, <2>2 DEF MarkFailed, Contains, NoneUnknown, Judged
  <2> QED
    BY <2>1, <2>2
<1>3. CASE Is(w, "build", "fail")
  <2>1. MarkBuildFailed(w)
    BY <1>3 DEF Ends, StartCompile, FinishCompile, StartBuild, FinishBuild, NoTeacher,
                RecordCase, RaiseInTool, EndRun, FetchLock, Is
  <2>2. j \in Range(w.back)
    BY <1>3 DEF Is
  <2>3. PICK i \in 1..Len(w.back) : j = w.back[i]
    BY <1>1, <2>2, RangeIs
  <2>4. j.sid = w.job.sid
    BY <2>1, <2>3 DEF MarkBuildFailed, OthersJobs
  <2>5. w.src # 0 /\ MarkFailed(w, w.src)
    BY <1>1, <2>1 DEF MarkBuildFailed, Is
  <2> QED
    BY <1>2, <2>4, <2>5
<1>4. CASE ~Is(w, "build", "fail")
  <2>1. j = w.job
    BY <1>1, <1>4, RangeFew
  <2>2. NoTeacher(w) \/ RecordCase(w) \/ (FetchLock(w) /\ ctx[w.job.sid].lock = 0)
    BY <2>1 DEF Ends, StartCompile, FinishCompile, StartBuild, FinishBuild,
                MarkBuildFailed, RaiseInTool, Is
  <2>3. CASE NoTeacher(w)
    <3>1. MarkFailed(w, ctx[j.sid].att)
      BY <2>1, <2>3 DEF NoTeacher
    <3>2. CASE ctx[j.sid].att # 0
      BY <1>2, <2>1, <3>1, <3>2
    <3>3. CASE ctx[j.sid].att = 0
      <4>1. ctx' = ctx
        BY <2>1, <3>1, <3>3 DEF MarkFailed, Contains
      <4> QED
        BY <1>1, <2>1, <3>3, <4>1 DEF NoneUnknown, Judged
    <3> QED
      BY <3>2, <3>3
  <2>4. CASE FetchLock(w) /\ ctx[w.job.sid].lock = 0
    <3>1. ctx' = ctx
      BY <2>4 DEF FetchLock
    <3> QED
      BY <1>1, <2>1, <2>4, <3>1 DEF AllLocked, Locked, Judged
  <2>5. CASE RecordCase(w)
    <3> DEFINE s   == w.job.sid
               rec == [ctx[s].rec EXCEPT ![w.job.case] = w.src]
    <3>1. CASE Contains(s) /\ w.job.case \in ctx[s].cases
      <4>1. ctx' = [ctx EXCEPT ![s].rec = rec] /\ w.src # 0
        BY <1>1, <2>5, <3>1 DEF RecordCase, Is
      <4>2. ctx[s].rec \in [Cases -> DirVals] /\ w.job.case \in Cases
        BY <1>1, <3>1 DEF Context
      <4>3. rec[w.job.case] = w.src
        BY <4>2
      <4> HIDE DEF rec
      <4>4. ctx'[s].rec = rec
        BY <1>1, <4>1 DEF Context
      <4> QED
        BY <2>1, <4>1, <4>3, <4>4 DEF Judged
    <3>2. CASE ~Contains(s)
      BY <1>1, <2>1, <2>5, <3>2 DEF RecordCase, Contains, NoneUnknown, Judged
    <3>3. CASE Contains(s) /\ w.job.case \notin ctx[s].cases
      BY <2>1, <2>5, <3>3 DEF RecordCase, Judged
    <3> QED
      BY <3>1, <3>2, <3>3
  <2> QED
    BY <2>2, <2>3, <2>4, <2>5
<1> QED
  BY <1>3, <1>4

(* A case job of a thread, or in the queue when a thread empties it, is     *)
(* still somewhere, or its case needs no verdict, or its submission is      *)
(* about to be marked failed.                                               *)
LEMMA WorkerKeeps ==
  ASSUME TypeInv, NoneUnknown, AllLocked, WorkersHold, ~MayRaise,
         NEW w \in workers, WorkerStep(w),
         NEW j \in Outside, j.kind = "exec"
  PROVE  j \in Outside' \/ Judged(j)' \/ Failing(j.sid)'
<1> DEFINE Mine(v) == {v.job} \cup Range(v.back)
<1>1. /\ queue \in Seq(Job) /\ w.back \in Seq(Job)
      /\ w.back # <<>> => Is(w, "build", "fail")
  BY DEF TypeInv, TypeOK, Worker, WorkersHold
<1>2. disp' = disp
  BY DEF WorkerStep, StartCompile, FinishCompile, StartBuild, FinishBuild, FailBuild,
       ClearJobs, PutBack, MarkBuildFailed, PrepareCase, NoTeacher, RunCase, EndRun,
       FetchLock, RecordCase, RaiseInTool
<1>3. \/ j \in Range(queue) \/ j \in Range(disp.hand)
      \/ \E v \in workers : j \in Mine(v)
  BY DEF Outside
<1>4. /\ Range(queue') \subseteq Outside' /\ Range(disp'.hand) \subseteq Outside'
      /\ \A v \in workers' : Mine(v) \subseteq Outside'
  BY DEF Outside
<1>5. CASE workers' = workers \ {w} /\ Ends(w)
  <2>1. queue' = queue
    BY <1>5 DEF Ends, StartCompile, FinishCompile, StartBuild, FinishBuild,
                MarkBuildFailed, NoTeacher, RecordCase, RaiseInTool, EndRun, FetchLock
  <2>2. CASE j \in Mine(w)
    BY <1>5, <2>2, EndingKeeps
  <2>3. CASE j \notin Mine(w)
    BY <1>2, <1>3, <1>4, <1>5, <2>1, <2>3
  <2> QED
    BY <2>2, <2>3
<1>6. ASSUME NEW v, workers' = (workers \ {w}) \cup {v}, v.job = w.job, GoesOn(w, v)
      PROVE  j \in Outside' \/ Failing(j.sid)'
  <2>1. CASE ClearJobs(w)
    <3>1. w.back = <<>>
      BY <1>1, <2>1 DEF ClearJobs, Is
    <3>2. v.back = queue
      BY <1>6, <2>1 DEF GoesOn, StartCompile, StartBuild, FailBuild, ClearJobs, PutBack,
                        PrepareCase, RunCase, EndRun, FetchLock, Is
    <3>3. Range(w.back) = {}
      BY <3>1, RangeFew
    <3> QED
      BY <1>2, <1>3, <1>4, <1>6, <3>2, <3>3
  <2>2. CASE PutBack(w)
    <3>1. PICK i \in OthersJobs(w) :
            /\ \A k \in OthersJobs(w) : i <= k
            /\ queue' = Append(queue, w.back[i])
            /\ v.back = SubSeq(w.back, i + 1, Len(w.back)) /\ v.pc = "fail"
      BY <1>6, <2>2 DEF GoesOn, StartCompile, StartBuild, FailBuild, ClearJobs, PutBack,
                        PrepareCase, RunCase, EndRun, FetchLock, Is
    <3>2. i \in 1..Len(w.back) /\ w.back[i] \in Job
      BY <1>1, ElementOfSeq DEF OthersJobs
    <3>3. Range(queue') = Range(queue) \cup {w.back[i]}
      BY <1>1, <3>1, <3>2, RangeAppend
    <3>4. j \in Range(w.back) => \/ j = w.back[i] \/ j \in Range(v.back)
                                 \/ \E k \in 1..Len(w.back) : k < i /\ j = w.back[k]
      <4>1. \A x \in Range(w.back) :
              \/ x \in {w.back[i]} \cup Range(SubSeq(w.back, i + 1, Len(w.back)))
              \/ \E k \in 1..Len(w.back) : k < i /\ x = w.back[k]
        BY <1>1, <3>2, RangeSubSeq
      <4> QED
        BY <3>1, <4>1
    <3>5. ASSUME NEW k \in 1..Len(w.back), k < i, j = w.back[k] PROVE Failing(j.sid)'
      <4>1. k \notin OthersJobs(w)
        BY <3>1, <3>2, <3>5
      <4>2. j.sid = w.job.sid
        BY <3>5, <4>1 DEF OthersJobs
      <4>3. w.job.kind = "build"
        BY <2>2 DEF PutBack, Is
      <4> QED
        BY <1>6, <3>1, <4>2, <4>3 DEF Failing, Is
    <3>6. CASE j \in Range(w.back)
      BY <1>4, <1>6, <3>3, <3>4, <3>5, <3>6
    <3>7. CASE j \notin Range(w.back)
      BY <1>2, <1>3, <1>4, <1>6, <3>3, <3>7
    <3> QED
      BY <3>6, <3>7
  <2>3. CASE ~ClearJobs(w) /\ ~PutBack(w)
    <3>1. queue' = queue
      BY <2>3, WorkerGoesOn
    <3>2. v.back = w.back
      BY <1>6, <2>3 DEF GoesOn
    <3> QED
      BY <1>2, <1>3, <1>4, <1>6, <3>1, <3>2
  <2> QED
    BY <2>1, <2>2, <2>3
<1> QED
  BY <1>5, <1>6, WorkerMove

(* A case job outside the pending lists stays there, or its case needs no   *)
(* verdict any more, or one of the reasons the dispatcher has to drop it    *)
(* applies.                                                                 *)
LEMMA StepKeeps ==
  ASSUME CaseInv, ~MayRaise, [Next]_vars, NEW j \in Outside, j.kind = "exec"
  PROVE  \/ j \in Outside' \/ Judged(j)' \/ Failing(j.sid)'
         \/ ctx[j.sid].att = 0 \/ ctx[j.sid].expired \/ disp'.pc = "dead"
<1>1. /\ TypeInv /\ NoneUnknown /\ AllLocked /\ WorkersHold /\ HandHolds
      /\ AnalysisInHand /\ OnlyScreened /\ queue \in Seq(Job)
  BY DEF CaseInv, ScreenInv, JobsApart, TypeInv, TypeOK
<1>2. CASE DispatcherStep
  BY <1>1, <1>2, DispatcherKeeps
<1>3. CASE WorkersStep
  BY <1>1, <1>3, WorkerKeeps DEF WorkersStep
<1>4. CASE Request \/ Clock \/ Idle \/ UNCHANGED vars
  <2>1. queue' = queue /\ disp' = disp /\ workers' = workers
    BY <1>4 DEF Request, Clock, CreateDir, FindLeftover, Expire, Idle, vars
  <2> QED
    BY <2>1 DEF Outside
<1>5. CASE HandlersStep
  <2>1. PICK h \in handlers : HandlerStep(h)
    BY <1>5 DEF HandlersStep
  <2>2. disp' = disp /\ workers' = workers
    BY <2>1 DEF HandlerStep, ForgetLeftover, WipeLeftover, CreateAgain, MarkTrial,
                CheckRequest, FailRequest, Register, PlanTasks, Enqueue, RejectFull,
                UnwindRequest
  <2>3. queue' = queue \/ (Enqueue(h) /\ queue' = Append(queue, FirstJob(h)))
    BY <2>1 DEF HandlerStep, ForgetLeftover, WipeLeftover, CreateAgain, MarkTrial,
                CheckRequest, FailRequest, Register, PlanTasks, Enqueue, RejectFull,
                UnwindRequest
  <2>4. FirstJob(h) \in Job
    BY <1>1, JobType, Numbers DEF FirstJob, MkJob, JobKinds, TypeInv, TypeOK, Handler
  <2>5. Range(queue) \subseteq Range(queue')
    BY <1>1, <2>3, <2>4, RangeAppend
  <2> QED
    BY <2>2, <2>5 DEF Outside
<1>6. CASE CompletionsStep
  <2>1. queue' = queue /\ workers' = workers
    BY <1>6 DEF CompletionsStep, CompletionStep, PutResult, CleanData, BackupData,
                ReleaseContext, ReleaseCustom
  <2>2. CASE disp' = disp
    BY <2>1, <2>2 DEF Outside
  <2>3. CASE disp.pc = "report"
    <3>1. disp.hand = <<Cur>> /\ Cur.kind \in {"sa", "net"} /\ Cur \in Job
      BY <1>1, <2>3, CurType DEF HandHolds
    <3>2. Range(disp.hand) = {Cur}
      BY <3>1, RangeFew
    <3> QED
      BY <2>1, <3>1, <3>2 DEF Outside
  <2>4. disp' = disp \/ disp.pc = "report"
    BY <1>1, <1>6 DEF CompletionsStep, CompletionStep, PutResult, CleanData, BackupData,
                      ReleaseContext, ReleaseCustom, TypeInv, DispatcherOwnsOne
  <2> QED
    BY <2>2, <2>3, <2>4
<1> QED
  BY <1>2, <1>3, <1>4, <1>5, <1>6 DEF Next

(* A pending list is kept, released, or goes with its context, unless it is *)
(* planned anew.                                                            *)
LEMMA PendingKeeps ==
  ASSUME CaseInv, [Next]_vars, NEW t \in Sids
  PROVE  \/ ctx'[t].pending = ctx[t].pending \/ ctx'[t] = NoContext \/ Plans(t)
         \/ Range(ctx[t].pending) \subseteq Outside'
<1>1. /\ TypeInv /\ HandHolds /\ AnalysisInHand /\ OnlyScreened
  BY DEF CaseInv, ScreenInv, JobsApart
<1>2. CASE DispatcherStep
  BY <1>1, <1>2, DispatcherKeeps
<1>3. CASE WorkersStep
  BY <1>1, <1>3, WorkerPending DEF WorkersStep
<1>4. CASE Request \/ Clock
  BY <1>1, <1>4, RequestPending DEF Request, Clock
<1>5. CASE Idle \/ UNCHANGED vars
  BY <1>5 DEF Idle, vars
<1>6. CASE HandlersStep
  <2>1. PICK h \in handlers : HandlerStep(h)
    BY <1>6 DEF HandlersStep
  <2>2. h.sid \in Sids /\ TypeOK /\ ctx \in [Sids -> Context] /\ ctx[h.sid] \in Context
    BY <1>1 DEF TypeInv, TypeOK, Handler
  <2>3. CASE PlanTasks(h)
    BY <1>1, <2>3, PlanEffect
  <2>4. CASE ForgetLeftover(h) \/ RejectFull(h)
    <3>1. ForgetContext(h.sid)
      BY <2>4 DEF ForgetLeftover, RejectFull
    <3> QED
      BY <2>2, <3>1, ForgetEffect
  <2>5. CASE FailRequest(h)
    <3>1. FailAll(h.sid, h.att, h.att)
      BY <2>5 DEF FailRequest
    <3> QED
      BY <2>2, <3>1, FailAllEffect
  <2>6. CASE Register(h)
    BY <2>2, <2>6 DEF Register, Context
  <2>7. CASE \/ WipeLeftover(h) \/ CreateAgain(h) \/ MarkTrial(h) \/ CheckRequest(h)
             \/ Enqueue(h) \/ UnwindRequest(h)
    BY <2>7 DEF WipeLeftover, CreateAgain, MarkTrial, CheckRequest, Enqueue,
                UnwindRequest
  <2> QED
    BY <2>1, <2>3, <2>4, <2>5, <2>6, <2>7 DEF HandlerStep
<1>7. CASE CompletionsStep
  <2>1. PICK c \in completing : CompletionStep(c)
    BY <1>7 DEF CompletionsStep
  <2>2. c.by.sid \in Sids /\ TypeOK
    BY <1>1 DEF TypeInv, TypeOK, Completion, Owner
  <2>3. CASE ReleaseContext(c)
    <3>1. ForgetContext(c.by.sid)
      BY <2>3 DEF ReleaseContext
    <3> QED
      BY <2>2, <3>1, ForgetEffect
  <2>4. CASE ~ReleaseContext(c)
    BY <2>1, <2>4 DEF CompletionStep, PutResult, CleanData, BackupData, ReleaseCustom
  <2> QED
    BY <2>3, <2>4
<1> QED
  BY <1>2, <1>3, <1>4, <1>5, <1>6, <1>7 DEF Next

(* A thread about to mark its submission failed stays, or marks it.         *)
LEMMA FailingStays ==
  ASSUME TypeInv, WorkersHold, [Next]_vars, NEW t \in Sids, Failing(t)
  PROVE  Failing(t)' \/ AllFail(t) \/ ctx[t].att = 0
<1>1. PICK w \in workers : w.job.sid = t /\ Is(w, "build", "fail")
  BY DEF Failing
<1>2. CASE w \in workers'
  BY <1>1, <1>2 DEF Failing, Is
<1>3. CASE WorkersStep /\ w \notin workers'
  <2>1. PICK u \in workers : WorkerStep(u)
    BY <1>3 DEF WorkersStep
  <2>2. u = w
    BY <1>3, <2>1, WorkerMove
  <2>3. CASE \E v : /\ workers' = (workers \ {w}) \cup {v}
                    /\ v.job = w.job /\ GoesOn(w, v)
    <3>1. PICK v : /\ workers' = (workers \ {w}) \cup {v}
                   /\ v.job = w.job /\ GoesOn(w, v)
      BY <2>3
    <3>2. v.pc = "fail"
      BY <1>1, <3>1 DEF GoesOn, StartCompile, StartBuild, FailBuild, ClearJobs,
                        PrepareCase, RunCase, EndRun, FetchLock, Is
    <3> QED
      BY <1>1, <3>1, <3>2 DEF Failing, Is
  <2>4. CASE Ends(w)
    <3>1. MarkBuildFailed(w)
      BY <1>1, <2>4 DEF Ends, StartCompile, FinishCompile, StartBuild, FinishBuild,
                        NoTeacher, RecordCase, RaiseInTool, EndRun, FetchLock, Is
    <3>2. CASE ~Contains(t)
      BY <3>2 DEF Contains
    <3>3. CASE Contains(t)
      <4>1. FailAll(t, ctx[t].att, w.src) /\ w.src # 0
        BY <1>1, <3>1, <3>3 DEF MarkBuildFailed, MarkFailed, WorkersHold, Is, NoDir
      <4>2. /\ ctx'[t].att = ctx[t].att /\ ctx'[t].cases = AllCases(t)
            /\ ctx'[t].lock = ctx[t].lock /\ ctx'[t].expired = ctx[t].expired
            /\ \A n \in AllCases(t) : ctx'[t].rec[n] = w.src
        BY <4>1, FailAllEffect DEF TypeInv
      <4> QED
        BY <3>3, <4>1, <4>2 DEF Contains, AllFail, StaysExpired
    <3> QED
      BY <3>2, <3>3
  <2> QED
    BY <2>1, <2>2, <2>3, <2>4, WorkerMove
<1>4. CASE ~WorkersStep
  <2>1. workers \subseteq workers'
    <3>1. CASE Request \/ Clock \/ Idle \/ UNCHANGED vars
      BY <3>1 DEF Request, Clock, CreateDir, FindLeftover, Expire, Idle, vars
    <3>2. CASE HandlersStep
      <4>1. PICK h \in handlers : HandlerStep(h)
        BY <3>2 DEF HandlersStep
      <4> QED
        BY <4>1 DEF HandlerStep, ForgetLeftover, WipeLeftover, CreateAgain, MarkTrial,
           CheckRequest, FailRequest, Register, PlanTasks, Enqueue, RejectFull,
           UnwindRequest
    <3>3. CASE CompletionsStep
      BY <3>3 DEF CompletionsStep, CompletionStep, PutResult, CleanData, BackupData,
                  ReleaseContext, ReleaseCustom
    <3>4. CASE DispatcherStep
      BY <3>4 DEF DispatcherStep, TakeJob, DropTimedOut, DeferTrial, LoseDispatcher,
         StartAnalysis, StartNetwork, StartBuildThread, StartCompileThread,
         StartCaseThread, Requeue, PutJob, PassAnalysis, FailAnalysis, RaiseAnalysis,
         FinishNetwork, FailNetwork, Spawn
    <3> QED
      BY <1>4, <3>1, <3>2, <3>3, <3>4 DEF Next
  <2> QED
    BY <1>2, <2>1
<1> QED
  BY <1>2, <1>3, <1>4

(* The problems of the ids stay.                                            *)
LEMMA ProfStays == [Next]_vars => prof' = prof
<1> SUFFICES ASSUME [Next]_vars PROVE prof' = prof
  OBVIOUS
<1>1. CASE Request \/ Clock \/ Idle \/ UNCHANGED vars
  BY <1>1 DEF Request, Clock, CreateDir, FindLeftover, Expire, Idle, vars, ghost
<1>2. CASE HandlersStep
  <2>1. PICK h \in handlers : HandlerStep(h)
    BY <1>2 DEF HandlersStep
  <2> QED
    BY <2>1 DEF HandlerStep, ForgetLeftover, WipeLeftover, CreateAgain, MarkTrial,
       CheckRequest, FailRequest, Register, PlanTasks, Enqueue, RejectFull,
       UnwindRequest, ghost
<1>3. CASE CompletionsStep
  BY <1>3 DEF CompletionsStep, CompletionStep, PutResult, CleanData, BackupData,
              ReleaseContext, ReleaseCustom, ghost
<1>4. CASE DispatcherStep
  BY <1>4 DEF DispatcherStep, TakeJob, DropTimedOut, DeferTrial, LoseDispatcher,
     StartAnalysis, StartNetwork, StartBuildThread, StartCompileThread,
     StartCaseThread, Requeue, PutJob, PassAnalysis, FailAnalysis, RaiseAnalysis,
     FinishNetwork, FailNetwork, others
<1>5. CASE WorkersStep
  BY <1>5 DEF WorkersStep, WorkerStep, StartCompile, FinishCompile, StartBuild,
     FinishBuild, FailBuild, ClearJobs, PutBack, MarkBuildFailed, PrepareCase,
     NoTeacher, RunCase, EndRun, FetchLock, RecordCase, RaiseInTool, ghost
<1> QED
  BY <1>1, <1>2, <1>3, <1>4, <1>5 DEF Next

(* Cases are those of the problem.                                          *)
LEMMA CasesOwnStep ==
  ASSUME TypeInv, WorkersHold, CasesOwn, [Next]_vars
  PROVE  CasesOwn'
<1>1. \A t \in Sids : AllCases(t)' = AllCases(t)
  BY ProfStays DEF AllCases
<1>2. ASSUME NEW t \in Sids PROVE ctx'[t].cases \subseteq AllCases(t)
  <2>1. \/ ctx'[t].cases = ctx[t].cases \/ ctx'[t].cases = {}
        \/ ctx'[t].cases = AllCases(t)
    <3>1. Moves(t)
      BY AnyResult
    <3>2. NoContext.cases = {}
      BY DEF NoContext
    <3> QED
      BY <3>1, <3>2 DEF Moves, SameResult, AllFail, Begins, Plans, Records
  <2> QED
    BY <2>1 DEF CasesOwn
<1> QED
  BY <1>1, <1>2 DEF CasesOwn

(* A dead dispatcher does nothing any more.                                 *)
LEMMA DeadStays ==
  ASSUME TypeInv, [Next]_vars, disp.pc = "dead"
  PROVE  disp'.pc = "dead"
<1>1. ~DispatcherStep
  BY DEF DispatcherStep, TakeJob, DropTimedOut, DeferTrial, LoseDispatcher,
     StartAnalysis, StartNetwork, StartBuildThread, StartCompileThread,
     StartCaseThread, Requeue, PutJob, PassAnalysis, FailAnalysis, RaiseAnalysis,
     FinishNetwork, FailNetwork, Ready
<1> QED
  BY <1>1, DispKept

(* A step loses no case.                                                    *)
LEMMA CasesSafeStep ==
  ASSUME CaseInv, [Next]_vars
  PROVE  CasesSafe'
<1>1. /\ TypeInv /\ NoneUnknown /\ CasesOwn /\ WorkersHold /\ CasesSafe
  BY DEF CaseInv, ScreenInv
<1> SUFFICES ASSUME ~MayRaise, NEW t \in Sids, ~ctx'[t].expired,
                    NEW n \in ctx'[t].cases, ctx'[t].rec[n] = 0
             PROVE  OnItsWay(t, n)' \/ Failing(t)' \/ disp'.pc = "dead"
  BY DEF CasesSafe, Safe
<1>2. Moves(t)
  BY <1>1, AnyResult
<1>3. NoContext.cases = {} /\ ~Begins(t) /\ ~AllFail(t)
  BY DEF NoContext, Begins, AllFail
<1>4. CASE Plans(t)
  <2>1. PICK h \in handlers : /\ ctx'[t].pending = TasksToRun(t, h.att)
                              /\ ctx'[t].cases = IF ctx[t].att = h.att THEN AllCases(t)
                                                                       ELSE ctx[t].cases
    BY <1>4 DEF Plans
  <2>2. h.att \in Attempts /\ n \in AllCases(t) /\ TypeOK
    BY <1>1, <2>1 DEF TypeInv, TypeOK, Handler, CasesOwn
  <2>3. \E j \in Range(TasksToRun(t, h.att)) : Case(j, t, n)
    BY <2>2, TasksCases
  <2> QED
    BY <2>1, <2>3 DEF OnItsWay, Case
<1>5. CASE ~Plans(t)
  <2>1. /\ SameResult(t) \/ Records(t)
        /\ ctx'[t] # NoContext
    BY <1>2, <1>3, <1>5 DEF Moves
  <2>2. /\ n \in ctx[t].cases /\ ctx[t].rec[n] = 0 /\ ~ctx[t].expired
    BY <2>1 DEF SameResult, Records, StaysExpired
  <2>3. ctx[t].att # 0
    BY <1>1, <2>2 DEF NoneUnknown
  <2>4. OnItsWay(t, n) \/ Failing(t) \/ disp.pc = "dead"
    BY <1>1, <2>2 DEF CasesSafe, Safe
  <2>5. CASE Failing(t)
    BY <1>1, <1>3, <2>3, <2>5, FailingStays
  <2>6. CASE disp.pc = "dead"
    BY <1>1, <2>6, DeadStays
  <2>7. CASE OnItsWay(t, n)
    <3>1. PICK j \in Outside \cup Range(ctx[t].pending) : Case(j, t, n)
      BY <2>7 DEF OnItsWay
    <3>2. CASE j \in Range(ctx[t].pending)
      <4>1. \/ ctx'[t].pending = ctx[t].pending
            \/ Range(ctx[t].pending) \subseteq Outside'
        BY <1>5, <2>1, PendingKeeps
      <4> QED
        BY <3>1, <3>2, <4>1 DEF OnItsWay, Case
    <3>3. CASE j \in Outside
      <4>1. j.sid = t /\ j.case = n /\ j.kind = "exec"
        BY <3>1 DEF Case
      <4>2. \/ j \in Outside' \/ Judged(j)' \/ Failing(j.sid)'
            \/ ctx[j.sid].att = 0 \/ ctx[j.sid].expired \/ disp'.pc = "dead"
        BY <3>3, <4>1, StepKeeps
      <4>3. ~Judged(j)'
        BY <4>1 DEF Judged
      <4> QED
        BY <2>2, <2>3, <3>1, <4>1, <4>2, <4>3 DEF OnItsWay, Case
    <3> QED
      BY <3>1, <3>2, <3>3
  <2> QED
    BY <2>4, <2>5, <2>6, <2>7
<1> QED
  BY <1>4, <1>5

(* There are no cases at the start.                                         *)
LEMMA InitCases == Init => CaseInv
<1> SUFFICES ASSUME Init PROVE CaseInv
  OBVIOUS
<1>1. \A s \in Sids : ctx[s].cases = {} /\ ctx[s].att = 0
  BY DEF Init, NoContext
<1>2. \A s \in Sids : requests[s] = 0
  BY DEF Init
<1>3. handlers = {} /\ workers = {} /\ disp.pc = "loop" /\ disp.hand = <<>>
  BY DEF Init
<1>4. NoneUnknown /\ CasesOwn /\ AllLocked /\ CasesSafe
  BY <1>1 DEF NoneUnknown, CasesOwn, AllLocked, Locked, CasesSafe, Safe
<1>5. OwnEntry /\ WorkersHold /\ HandHolds
  BY <1>1, <1>2, <1>3 DEF OwnEntry, WorkersHold, HandHolds
<1> QED
  BY <1>4, <1>5, InitScreening, InitJobs DEF CaseInv

(* Every step keeps the invariant.                                          *)
LEMMA CaseStep == CaseInv /\ [Next]_vars => CaseInv'
<1> SUFFICES ASSUME CaseInv, [Next]_vars PROVE CaseInv'
  OBVIOUS
<1>1. /\ TypeInv /\ ScreenInv /\ JobsApart /\ HandlersApart /\ AnalysisInHand
      /\ NoneUnknown /\ CasesOwn /\ AllLocked /\ OwnEntry /\ WorkersHold /\ HandHolds
  BY DEF CaseInv, ScreenInv, JobsApart
<1>2. ScreenInv' /\ JobsApart'
  BY <1>1, ScreenStep, JobsStep
<1>3. NoneUnknown' /\ CasesOwn' /\ AllLocked'
  BY <1>1, NoneUnknownStep, CasesOwnStep, LockedStep
<1>4. OwnEntry' /\ WorkersHold' /\ HandHolds'
  BY <1>1, OwnEntryStep, WorkersHoldStep, HandHoldsStep
<1>5. CasesSafe'
  BY CasesSafeStep
<1> QED
  BY <1>2, <1>3, <1>4, <1>5 DEF CaseInv

(* Every case that waits for its verdict is on its way, in the queue, the   *)
(* dispatcher's hand, a pending list or a thread, also while a failing      *)
(* build puts the jobs of other submissions back, or its submission is      *)
(* being marked failed, or the dispatcher died: for every number of ids,    *)
(* requests, cases and threads, as long as no thread dies of an exception   *)
(* and nothing has timed out.                                               *)
THEOREM CasesKept ==
  Spec => [](~MayRaise /\ (\A s \in Sids : ~ctx[s].expired) => NoCaseLost)
<1>1. CaseInv => (~MayRaise /\ (\A s \in Sids : ~ctx[s].expired) => NoCaseLost)
  <2> SUFFICES ASSUME CaseInv, ~MayRaise, \A s \in Sids : ~ctx[s].expired,
                      NEW s \in Sids, NEW n \in ctx[s].cases, ctx[s].rec[n] = 0
               PROVE  \/ \E j \in InFlight : j.sid = s /\ j.kind = "exec" /\ j.case = n
                      \/ \E w \in workers : w.job.sid = s /\ Is(w, "build", "fail")
                      \/ disp.pc = "dead"
    BY DEF NoCaseLost
  <2>1. OnItsWay(s, n) \/ Failing(s) \/ disp.pc = "dead"
    BY DEF CaseInv, CasesSafe, Safe
  <2>2. Outside \cup Range(ctx[s].pending) \subseteq InFlight
    BY DEF Outside, InFlight
  <2> QED
    BY <2>1, <2>2 DEF OnItsWay, Case, Failing
<1> QED
  BY <1>1, CaseStep, InitCases, PTL DEF Spec
=============================================================================
