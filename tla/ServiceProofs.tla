---------------------------- MODULE ServiceProofs ----------------------------
(***************************************************************************)
(* What the service makes of an id that was requested once and whose       *)
(* problem is well posed, for any number of ids, cases and threads,        *)
(* whatever times out or dies: each case finds its program, one result is  *)
(* reported and it is the request's own, and the promises of JudgeService  *)
(* are kept.                                                               *)
(***************************************************************************)
EXTENDS SandboxOnce, Service

(* An interactive problem has its teacherLang, and what make builds is a    *)
(* compiled language, so that its cases wait for the build.                 *)
WellPosed ==
  \A s \in Sids : prof[s].mode # "noTeacher" /\ (prof[s].make => prof[s].compiled)

-----------------------------------------------------------------------------
(* What there is of an id.                                                  *)
JobsOf(s)    == {j \in Outside : j.sid = s}
ThreadsOf(s) == {w \in workers : w.job.sid = s}
ClosersOf(s) == {c \in completing : c.by.sid = s}
AllJobsOf(s) == JobsOf(s) \cup Range(ctx[s].pending)
Program(s)   == ctx[s].prebuilt \/ ctx[s].compiled # "none"

(* There is no entry before Register, an empty one before PlanTasks, and    *)
(* then one that lists the cases; what needs no compiler is then prebuilt.  *)
Before(s) ==
  requests[s] = 0 \/ Serving(s, HandlerPC \ {"plan", "enqueue"}) => ctx[s] = NoContext
Planning(s) ==
  Serving(s, {"plan"}) =>
    /\ ctx[s].att = 1 /\ ctx[s].lock = 1 /\ ctx[s].cases = {} /\ ctx[s].rec = Blank
    /\ ~Program(s) /\ ctx[s].pending = <<>>
Planned(s) ==
  Contains(s) /\ (AtWork(s) \/ Serving(s, {"enqueue"})) =>
    /\ ctx[s].cases = AllCases(s)
    /\ prof[s].compiled \/ ctx[s].prebuilt

(* An id's jobs are its first request's; a build or compile job is there    *)
(* only as long as there is no program.                                     *)
JobsFit(s) ==
  \A j \in AllJobsOf(s) :
    /\ j.sid = s /\ j.att = 1
    /\ j.kind = "build" => prof[s].make
    /\ j.kind = "compile" => ~prof[s].make
    /\ j.kind = "exec" => j.case \in AllCases(s)
    /\ j.kind \in {"build", "compile"} => j.case = 0 /\ prof[s].compiled
    /\ j.kind \in {"build", "compile"} /\ Contains(s) => ~Program(s)
PendingKinds(s) ==
  \A j \in Range(ctx[s].pending) : j.kind \in {"build", "compile", "exec"}
NoCompile(s) == prof[s].make => ctx[s].compiled = "none"

(* A case whose job is there has no verdict, unless the whole submission    *)
(* has failed; a verdict judges the files of the first request.             *)
CasesOpen(s) ==
  Contains(s) /\ ~Closing(s) =>
    \A j \in AllJobsOf(s) : j.kind = "exec" => ctx[s].rec[j.case] = 0
OwnLabels(s) == \A n \in ctx[s].cases : ctx[s].rec[n] \in {0, 1}

(* While an id is analysed or its network is set up, nothing else of it is  *)
(* at work, and only the dispatcher can complete it.                        *)
AnalysedAlone(s) ==
  \A j \in JobsOf(s) :
    j.kind \in {"sa", "net"} =>
      /\ JobsOf(s) = {j} /\ ThreadsOf(s) = {}
      /\ \A c \in ClosersOf(s) : c.by.kind = "disp"

(* One thread completes a submission, when no other thread works on it; a   *)
(* job that is left then can start none.                                    *)
ClosesAlone(s) ==
  Closing(s) =>
    /\ \A c, d \in ClosersOf(s) : c = d
    /\ ThreadsOf(s) = {}
    /\ Contains(s) => \A j \in JobsOf(s) : \/ j.kind \in {"sa", "net"}
                                           \/ j.kind = "exec" /\ AwaitsCompile(s)

(* A thread works for an id that has its entry, on the first request's      *)
(* files, and a case thread has its program.                                *)
ThreadsServe(s) ==
  \A w \in ThreadsOf(s) :
    /\ Contains(s)
    /\ w.pc # "start" => w.src = 1
    /\ w.job.kind = "exec" => Program(s)

(* The result, or the backup, comes after everything else; it is reported   *)
(* once, complete and with the request's own verdicts.                      *)
Reported(s) ==
  /\ reports[s][1] <= 1
  /\ requests[s] = 0 => ~Over(s)
  /\ Over(s) => /\ ~Serving(s, HandlerPC)
                /\ ~Contains(s) \/ \E c \in ClosersOf(s) : c.pc # "put"
  /\ \A c \in ClosersOf(s) :
       /\ c.pc = "put" => ~Over(s)
       /\ c.cases = AllCases(s) /\ \A n \in c.cases : c.rec[n] = 1

Entry(s) == Before(s) /\ Planning(s) /\ Planned(s) /\ NoCompile(s) /\ OwnLabels(s)
Jobs(s)  == JobsFit(s) /\ PendingKinds(s) /\ CasesOpen(s) /\ AnalysedAlone(s)
Work(s) == ClosesAlone(s) /\ ThreadsServe(s) /\ Reported(s)
Sound(s) == Entry(s) /\ Jobs(s) /\ Work(s)

-----------------------------------------------------------------------------
(* What a step does to the entry of an id.                                  *)
OtherEntries(s) == \A t \in Sids : t # s => ctx'[t] = ctx[t]
SameVerdicts(s) ==
  /\ ctx'[s].att = ctx[s].att /\ ctx'[s].cases = ctx[s].cases
  /\ ctx'[s].rec = ctx[s].rec /\ ctx'[s].lock = ctx[s].lock
SameEntry(s) ==
  /\ SameVerdicts(s)
  /\ ctx'[s].prebuilt = ctx[s].prebuilt /\ ctx'[s].compiled = ctx[s].compiled
  /\ ctx'[s].pending = ctx[s].pending
  /\ ctx'[s] = ctx[s] \/ Contains(s)

(* The handler makes an entry and fills it.                                 *)
LEMMA RegisterEffect ==
  ASSUME TypeInv, NEW h \in handlers, Register(h)
  PROVE  /\ ctx'[h.sid].att = h.att /\ ctx'[h.sid].lock = h.att
         /\ ctx'[h.sid].cases = {} /\ ctx'[h.sid].rec = Blank
         /\ ctx'[h.sid].prebuilt = ctx[h.sid].prebuilt
         /\ ctx'[h.sid].compiled = ctx[h.sid].compiled
         /\ ctx'[h.sid].pending = ctx[h.sid].pending
         /\ OtherEntries(h.sid)
<1>1. h.sid \in Sids /\ ctx \in [Sids -> Context] /\ ctx[h.sid] \in Context
  BY DEF TypeInv, TypeOK, Handler
<1>2. PICK r : r = [ctx[h.sid] EXCEPT !.att = h.att, !.cases = {}, !.rec = Blank,
                                      !.lock = h.att, !.expired = FALSE]
  OBVIOUS
<1>3. ctx' = [ctx EXCEPT ![h.sid] = r]
  BY <1>1, <1>2 DEF Register
<1>4. /\ r.att = h.att /\ r.lock = h.att /\ r.cases = {} /\ r.rec = Blank
      /\ r.prebuilt = ctx[h.sid].prebuilt /\ r.compiled = ctx[h.sid].compiled
      /\ r.pending = ctx[h.sid].pending
  BY <1>1, <1>2 DEF Context
<1> QED
  BY <1>1, <1>3, <1>4 DEF OtherEntries

(* PlanTasks fills the entry of its request.                                *)
LEMMA PlanFields ==
  ASSUME TypeInv, NEW h \in handlers, PlanTasks(h)
  PROVE  /\ ctx'[h.sid].att = ctx[h.sid].att /\ ctx'[h.sid].rec = ctx[h.sid].rec
         /\ ctx'[h.sid].lock = ctx[h.sid].lock
         /\ ctx[h.sid].att = h.att => ctx'[h.sid].cases = AllCases(h.sid)
         /\ ctx'[h.sid].prebuilt <=>
              \/ ctx[h.sid].prebuilt
              \/ ~prof[h.sid].make /\ ~prof[h.sid].compiled
         /\ ctx'[h.sid].compiled = ctx[h.sid].compiled
         /\ ctx'[h.sid].pending = TasksToRun(h.sid, h.att)
         /\ OtherEntries(h.sid)
<1>1. h.sid \in Sids /\ ctx \in [Sids -> Context] /\ ctx[h.sid] \in Context
  BY DEF TypeInv, TypeOK, Handler
<1>2. PICK plan, built, cases :
         /\ plan = IF prof[h.sid].make THEN h.att ELSE ctx[h.sid].plan
         /\ built = (ctx[h.sid].prebuilt \/ (~prof[h.sid].make /\ ~prof[h.sid].compiled))
         /\ cases = IF ctx[h.sid].att = h.att THEN AllCases(h.sid) ELSE ctx[h.sid].cases
  OBVIOUS
<1>3. PICK r : r = [ctx[h.sid] EXCEPT !.plan = plan, !.prebuilt = built, !.cases = cases,
                                      !.pending = TasksToRun(h.sid, h.att)]
  OBVIOUS
<1>4. ctx' = [ctx EXCEPT ![h.sid] = r]
  BY <1>1, <1>2, <1>3 DEF PlanTasks
<1>5. /\ r.att = ctx[h.sid].att /\ r.rec = ctx[h.sid].rec /\ r.lock = ctx[h.sid].lock
      /\ r.cases = cases /\ r.prebuilt = built /\ r.compiled = ctx[h.sid].compiled
      /\ r.pending = TasksToRun(h.sid, h.att)
  BY <1>1, <1>3 DEF Context
<1>6. ctx'[h.sid] = r /\ OtherEntries(h.sid)
  BY <1>1, <1>4 DEF OtherEntries
<1> QED
  BY <1>2, <1>5, <1>6

(* The end of a compilation, of a build and of a network set-up.            *)
LEMMA CompiledEffect ==
  ASSUME TypeInv, NEW w \in workers, FinishCompile(w)
  PROVE  /\ SameVerdicts(w.job.sid) /\ ctx'[w.job.sid].compiled # "none"
         /\ ctx'[w.job.sid].prebuilt = ctx[w.job.sid].prebuilt
         /\ ctx'[w.job.sid].pending = ctx[w.job.sid].pending
         /\ OtherEntries(w.job.sid)
<1>1. w.job.sid \in Sids /\ ctx \in [Sids -> Context] /\ ctx[w.job.sid] \in Context
  BY DEF TypeInv, TypeOK, Worker, Job
<1>2. PICK status \in {"AC", "CE"} : ctx' = [ctx EXCEPT ![w.job.sid].compiled = status]
  BY DEF FinishCompile
<1>3. PICK r : r = [ctx[w.job.sid] EXCEPT !.compiled = status]
  OBVIOUS
<1>4. ctx' = [ctx EXCEPT ![w.job.sid] = r]
  BY <1>1, <1>2, <1>3
<1>5. /\ r.att = ctx[w.job.sid].att /\ r.rec = ctx[w.job.sid].rec
      /\ r.lock = ctx[w.job.sid].lock /\ r.cases = ctx[w.job.sid].cases
      /\ r.prebuilt = ctx[w.job.sid].prebuilt /\ r.compiled = status
      /\ r.pending = ctx[w.job.sid].pending
  BY <1>1, <1>3 DEF Context
<1>6. ctx'[w.job.sid] = r /\ OtherEntries(w.job.sid)
  BY <1>1, <1>4 DEF OtherEntries
<1> QED
  BY <1>5, <1>6 DEF SameVerdicts

(* A build ends, well or not.                                               *)
LEMMA BuiltEffect ==
  ASSUME TypeInv, NEW w \in workers, FinishBuild(w) \/ FailBuild(w)
  PROVE  /\ SameVerdicts(w.job.sid)
         /\ FailBuild(w) => ~ctx'[w.job.sid].prebuilt
         /\ ctx'[w.job.sid].compiled = ctx[w.job.sid].compiled
         /\ ctx'[w.job.sid].pending = ctx[w.job.sid].pending
         /\ OtherEntries(w.job.sid)
<1>1. w.job.sid \in Sids /\ ctx \in [Sids -> Context] /\ ctx[w.job.sid] \in Context
  BY DEF TypeInv, TypeOK, Worker, Job
<1>2. PICK built \in BOOLEAN : EndPlan(w.job.sid, built) /\ (FailBuild(w) => ~built)
  BY DEF FinishBuild, FailBuild, Is
<1>3. PICK r : r = [ctx[w.job.sid] EXCEPT !.prebuilt = built, !.plan = 0]
  OBVIOUS
<1>4. ctx' = [ctx EXCEPT ![w.job.sid] = r]
  BY <1>1, <1>2, <1>3 DEF EndPlan
<1>5. /\ r.att = ctx[w.job.sid].att /\ r.rec = ctx[w.job.sid].rec
      /\ r.lock = ctx[w.job.sid].lock /\ r.cases = ctx[w.job.sid].cases
      /\ r.prebuilt = built /\ r.compiled = ctx[w.job.sid].compiled
      /\ r.pending = ctx[w.job.sid].pending
  BY <1>1, <1>3 DEF Context
<1>6. ctx'[w.job.sid] = r /\ OtherEntries(w.job.sid)
  BY <1>1, <1>4 DEF OtherEntries
<1> QED
  BY <1>2, <1>5, <1>6 DEF SameVerdicts

(* The pending jobs are let go.                                             *)
LEMMA ReleasedEffect ==
  ASSUME TypeInv, FinishNetwork
  PROVE  /\ Cur.sid \in Sids /\ SameVerdicts(Cur.sid)
         /\ ctx'[Cur.sid].prebuilt = ctx[Cur.sid].prebuilt
         /\ ctx'[Cur.sid].compiled = ctx[Cur.sid].compiled
         /\ ctx'[Cur.sid].pending = <<>> /\ OtherEntries(Cur.sid)
<1>1. Cur.sid \in Sids
  BY CurType DEF FinishNetwork
<1>2. ctx \in [Sids -> Context] /\ ctx[Cur.sid] \in Context
  BY <1>1 DEF TypeInv, TypeOK
<1>3. PICK r : r = [ctx[Cur.sid] EXCEPT !.pending = <<>>]
  OBVIOUS
<1>4. ctx' = [ctx EXCEPT ![Cur.sid] = r]
  BY <1>2, <1>3 DEF FinishNetwork
<1>5. /\ r.att = ctx[Cur.sid].att /\ r.rec = ctx[Cur.sid].rec
      /\ r.lock = ctx[Cur.sid].lock /\ r.cases = ctx[Cur.sid].cases
      /\ r.prebuilt = ctx[Cur.sid].prebuilt /\ r.compiled = ctx[Cur.sid].compiled
      /\ r.pending = <<>>
  BY <1>2, <1>3 DEF Context
<1>6. ctx'[Cur.sid] = r /\ OtherEntries(Cur.sid)
  BY <1>1, <1>2, <1>4 DEF OtherEntries
<1> QED
  BY <1>1, <1>5, <1>6 DEF SameVerdicts

(* A verdict is recorded.                                                   *)
LEMMA RecordEffect ==
  ASSUME TypeInv, NEW w \in workers, RecordCase(w), Contains(w.job.sid),
         w.job.case \in ctx[w.job.sid].cases
  PROVE  /\ ctx'[w.job.sid].att = ctx[w.job.sid].att
         /\ ctx'[w.job.sid].cases = ctx[w.job.sid].cases
         /\ ctx'[w.job.sid].rec = [ctx[w.job.sid].rec EXCEPT ![w.job.case] = w.src]
         /\ ctx'[w.job.sid].lock = ctx[w.job.sid].lock
         /\ ctx'[w.job.sid].prebuilt = ctx[w.job.sid].prebuilt
         /\ ctx'[w.job.sid].compiled = ctx[w.job.sid].compiled
         /\ ctx'[w.job.sid].pending = ctx[w.job.sid].pending
         /\ OtherEntries(w.job.sid)
<1>1. w.job.sid \in Sids /\ ctx \in [Sids -> Context] /\ ctx[w.job.sid] \in Context
  BY DEF TypeInv, TypeOK, Worker, Job
<1>2. PICK rec : rec = [ctx[w.job.sid].rec EXCEPT ![w.job.case] = w.src]
  OBVIOUS
<1>3. PICK r : r = [ctx[w.job.sid] EXCEPT !.rec = rec]
  OBVIOUS
<1>4. ctx' = [ctx EXCEPT ![w.job.sid] = r]
  BY <1>1, <1>2, <1>3 DEF RecordCase
<1>5. /\ r.att = ctx[w.job.sid].att /\ r.rec = rec
      /\ r.lock = ctx[w.job.sid].lock /\ r.cases = ctx[w.job.sid].cases
      /\ r.prebuilt = ctx[w.job.sid].prebuilt /\ r.compiled = ctx[w.job.sid].compiled
      /\ r.pending = ctx[w.job.sid].pending
  BY <1>1, <1>3 DEF Context
<1>6. ctx'[w.job.sid] = r /\ OtherEntries(w.job.sid)
  BY <1>1, <1>4 DEF OtherEntries
<1> QED
  BY <1>2, <1>5, <1>6

(* Who changes an entry.                                                    *)
Writes(h) ==
  ForgetLeftover(h) \/ FailRequest(h) \/ Register(h) \/ PlanTasks(h) \/ RejectFull(h)
EndsWork(w) ==
  \/ FinishCompile(w) \/ FinishBuild(w) \/ FailBuild(w) \/ MarkBuildFailed(w)
  \/ NoTeacher(w) \/ RecordCase(w)
Decides == FailAnalysis \/ RaiseAnalysis \/ FinishNetwork \/ FailNetwork

(* Nobody else changes the entry of an id.                                  *)
LEMMA EntryChange ==
  ASSUME TypeInv, [Next]_vars, NEW s \in Sids
  PROVE  \/ SameEntry(s)
         \/ \E h \in handlers : h.sid = s /\ Writes(h)
         \/ \E w \in workers : w.job.sid = s /\ EndsWork(w)
         \/ \E c \in completing : c.by.sid = s /\ ReleaseContext(c)
         \/ Cur.sid = s /\ Decides
<1>0. ctx'[s] = ctx[s] => SameEntry(s)
  BY DEF SameEntry, SameVerdicts
<1>1. CASE HandlersStep
  <2>1. PICK h \in handlers : HandlerStep(h)
    BY <1>1 DEF HandlersStep
  <2>2. CASE Writes(h) /\ h.sid # s
    <3>1. h.sid \in Sids /\ TypeOK
      BY DEF TypeInv, TypeOK, Handler
    <3>2. CASE ForgetLeftover(h) \/ RejectFull(h)
      <4>1. ForgetContext(h.sid)
        BY <3>2 DEF ForgetLeftover, RejectFull
      <4> QED
        BY <1>0, <2>2, <3>1, <4>1, ForgetEffect
    <3>3. CASE FailRequest(h)
      <4>1. FailAll(h.sid, h.att, h.att)
        BY <3>3 DEF FailRequest
      <4> QED
        BY <1>0, <2>2, <3>1, <4>1, FailAllEffect
    <3>4. CASE Register(h)
      BY <1>0, <2>2, <3>4, RegisterEffect DEF OtherEntries
    <3>5. CASE PlanTasks(h)
      BY <1>0, <2>2, <3>5, PlanFields DEF OtherEntries
    <3> QED
      BY <2>2, <3>2, <3>3, <3>4, <3>5 DEF Writes
  <2>3. CASE ~Writes(h)
    <3>1. ctx' = ctx
      BY <2>1, <2>3 DEF Writes, HandlerStep, WipeLeftover, CreateAgain, MarkTrial,
                        CheckRequest, Enqueue, UnwindRequest
    <3> QED
      BY <1>0, <3>1
  <2> QED
    BY <2>2, <2>3
<1>2. CASE WorkersStep
  <2>1. PICK w \in workers : WorkerStep(w)
    BY <1>2 DEF WorkersStep
  <2>2. CASE EndsWork(w) /\ w.job.sid # s
    <3>1. w.job.sid \in Sids /\ TypeOK
      BY DEF TypeInv, TypeOK, Worker, Job
    <3>2. CASE FinishCompile(w)
      BY <1>0, <2>2, <3>2, CompiledEffect DEF OtherEntries
    <3>3. CASE FinishBuild(w) \/ FailBuild(w)
      BY <1>0, <2>2, <3>3, BuiltEffect DEF OtherEntries
    <3>4. CASE MarkBuildFailed(w) \/ NoTeacher(w)
      <4>1. PICK label : MarkFailed(w, label)
        BY <3>4 DEF MarkBuildFailed, NoTeacher
      <4>2. ctx' = ctx \/ FailAll(w.job.sid, ctx[w.job.sid].att, label)
        BY <4>1 DEF MarkFailed
      <4> QED
        BY <1>0, <2>2, <3>1, <4>2, FailAllEffect
    <3>5. CASE RecordCase(w)
      <4>1. CASE Contains(w.job.sid) /\ w.job.case \in ctx[w.job.sid].cases
        BY <1>0, <2>2, <3>5, <4>1, RecordEffect DEF OtherEntries
      <4>2. CASE ~(Contains(w.job.sid) /\ w.job.case \in ctx[w.job.sid].cases)
        BY <1>0, <3>5, <4>2 DEF RecordCase
      <4> QED
        BY <4>1, <4>2
    <3> QED
      BY <2>2, <3>2, <3>3, <3>4, <3>5 DEF EndsWork
  <2>3. CASE ~EndsWork(w)
    <3>1. ctx' = ctx
      BY <2>1, <2>3 DEF EndsWork, WorkerStep, StartCompile, StartBuild, ClearJobs, PutBack,
                        PrepareCase, RunCase, EndRun, FetchLock, RaiseInTool
    <3> QED
      BY <1>0, <3>1
  <2> QED
    BY <2>2, <2>3
<1>3. CASE CompletionsStep
  <2>1. PICK c \in completing : CompletionStep(c)
    BY <1>3 DEF CompletionsStep
  <2>2. CASE ReleaseContext(c) /\ c.by.sid # s
    <3>1. c.by.sid \in Sids /\ TypeOK
      BY DEF TypeInv, TypeOK, Completion, Owner
    <3>2. ForgetContext(c.by.sid)
      BY <2>2 DEF ReleaseContext
    <3> QED
      BY <1>0, <2>2, <3>1, <3>2, ForgetEffect
  <2>3. CASE ~ReleaseContext(c)
    <3>1. ctx' = ctx
      BY <2>1, <2>3 DEF CompletionStep, PutResult, CleanData, BackupData, ReleaseCustom
    <3> QED
      BY <1>0, <3>1
  <2> QED
    BY <2>2, <2>3
<1>4. CASE DispatcherStep
  <2>1. CASE Decides /\ Cur.sid # s
    <3>1. CASE FinishNetwork
      BY <1>0, <2>1, <3>1, ReleasedEffect DEF OtherEntries
    <3>2. CASE FailAnalysis \/ RaiseAnalysis \/ FailNetwork
      <4>1. PICK label, fatal : FailSubmission(label, fatal)
        BY <3>2 DEF FailAnalysis, RaiseAnalysis, FailNetwork
      <4>2. ctx' = ctx \/ FailAll(Cur.sid, ctx[Cur.sid].att, label)
        BY <4>1 DEF FailSubmission
      <4>3. Cur.sid \in Sids /\ TypeOK
        BY <3>2, CurType DEF FailAnalysis, RaiseAnalysis, FailNetwork, TypeInv
      <4> QED
        BY <1>0, <2>1, <4>2, <4>3, FailAllEffect
    <3> QED
      BY <2>1, <3>1, <3>2 DEF Decides
  <2>2. CASE ~Decides
    <3>1. ctx' = ctx
      BY <1>4, <2>2 DEF Decides, DispatcherStep, TakeJob, DropTimedOut, DeferTrial,
         LoseDispatcher, StartAnalysis, StartNetwork, StartBuildThread,
         StartCompileThread, StartCaseThread, Requeue, PutJob, PassAnalysis
    <3> QED
      BY <1>0, <3>1
  <2> QED
    BY <2>1, <2>2
<1>5. CASE Clock
  <2>1. PICK t \in Sids : Expire(t)
    BY <1>5 DEF Clock
  <2>2. CASE t # s
    <3>1. ctx'[s] = ctx[s]
      BY <2>1, <2>2 DEF Expire, TypeInv, TypeOK
    <3> QED
      BY <1>0, <3>1
  <2>3. CASE t = s
    <3>1. PICK r : r = [ctx[s] EXCEPT !.expired = TRUE]
      OBVIOUS
    <3>2. ctx \in [Sids -> Context] /\ ctx[s] \in Context
      BY DEF TypeInv, TypeOK
    <3>3. ctx' = [ctx EXCEPT ![s] = r] /\ Contains(s)
      BY <2>1, <2>3, <3>1, <3>2 DEF Expire
    <3>4. /\ r.att = ctx[s].att /\ r.rec = ctx[s].rec /\ r.lock = ctx[s].lock
          /\ r.cases = ctx[s].cases /\ r.prebuilt = ctx[s].prebuilt
          /\ r.compiled = ctx[s].compiled /\ r.pending = ctx[s].pending
      BY <3>1, <3>2 DEF Context
    <3>5. ctx'[s] = r
      BY <3>2, <3>3
    <3> QED
      BY <3>3, <3>4, <3>5 DEF SameEntry, SameVerdicts
  <2> QED
    BY <2>2, <2>3
<1>6. CASE Request \/ Idle \/ UNCHANGED vars
  <2>1. ctx' = ctx
    BY <1>6 DEF Request, CreateDir, FindLeftover, Idle, vars
  <2> QED
    BY <1>0, <2>1
<1> QED
  BY <1>1, <1>2, <1>3, <1>4, <1>5, <1>6 DEF Next

-----------------------------------------------------------------------------
(* A step that changes nothing of an id that its invariants are about,      *)
(* except that jobs and threads of it may go, or go on.                     *)
HandlersOf(s) == {h \in handlers : h.sid = s}
Calm(s) ==
  /\ SameEntry(s)
  /\ requests'[s] = requests[s]
  /\ JobsOf(s)' \subseteq JobsOf(s)
  /\ ClosersOf(s)' = ClosersOf(s)
  /\ HandlersOf(s)' = HandlersOf(s)
  /\ reports'[s] = reports[s]
  /\ <<s, 1>> \in backups' <=> <<s, 1>> \in backups
Quiet(s) ==
  /\ Calm(s)
  /\ \A v \in ThreadsOf(s)' : \E w \in ThreadsOf(s) :
       v.job = w.job /\ (v = w \/ v.src = 1)

(* A step that leaves an id calm keeps what is known of it.                 *)
LEMMA CalmSound ==
  ASSUME NEW s \in Sids, Sound(s), Calm(s), prof' = prof, ThreadsServe(s)',
         \/ ThreadsOf(s)' = {}
         \/ ~Closing(s) /\ \A j \in JobsOf(s) : j.kind \notin {"sa", "net"}
  PROVE  Sound(s)'
<1>1. /\ Entry(s) /\ Jobs(s) /\ Work(s)
      /\ SameEntry(s) /\ SameVerdicts(s)
  BY DEF Sound, Calm, SameEntry
<1>2. /\ \A pcs : Serving(s, pcs)' <=> Serving(s, pcs)
      /\ Closing(s)' <=> Closing(s)
      /\ AtWork(s)' => AtWork(s)
      /\ Over(s)' <=> Over(s)
  <2>1. \A pcs : Serving(s, pcs) <=> \E h \in HandlersOf(s) : h.pc \in pcs
    BY DEF Serving, HandlersOf
  <2>2. \A pcs : Serving(s, pcs)' <=> \E h \in HandlersOf(s)' : h.pc \in pcs
    BY DEF Serving, HandlersOf
  <2>3. (Closing(s) <=> ClosersOf(s) # {}) /\ (Closing(s)' <=> ClosersOf(s)' # {})
    BY DEF Closing, ClosersOf
  <2>4. (AtWork(s) <=> JobsOf(s) # {}) /\ (AtWork(s)' <=> JobsOf(s)' # {})
    BY DEF AtWork, JobsOf
  <2> QED
    BY <2>1, <2>2, <2>3, <2>4 DEF Calm, Over
<1>3. /\ Contains(s)' <=> Contains(s)
      /\ Program(s)' <=> Program(s)
      /\ AwaitsCompile(s)' <=> AwaitsCompile(s)
      /\ AllCases(s)' = AllCases(s)
  BY <1>1 DEF SameEntry, SameVerdicts, Contains, Program, AwaitsCompile, AllCases
<1>4. AllJobsOf(s)' \subseteq AllJobsOf(s)
  BY <1>1 DEF AllJobsOf, Calm, SameEntry
<1>5. Entry(s)'
  <2>1. Before(s)'
    <3>1. ctx[s] = NoContext => ctx'[s] = NoContext
      BY <1>1 DEF SameEntry, Contains, NoContext
    <3> QED
      BY <1>1, <1>2, <3>1 DEF Entry, Before, Calm
  <2>2. Planning(s)'
    BY <1>1, <1>2, <1>3 DEF Entry, Planning, SameEntry, SameVerdicts
  <2>3. Planned(s)'
    BY <1>1, <1>2, <1>3 DEF Entry, Planned, SameEntry, SameVerdicts
  <2>4. NoCompile(s)' /\ OwnLabels(s)'
    BY <1>1 DEF Entry, NoCompile, OwnLabels, SameEntry, SameVerdicts
  <2> QED
    BY <2>1, <2>2, <2>3, <2>4 DEF Entry
<1>6. Jobs(s)'
  <2>1. JobsFit(s)'
    BY <1>1, <1>3, <1>4 DEF Jobs, JobsFit
  <2>2. PendingKinds(s)'
    BY <1>1 DEF Jobs, PendingKinds, SameEntry
  <2>3. CasesOpen(s)'
    BY <1>1, <1>2, <1>3, <1>4 DEF Jobs, CasesOpen, SameVerdicts
  <2>4. AnalysedAlone(s)'
    BY <1>1 DEF Jobs, AnalysedAlone, Calm
  <2> QED
    BY <2>1, <2>2, <2>3, <2>4 DEF Jobs
<1>7. Work(s)'
  <2>1. ClosesAlone(s)'
    BY <1>1, <1>2, <1>3 DEF Work, ClosesAlone, Calm
  <2>2. Reported(s)'
    BY <1>1, <1>2, <1>3 DEF Work, Reported, Calm
  <2> QED
    BY <2>1, <2>2 DEF Work
<1> QED
  BY <1>5, <1>6, <1>7 DEF Sound

(* And so does a quiet one, whose threads keep the files they have.         *)
LEMMA QuietSound ==
  ASSUME NEW s \in Sids, Sound(s), Quiet(s), prof' = prof
  PROVE  Sound(s)'
<1>1. Calm(s) /\ (Contains(s)' <=> Contains(s)) /\ (Program(s)' <=> Program(s))
  BY DEF Quiet, Calm, SameEntry, SameVerdicts, Contains, Program
<1>2. ThreadsServe(s)'
  BY <1>1 DEF Sound, Work, ThreadsServe, Quiet
<1>3. \/ ThreadsOf(s)' = {}
      \/ ~Closing(s) /\ \A j \in JobsOf(s) : j.kind \notin {"sa", "net"}
  <2>1. ThreadsOf(s)' = {} \/ ThreadsOf(s) # {}
    BY DEF Quiet
  <2> QED
    BY <2>1 DEF Sound, Work, Jobs, ClosesAlone, AnalysedAlone
<1> QED
  BY <1>1, <1>2, <1>3, CalmSound

-----------------------------------------------------------------------------
(* The steps that are not quiet for an id are its own.                      *)

(* Only their own steps remove handlers and completions.                    *)
LEMMA HandlerStays ==
  ASSUME TypeInv, [Next]_vars, NEW h \in handlers
  PROVE  h \in handlers' \/ HandlerStep(h)
<1>1. CASE HandlersStep
  <2>1. PICK g \in handlers : HandlerStep(g)
    BY <1>1 DEF HandlersStep
  <2>2. handlers \ {g} \subseteq handlers'
    BY <2>1, HandlerMove
  <2> QED
    BY <2>1, <2>2
<1>2. CASE Request
  BY <1>2 DEF Request, CreateDir, FindLeftover, Arrive
<1>3. CASE WorkersStep
  <2>1. PICK w \in workers : WorkerStep(w)
    BY <1>3 DEF WorkersStep
  <2> QED
    BY <2>1 DEF WorkerStep, StartCompile, FinishCompile, StartBuild, FinishBuild,
       FailBuild, ClearJobs, PutBack, MarkBuildFailed, PrepareCase, NoTeacher, RunCase,
       EndRun, FetchLock, RecordCase, RaiseInTool
<1>4. CASE CompletionsStep
  BY <1>4 DEF CompletionsStep, CompletionStep, PutResult, CleanData, BackupData,
              ReleaseContext, ReleaseCustom
<1>5. CASE DispatcherStep
  BY <1>5 DEF DispatcherStep, TakeJob, DropTimedOut, DeferTrial, LoseDispatcher,
     StartAnalysis, StartNetwork, StartBuildThread, StartCompileThread,
     StartCaseThread, Requeue, PutJob, PassAnalysis, FailAnalysis, RaiseAnalysis,
     FinishNetwork, FailNetwork, others
<1>6. CASE Clock \/ Idle \/ UNCHANGED vars
  BY <1>6 DEF Clock, Expire, Idle, vars
<1> QED
  BY <1>1, <1>2, <1>3, <1>4, <1>5, <1>6 DEF Next

(* A completion likewise.                                                   *)
LEMMA CloserStays ==
  ASSUME TypeInv, [Next]_vars, NEW c \in completing
  PROVE  c \in completing' \/ CompletionStep(c)
<1>1. CASE CompletionsStep
  <2>1. PICK d \in completing : CompletionStep(d)
    BY <1>1 DEF CompletionsStep
  <2>2. completing \ {d} \subseteq completing'
    BY <2>1, CompletionMove
  <2> QED
    BY <2>1, <2>2
<1>2. CASE HandlersStep
  <2>1. PICK h \in handlers : HandlerStep(h)
    BY <1>2 DEF HandlersStep
  <2> QED
    BY <2>1 DEF HandlerStep, ForgetLeftover, WipeLeftover, CreateAgain, MarkTrial,
       CheckRequest, FailRequest, Register, PlanTasks, Enqueue, RejectFull,
       UnwindRequest, Complete
<1>3. CASE WorkersStep
  <2>1. PICK w \in workers : WorkerStep(w)
    BY <1>3 DEF WorkersStep
  <2> QED
    BY <2>1 DEF WorkerStep, StartCompile, FinishCompile, StartBuild, FinishBuild,
       FailBuild, ClearJobs, PutBack, MarkBuildFailed, PrepareCase, NoTeacher, RunCase,
       EndRun, FetchLock, RecordCase, RaiseInTool, MarkFailed, Complete
<1>4. CASE DispatcherStep
  <2>1. CASE FailAnalysis \/ RaiseAnalysis \/ FailNetwork
    <3>1. PICK label, fatal : FailSubmission(label, fatal)
      BY <2>1 DEF FailAnalysis, RaiseAnalysis, FailNetwork
    <3> QED
      BY <3>1 DEF FailSubmission, Complete
  <2>2. CASE ~(FailAnalysis \/ RaiseAnalysis \/ FailNetwork)
    BY <1>4, <2>2 DEF DispatcherStep, TakeJob, DropTimedOut, DeferTrial, LoseDispatcher,
       StartAnalysis, StartNetwork, StartBuildThread, StartCompileThread,
       StartCaseThread, Requeue, PutJob, PassAnalysis, FinishNetwork, others
  <2> QED
    BY <2>1, <2>2
<1>5. CASE Request \/ Clock \/ Idle \/ UNCHANGED vars
  BY <1>5 DEF Request, Clock, CreateDir, FindLeftover, Expire, Idle, vars
<1> QED
  BY <1>1, <1>2, <1>3, <1>4, <1>5 DEF Next

(* Requests, results and backups of an id.                                  *)
LEMMA RequestsChange ==
  ASSUME TypeInv, [Next]_vars, NEW s \in Sids
  PROVE  requests'[s] = requests[s] \/ CreateDir(s) \/ FindLeftover(s)
<1>1. CASE Request
  <2>1. PICK t \in Sids : CreateDir(t) \/ FindLeftover(t)
    BY <1>1 DEF Request
  <2>2. requests' = [requests EXCEPT ![t] = @ + 1] /\ requests \in [Sids -> 0..MaxRequests]
    BY <2>1 DEF CreateDir, FindLeftover, TypeInv, TypeOK
  <2> QED
    BY <2>1, <2>2
<1>2. CASE HandlersStep
  BY <1>2 DEF HandlersStep, HandlerStep, ForgetLeftover, WipeLeftover, CreateAgain,
     MarkTrial, CheckRequest, FailRequest, Register, PlanTasks, Enqueue, RejectFull,
     UnwindRequest, ghost
<1>3. CASE WorkersStep
  BY <1>3 DEF WorkersStep, WorkerStep, StartCompile, FinishCompile, StartBuild,
     FinishBuild, FailBuild, ClearJobs, PutBack, MarkBuildFailed, PrepareCase, NoTeacher,
     RunCase, EndRun, FetchLock, RecordCase, RaiseInTool, ghost
<1>4. CASE CompletionsStep
  BY <1>4 DEF CompletionsStep, CompletionStep, PutResult, CleanData, BackupData,
              ReleaseContext, ReleaseCustom, ghost
<1>5. CASE DispatcherStep
  BY <1>5 DEF DispatcherStep, TakeJob, DropTimedOut, DeferTrial, LoseDispatcher,
     StartAnalysis, StartNetwork, StartBuildThread, StartCompileThread,
     StartCaseThread, Requeue, PutJob, PassAnalysis, FailAnalysis, RaiseAnalysis,
     FinishNetwork, FailNetwork, others
<1>6. CASE Clock \/ Idle \/ UNCHANGED vars
  BY <1>6 DEF Clock, Expire, Idle, vars, ghost
<1> QED
  BY <1>1, <1>2, <1>3, <1>4, <1>5, <1>6 DEF Next

(* A result is sent and files are backed up only in completions.            *)
LEMMA ReportsChange ==
  ASSUME TypeInv, [Next]_vars, NEW s \in Sids
  PROVE  /\ \/ reports'[s] = reports[s]
            \/ \E c \in completing : c.by.sid = s /\ PutResult(c)
         /\ \/ <<s, 1>> \in backups' <=> <<s, 1>> \in backups
            \/ \E c \in completing : c.by.sid = s /\ BackupData(c)
<1>1. CASE ~CompletionsStep
  <2>1. reports' = reports /\ backups' = backups
    <3>1. CASE HandlersStep
      BY <3>1, HandlerLeaves DEF HandlersStep
    <3>2. CASE WorkersStep
      BY <3>2, WorkerLeaves DEF WorkersStep
    <3>3. CASE DispatcherStep
      BY <3>3, DispatcherLeaves
    <3>4. CASE Request \/ Clock \/ Idle \/ UNCHANGED vars
      BY <3>4, RestLeaves
    <3> QED
      BY <1>1, <3>1, <3>2, <3>3, <3>4 DEF Next
  <2> QED
    BY <2>1
<1>2. CASE CompletionsStep
  <2>1. PICK c \in completing : CompletionStep(c)
    BY <1>2 DEF CompletionsStep
  <2>2. c.by.sid \in Sids /\ c.att \in Attempts
    BY DEF TypeInv, TypeOK, Completion, Owner
  <2>3. \/ reports'[s] = reports[s]
        \/ c.by.sid = s /\ PutResult(c)
    <3>1. reports \in [Sids -> [Attempts -> 0..2]]
      BY DEF TypeInv, TypeOK
    <3>2. CASE PutResult(c)
      <4>1. CASE CountReport(c)
        <5>1. PICK n : n = IF reports[c.by.sid][c.att] < 2
                             THEN reports[c.by.sid][c.att] + 1 ELSE 2
          OBVIOUS
        <5>2. reports' = [reports EXCEPT ![c.by.sid][c.att] = n]
          BY <3>1, <4>1, <5>1, <2>2 DEF CountReport
        <5>3. c.by.sid # s => reports'[s] = reports[s]
          BY <3>1, <5>2, <2>2
        <5> QED
          BY <3>2, <5>3
      <4> QED
        BY <3>2, <4>1 DEF PutResult
    <3>3. CASE ~PutResult(c)
      BY <2>1, <3>3 DEF CompletionStep, CleanData, BackupData, ReleaseContext,
                        ReleaseCustom, ghost
    <3> QED
      BY <3>2, <3>3
  <2>4. \/ <<s, 1>> \in backups' <=> <<s, 1>> \in backups
        \/ c.by.sid = s /\ BackupData(c)
    <3>1. CASE BackupData(c)
      <4>1. backups' = backups \/ backups' = backups \cup {<<c.by.sid, dirs[c.by.sid]>>}
        BY <3>1 DEF BackupData
      <4> QED
        BY <3>1, <4>1
    <3>2. CASE ~BackupData(c)
      BY <2>1, <3>2, CompletionLeaves
    <3> QED
      BY <3>1, <3>2
  <2> QED
    BY <2>3, <2>4
<1> QED
  BY <1>1, <1>2

-----------------------------------------------------------------------------
(* What holds of all ids that were requested once.                          *)
Steady == CaseInv /\ OnceInv /\ Once /\ WellPosed

(* While an id has its entry and is not completed, its files are there.     *)
LEMMA FilesInPlace ==
  ASSUME Steady, NEW s \in Sids, Sound(s), Contains(s), ~Closing(s)
  PROVE  dirs[s] = 1 /\ CommonDir(s) = 1 /\ ~Over(s)
<1>1. Kept(s)
  BY DEF Steady, OnceInv, FilesSafe, Needed
<1>2. ~Over(s)
  BY DEF Sound, Work, Reported, Closing, ClosersOf
<1>3. dirs[s] = 1
  BY <1>1, <1>2 DEF Kept
<1>4. CommonDir(s) = 1
  BY <1>3 DEF CommonDir, NoDir
<1> QED
  BY <1>2, <1>3, <1>4

(* A thread that works for an id is not alone: nobody completes the id, and *)
(* its files are the first request's.                                       *)
LEMMA ThreadsFiles ==
  ASSUME Steady, NEW s \in Sids, Sound(s), NEW w \in ThreadsOf(s)
  PROVE  /\ Contains(s) /\ ~Closing(s) /\ dirs[s] = 1 /\ CommonDir(s) = 1 /\ ~Over(s)
         /\ w.pc # "start" => w.src = 1
         /\ w.job.kind = "exec" => Program(s)
         /\ w.job \in JobsOf(s)
<1>1. /\ Contains(s)
      /\ w.pc # "start" => w.src = 1
      /\ w.job.kind = "exec" => Program(s)
  BY DEF Sound, Work, ThreadsServe
<1>2. ~Closing(s)
  BY DEF Sound, Work, ClosesAlone
<1>3. w.job \in JobsOf(s)
  BY DEF ThreadsOf, JobsOf, Outside
<1> QED
  BY <1>1, <1>2, <1>3, FilesInPlace

(* A thread that goes on has found the files of the first request.          *)
LEMMA ThreadGoesOn ==
  ASSUME Steady, NEW s \in Sids, Sound(s), NEW w \in ThreadsOf(s), NEW v, GoesOn(w, v)
  PROVE  v.src = 1 /\ v.pc # "start"
<1>1. w.job.sid = s
  BY DEF ThreadsOf
<1>2. /\ StartCompile(w) \/ StartBuild(w) \/ PrepareCase(w) => CommonDir(w.job.sid) = 1
      /\ w.pc # "start" => w.src = 1
  BY <1>1, ThreadsFiles
<1>3. FailBuild(w) \/ ClearJobs(w) \/ PutBack(w) \/ RunCase(w) \/ EndRun(w) \/ FetchLock(w)
        => w.pc # "start"
  BY DEF FailBuild, ClearJobs, PutBack, RunCase, EndRun, FetchLock, Is
<1> QED
  BY <1>2, <1>3 DEF GoesOn

Loud(s) ==
  \/ CreateDir(s) \/ FindLeftover(s)
  \/ \E h \in handlers : h.sid = s /\ HandlerStep(h)
  \/ \E c \in completing : c.by.sid = s /\ CompletionStep(c)
  \/ \E w \in workers : w.job.sid = s /\ EndsWork(w)
  \/ /\ Cur.sid = s
     /\ StartBuildThread \/ StartCompileThread \/ StartCaseThread \/ PassAnalysis \/ Decides

(* A step is quiet for an id, or one of its own that may be loud.           *)
LEMMA QuietOrLoud ==
  ASSUME Steady, [Next]_vars, NEW s \in Sids, Sound(s)
  PROVE  Quiet(s) \/ Loud(s)
<1> SUFFICES ASSUME ~Loud(s) PROVE Quiet(s)
  OBVIOUS
<1>0. TypeInv /\ PendingOwn
  BY DEF Steady, CaseInv, ScreenInv
<1>1. SameEntry(s)
  <2>1. \A h \in handlers : Writes(h) => HandlerStep(h)
    BY DEF Writes, HandlerStep
  <2>2. \A c \in completing : ReleaseContext(c) => CompletionStep(c)
    BY DEF CompletionStep
  <2> QED
    BY <1>0, <2>1, <2>2, EntryChange DEF Loud
<1>2. requests'[s] = requests[s]
  BY <1>0, RequestsChange DEF Loud
<1>3. JobsOf(s)' \subseteq JobsOf(s)
  <2> SUFFICES ASSUME NEW j \in Outside', j.sid = s PROVE j \in Outside
    BY DEF JobsOf
  <2>1. CASE \E h \in handlers : Enqueue(h) /\ j = FirstJob(h)
    <3>1. PICK h \in handlers : Enqueue(h) /\ j = FirstJob(h)
      BY <2>1
    <3>2. h.sid = s /\ HandlerStep(h)
      BY <3>1 DEF FirstJob, MkJob, HandlerStep
    <3> QED
      BY <3>2 DEF Loud
  <2>2. CASE PassAnalysis /\ j = [Cur EXCEPT !.kind = "net"]
    <3>1. Cur \in Job
      BY <1>0, <2>2, CurType DEF PassAnalysis
    <3>2. Cur.sid = s
      BY <2>2, <3>1 DEF Job
    <3> QED
      BY <2>2, <3>2 DEF Loud
  <2>3. CASE FinishNetwork /\ j \in Range(ctx[Cur.sid].pending)
    <3>1. Cur.sid \in Sids
      BY <1>0, <2>3, CurType DEF FinishNetwork
    <3>2. ctx[Cur.sid].pending \in Seq(Job)
      BY <1>0, <3>1 DEF TypeInv, TypeOK, Context
    <3>3. Range(ctx[Cur.sid].pending) =
            {ctx[Cur.sid].pending[i] : i \in 1..Len(ctx[Cur.sid].pending)}
      BY <3>2, RangeIs
    <3>4. j.sid = Cur.sid
      BY <1>0, <2>3, <3>1, <3>3 DEF PendingOwn
    <3> QED
      BY <2>3, <3>4 DEF Loud, Decides
  <2> QED
    BY <1>0, <2>1, <2>2, <2>3, NewJob
<1>4. \A v \in ThreadsOf(s)' : \E w \in ThreadsOf(s) :
        v.job = w.job /\ (v = w \/ v.src = 1)
  <2> SUFFICES ASSUME NEW v \in workers', v.job.sid = s
               PROVE  \E w \in ThreadsOf(s) : v.job = w.job /\ (v = w \/ v.src = 1)
    BY DEF ThreadsOf
  <2>1. CASE v \in workers
    BY <2>1 DEF ThreadsOf
  <2>2. CASE \E w \in workers : v.job = w.job /\ GoesOn(w, v)
    <3>1. PICK w \in workers : v.job = w.job /\ GoesOn(w, v)
      BY <2>2
    <3>2. w \in ThreadsOf(s)
      BY <3>1 DEF ThreadsOf
    <3>3. v.src = 1
      BY <3>1, <3>2, ThreadGoesOn
    <3> QED
      BY <3>1, <3>2, <3>3
  <2>3. CASE /\ StartBuildThread \/ StartCompileThread \/ StartCaseThread
             /\ v = MkWorker(Cur)
    BY <2>3 DEF MkWorker, Loud
  <2> QED
    BY <1>0, <2>1, <2>2, <2>3, WorkerOrigin
<1>5. ClosersOf(s)' = ClosersOf(s)
  <2>1. ASSUME NEW d \in completing', d.by.sid = s PROVE d \in completing
    <3>1. CASE \E c \in completing : CompletionStep(c) /\ Continues(c, d)
      BY <2>1, <3>1 DEF Continues, Loud
    <3>2. CASE Opens(d)
      <4>1. \A h \in handlers : FailRequest(h) => HandlerStep(h)
        BY DEF HandlerStep
      <4>2. \A w \in workers : MarkBuildFailed(w) \/ NoTeacher(w) \/ RecordCase(w)
                                 => EndsWork(w)
        BY DEF EndsWork
      <4> QED
        BY <2>1, <3>2, <4>1, <4>2 DEF Opens, Loud, Decides
    <3> QED
      BY <1>0, <3>1, <3>2, CloserOrigin
  <2>2. ASSUME NEW c \in completing, c.by.sid = s PROVE c \in completing'
    BY <1>0, <2>2, CloserStays DEF Loud
  <2> QED
    BY <2>1, <2>2 DEF ClosersOf
<1>6. HandlersOf(s)' = HandlersOf(s)
  <2>1. ASSUME NEW f \in handlers', f.sid = s PROVE f \in handlers
    <3>1. CASE \E h \in handlers : HandlerStep(h) /\ f.sid = h.sid
      BY <2>1, <3>1 DEF Loud
    <3>2. CASE \E t \in Sids : Arrives(t, f)
      BY <2>1, <3>2 DEF Arrives, Loud
    <3> QED
      BY <1>0, <3>1, <3>2, HandlerOrigin
  <2>2. ASSUME NEW h \in handlers, h.sid = s PROVE h \in handlers'
    BY <1>0, <2>2, HandlerStays DEF Loud
  <2> QED
    BY <2>1, <2>2 DEF HandlersOf
<1>7. reports'[s] = reports[s] /\ (<<s, 1>> \in backups' <=> <<s, 1>> \in backups)
  <2>1. \A c \in completing : PutResult(c) \/ BackupData(c) => CompletionStep(c)
    BY DEF CompletionStep
  <2> QED
    BY <1>0, <2>1, ReportsChange DEF Loud
<1> QED
  BY <1>1, <1>2, <1>3, <1>4, <1>5, <1>6, <1>7 DEF Quiet, Calm

-----------------------------------------------------------------------------
(* A job is in one place.                                                   *)
LEMMA KeyIn ==
  ASSUME NEW jobs \in Seq(Job), NEW j \in Range(jobs)
  PROVE  Key(j) \in KeysOf(jobs)
BY RangeIs DEF KeysOf

(* A thread's job is nowhere else.                                          *)
LEMMA ThreadsJob ==
  ASSUME TypeInv, JobsApart, NEW w \in workers
  PROVE  /\ w.job \notin Range(queue) /\ w.job \notin Range(disp.hand)
         /\ \A s \in Sids : w.job \notin Range(ctx[s].pending)
         /\ \A v \in workers : w.job \notin Range(v.back)
         /\ \A v \in workers : v.job = w.job => v = w
<1>1. /\ queue \in Seq(Job) /\ disp.hand \in Seq(Job)
      /\ \A s \in Sids : ctx[s].pending \in Seq(Job)
      /\ \A v \in workers : v.back \in Seq(Job)
  BY DEF TypeInv, TypeOK, Context, Worker
<1>2. /\ Own(w) \cap KeysOf(queue) = {} /\ Own(w) \cap KeysOf(disp.hand) = {}
      /\ \A s \in Sids : Own(w) \cap KeysOf(ctx[s].pending) = {}
      /\ \A v \in workers : v # w => Own(w) \cap Own(v) = {}
      /\ Key(w.job) \notin KeysOf(w.back)
  BY DEF JobsApart, ListsDistinct, PlacesApart
<1>3. Key(w.job) \in Own(w) /\ \A v \in workers : KeysOf(v.back) \subseteq Own(v)
  BY DEF Own
<1>4. w.job \notin Range(queue) /\ w.job \notin Range(disp.hand)
  BY <1>1, <1>2, <1>3, KeyIn
<1>5. \A s \in Sids : w.job \notin Range(ctx[s].pending)
  BY <1>1, <1>2, <1>3, KeyIn
<1>6. \A v \in workers : w.job \notin Range(v.back)
  BY <1>1, <1>2, <1>3, KeyIn
<1>7. \A v \in workers : v.job = w.job => v = w
  BY OneThreadPerJob
<1> QED
  BY <1>4, <1>5, <1>6, <1>7

(* Nor is the one in the dispatcher's hand.                                 *)
LEMMA HandsJob ==
  ASSUME TypeInv, JobsApart, disp.pc \notin {"loop", "dead"}
  PROVE  /\ Cur \in Job /\ Cur.sid \in Sids /\ Cur \in Range(disp.hand)
         /\ Cur \in JobsOf(Cur.sid)
         /\ Cur \notin Range(queue)
         /\ \A s \in Sids : Cur \notin Range(ctx[s].pending)
         /\ \A w \in workers : Cur # w.job /\ Cur \notin Range(w.back)
<1>1. /\ queue \in Seq(Job) /\ disp.hand \in Seq(Job) /\ disp.hand # <<>>
      /\ \A s \in Sids : ctx[s].pending \in Seq(Job)
      /\ \A w \in workers : w.back \in Seq(Job)
      /\ Cur \in Job /\ Cur.sid \in Sids
  BY CurType DEF TypeInv, TypeOK, Context, Worker
<1>2. Cur \in Range(disp.hand)
  BY <1>1, RangeTail DEF Cur
<1>3. Key(Cur) \in KeysOf(disp.hand)
  BY <1>1, <1>2, KeyIn
<1>4. /\ Key(Cur) \notin KeysOf(queue)
      /\ \A s \in Sids : Key(Cur) \notin KeysOf(ctx[s].pending)
      /\ \A w \in workers : Key(Cur) \notin Own(w)
  BY <1>3 DEF JobsApart, PlacesApart
<1>5. Cur \notin Range(queue) /\ \A s \in Sids : Cur \notin Range(ctx[s].pending)
  BY <1>1, <1>4, KeyIn
<1>6. \A w \in workers : Cur # w.job /\ Cur \notin Range(w.back)
  BY <1>1, <1>4, KeyIn DEF Own
<1> QED
  BY <1>1, <1>2, <1>5, <1>6 DEF JobsOf, Outside

(* When a thread ends, its job is gone.                                     *)
LEMMA ThreadEnds ==
  ASSUME TypeInv, JobsApart, WorkersHold, NEW w \in workers, Die(w),
         queue' = queue, disp' = disp, NEW s \in Sids
  PROVE  /\ JobsOf(s)' \subseteq JobsOf(s) /\ w.job \notin JobsOf(s)'
         /\ ThreadsOf(s)' = ThreadsOf(s) \ {w}
<1>1. workers' = workers \ {w}
  BY DEF Die
<1>2. Outside' \subseteq Outside
  BY <1>1 DEF Outside
<1>3. w.job \notin Outside'
  BY <1>1, ThreadsJob DEF Outside
<1>4. ThreadsOf(s)' = ThreadsOf(s) \ {w}
  BY <1>1 DEF ThreadsOf
<1> QED
  BY <1>2, <1>3, <1>4 DEF JobsOf

(* When the dispatcher puts its job down for others, it is gone.            *)
LEMMA HandChanges ==
  ASSUME TypeInv, JobsApart, disp.pc \notin {"loop", "dead"}, disp.hand = <<Cur>>,
         queue' = queue, workers' = workers, NEW s \in Sids
  PROVE  /\ JobsOf(s)' \subseteq (JobsOf(s) \ {Cur}) \cup Range(disp'.hand)
         /\ ThreadsOf(s)' = ThreadsOf(s)
<1>1. /\ Cur \in Job
      /\ Cur \notin Range(queue)
      /\ \A w \in workers : Cur # w.job /\ Cur \notin Range(w.back)
  BY HandsJob
<1>2. Range(disp.hand) = {Cur}
  BY <1>1, RangeFew
<1>3. ASSUME NEW j \in Outside', j \notin Range(disp'.hand)
      PROVE  j \in Outside /\ j # Cur
  BY <1>1, <1>3 DEF Outside
<1> QED
  BY <1>3 DEF JobsOf, ThreadsOf

(* The jobs a handler plans.                                                *)
LEMMA TasksFit ==
  ASSUME TypeInv, NEW s \in Sids, NEW a \in Attempts, NEW j \in Range(TasksToRun(s, a))
  PROVE  /\ j.sid = s /\ j.att = a
         /\ \/ j.kind = "build" /\ j.case = 0 /\ prof[s].make
            \/ j.kind = "compile" /\ j.case = 0 /\ ~prof[s].make /\ prof[s].compiled
            \/ j.kind = "exec" /\ j.case \in AllCases(s)
<1> DEFINE first == IF prof[s].make THEN <<MkJob("build", s, 0, a)>>
                    ELSE IF prof[s].compiled THEN <<MkJob("compile", s, 0, a)>> ELSE <<>>
           cases == [c \in AllCases(s) |-> MkJob("exec", s, c, a)]
<1>1. prof[s].cases \in 0..MaxCases /\ AllCases(s) \subseteq Cases
  BY CasesType DEF TypeInv
<1>2. \A c \in AllCases(s) : MkJob("exec", s, c, a) \in Job
  BY <1>1, JobType, Numbers DEF JobKinds
<1>3. prof[s].cases \in Nat /\ cases \in Seq(Job) /\ Len(cases) = prof[s].cases
  <2>1. prof[s].cases \in Nat
    BY <1>1, ConstantsAssumption
  <2> QED
    BY <1>2, <2>1 DEF AllCases
<1>4. first \in Seq(Job) /\ Len(first) \in {0, 1} /\ Len(first) \in Nat
  <2>1. MkJob("build", s, 0, a) \in Job /\ MkJob("compile", s, 0, a) \in Job
    BY JobType, Numbers DEF JobKinds
  <2> QED
    BY <2>1
<1>5. TasksToRun(s, a) = first \o cases
  BY DEF TasksToRun
<1>10. /\ \A i \in 1..Len(first) : \/ prof[s].make /\ first[i] = MkJob("build", s, 0, a)
                                  \/ /\ ~prof[s].make /\ prof[s].compiled
                                     /\ first[i] = MkJob("compile", s, 0, a)
       /\ \A i \in 1..Len(cases) : i \in AllCases(s) /\ cases[i] = MkJob("exec", s, i, a)
  <2>1. \A i \in 1..Len(cases) : i \in AllCases(s) /\ cases[i] = MkJob("exec", s, i, a)
    BY <1>3 DEF AllCases
  <2>2. CASE prof[s].make
    BY <2>1, <2>2
  <2>3. CASE ~prof[s].make /\ prof[s].compiled
    BY <2>1, <2>3
  <2>4. CASE ~prof[s].make /\ ~prof[s].compiled
    BY <2>1, <2>4
  <2> QED
    BY <2>2, <2>3, <2>4
<1> HIDE DEF first, cases
<1>6. /\ Range(first \o cases) = {(first \o cases)[i] : i \in 1..Len(first \o cases)}
      /\ Len(first \o cases) = Len(first) + Len(cases)
  BY <1>3, <1>4, RangeIs, ConcatProperties
<1>7. PICK i \in 1..(Len(first) + Len(cases)) : j = (first \o cases)[i]
  BY <1>5, <1>6
<1>8. j = IF i <= Len(first) THEN first[i] ELSE cases[i - Len(first)]
  BY <1>3, <1>4, <1>7, ConcatProperties
<1>9. CASE i <= Len(first)
  <2>1. i \in 1..Len(first) /\ j = first[i]
    BY <1>4, <1>7, <1>8, <1>9
  <2> QED
    BY <1>10, <2>1 DEF MkJob
<1>11. CASE ~(i <= Len(first))
  <2>1. i - Len(first) \in 1..Len(cases) /\ j = cases[i - Len(first)]
    BY <1>3, <1>4, <1>7, <1>8, <1>11
  <2>2. PICK k \in 1..Len(cases) : j = cases[k]
    BY <2>1
  <2>3. k \in AllCases(s) /\ j = MkJob("exec", s, k, a)
    BY <1>10, <2>2
  <2> QED
    BY <2>3 DEF MkJob
<1> QED
  BY <1>9, <1>11

-----------------------------------------------------------------------------
(* The steps of a request, up to the job it enqueues.                       *)

(* An id without entry, job, thread and completion.                         *)
LEMMA EmptySound ==
  ASSUME NEW s \in Sids, ctx'[s] = NoContext, JobsOf(s)' = {}, ThreadsOf(s)' = {},
         ClosersOf(s)' = {}, ~Over(s)', reports'[s][1] = 0,
         ~Serving(s, {"plan"})', ~Serving(s, {"enqueue"})'
  PROVE  Sound(s)'
<1>1. /\ ctx'[s].att = 0 /\ ctx'[s].cases = {} /\ ctx'[s].pending = <<>>
      /\ ctx'[s].compiled = "none"
  BY DEF NoContext
<1>2. AllJobsOf(s)' = {} /\ Range(ctx'[s].pending) = {}
  BY <1>1, RangeFew DEF AllJobsOf
<1>3. ~Contains(s)'
  BY <1>1 DEF Contains
<1>4. Entry(s)'
  BY <1>1, <1>3 DEF Entry, Before, Planning, Planned, NoCompile, OwnLabels
<1>5. Jobs(s)'
  BY <1>2 DEF Jobs, JobsFit, PendingKinds, CasesOpen, AnalysedAlone
<1>6. Work(s)'
  <2>1. ~Closing(s)'
    BY DEF Closing, ClosersOf
  <2> QED
    BY <1>3, <2>1 DEF Work, ClosesAlone, ThreadsServe, Reported
<1> QED
  BY <1>4, <1>5, <1>6 DEF Sound

(* What is there, and what is not, around a step of a handler.              *)
LEMMA HandlerFrame ==
  ASSUME Steady, Once', [Next]_vars, NEW h \in handlers, HandlerStep(h), Sound(h.sid)
  PROVE  /\ h.sid \in Sids /\ h.att = 1 /\ requests'[h.sid] = 1 /\ prof' = prof
         /\ JobsOf(h.sid) = {} /\ ThreadsOf(h.sid)' = {}
         /\ \A j \in JobsOf(h.sid)' : Enqueue(h) /\ j = FirstJob(h)
         /\ \A f \in HandlersOf(h.sid)' : Onward(h, f)
         /\ ClosersOf(h.sid) = {} /\ (~FailRequest(h) => ClosersOf(h.sid)' = {})
         /\ ~Over(h.sid)' /\ reports'[h.sid][1] = 0
<1>0. TypeInv /\ HandlersApart /\ Alone
  BY DEF Steady, CaseInv, ScreenInv, JobsApart, OnceInv
<1>1. /\ h.sid \in Sids /\ h.att = 1 /\ requests[h.sid] = 1
      /\ \A g \in handlers : g.sid = h.sid => g = h
  BY <1>0, OneHandler DEF Steady
<1>2. Serving(h.sid, HandlerPC)
  BY <1>0 DEF Serving, TypeInv, TypeOK, Handler
<1>3. JobsOf(h.sid) = {} /\ ClosersOf(h.sid) = {}
  BY <1>0, <1>1, <1>2 DEF Alone, AtWork, Closing, JobsOf, ClosersOf
<1>4. /\ workers' = workers /\ requests' = requests
      /\ queue' = queue \/ (Enqueue(h) /\ queue' = Append(queue, FirstJob(h)))
      /\ completing' = completing \/ FailRequest(h)
  BY DEF HandlerStep, ForgetLeftover, WipeLeftover, CreateAgain, MarkTrial,
     CheckRequest, FailRequest, Register, PlanTasks, Enqueue, RejectFull,
     UnwindRequest, ghost
<1>5. disp' = disp
  BY <1>0, HandlerStepMoves DEF Steady, CaseInv, JobsApart, Apart
<1>6. ThreadsOf(h.sid)' = {}
  BY <1>3, <1>4 DEF ThreadsOf, JobsOf, Outside
<1>7. ASSUME NEW j \in JobsOf(h.sid)' PROVE Enqueue(h) /\ j = FirstJob(h)
  <2>1. CASE queue' = queue
    BY <1>3, <1>4, <1>5, <1>7, <2>1 DEF JobsOf, Outside
  <2>2. CASE Enqueue(h) /\ queue' = Append(queue, FirstJob(h))
    <3>1. FirstJob(h) \in Job /\ queue \in Seq(Job)
      BY <1>0, <1>1, JobType, Numbers DEF FirstJob, JobKinds, TypeInv, TypeOK
    <3>2. Range(queue') = Range(queue) \cup {FirstJob(h)}
      BY <2>2, <3>1, RangeAppend
    <3> QED
      BY <1>3, <1>4, <1>5, <1>7, <2>2, <3>2 DEF JobsOf, Outside
  <2> QED
    BY <1>4, <2>1, <2>2
<1>8. ASSUME NEW f \in HandlersOf(h.sid)' PROVE Onward(h, f)
  BY <1>0, <1>1, <1>8, HandlerMove DEF HandlersOf
<1>9. ~FailRequest(h) => ClosersOf(h.sid)' = {}
  BY <1>3, <1>4 DEF ClosersOf
<1>10. ~Over(h.sid)' /\ reports'[h.sid][1] = 0
  <2>1. ~Over(h.sid)
    BY <1>2 DEF Sound, Work, Reported
  <2>2. ~Over(h.sid)' /\ ~(reports'[h.sid][1] > 0)
    BY <2>1, HandlerLeaves DEF Over
  <2>3. reports[h.sid][1] \in 0..2
    <3>1. reports \in [Sids -> [Attempts -> 0..2]] /\ 1 \in Attempts
      BY <1>0, Numbers DEF TypeInv, TypeOK
    <3> QED
      BY <1>1, <3>1
  <2>4. reports' = reports
    BY HandlerLeaves
  <2> QED
    BY <2>2, <2>3, <2>4
<1>11. prof' = prof
  BY ProfStays
<1> QED
  BY <1>1, <1>3, <1>4, <1>6, <1>7, <1>8, <1>9, <1>10, <1>11

(* Whatever a handler does before Register, or after it has been refused.   *)
LEMMA EarlySound ==
  ASSUME Steady, Once', [Next]_vars, NEW h \in handlers, HandlerStep(h), Sound(h.sid),
         ~FailRequest(h), ~Register(h), ~PlanTasks(h), ~Enqueue(h)
  PROVE  Sound(h.sid)'
<1>0. TypeInv
  BY DEF Steady, CaseInv, ScreenInv
<1>1. h.sid \in Sids
  BY <1>0 DEF TypeInv, TypeOK, Handler
<1>2. ctx'[h.sid] = NoContext
  <2>1. CASE ForgetLeftover(h) \/ RejectFull(h)
    <3>1. ForgetContext(h.sid)
      BY <2>1 DEF ForgetLeftover, RejectFull
    <3> QED
      BY <1>0, <1>1, <3>1, ForgetEffect DEF TypeInv
  <2>2. CASE ~(ForgetLeftover(h) \/ RejectFull(h))
    <3>1. ctx' = ctx /\ h.pc \in HandlerPC \ {"plan", "enqueue"}
      BY <2>2 DEF HandlerStep, WipeLeftover, CreateAgain, MarkTrial, CheckRequest,
                  UnwindRequest, HandlerPC
    <3>2. Serving(h.sid, HandlerPC \ {"plan", "enqueue"})
      BY <3>1 DEF Serving
    <3> QED
      BY <3>1, <3>2 DEF Sound, Entry, Before
  <2> QED
    BY <2>1, <2>2
<1>3. /\ JobsOf(h.sid)' = {} /\ ThreadsOf(h.sid)' = {} /\ ClosersOf(h.sid)' = {}
      /\ ~Over(h.sid)' /\ reports'[h.sid][1] = 0
      /\ \A f \in HandlersOf(h.sid)' : Onward(h, f)
  BY HandlerFrame
<1>4. ~Serving(h.sid, {"plan"})' /\ ~Serving(h.sid, {"enqueue"})'
  <2>1. ASSUME NEW f \in handlers', f.sid = h.sid PROVE f.pc \notin {"plan", "enqueue"}
    <3>1. Onward(h, f)
      BY <1>3, <2>1 DEF HandlersOf
    <3> QED
      BY <3>1 DEF Onward, FirstPC
  <2> QED
    BY <2>1 DEF Serving
<1> QED
  BY <1>1, <1>2, <1>3, <1>4, EmptySound

(* A new request.                                                           *)
LEMMA ArrivalSound ==
  ASSUME Steady, Once', [Next]_vars, NEW s \in Sids, CreateDir(s) \/ FindLeftover(s),
         Sound(s)
  PROVE  Sound(s)'
<1>0. TypeInv /\ HandlersApart /\ Alone
  BY DEF Steady, CaseInv, ScreenInv, JobsApart, OnceInv
<1>1. requests[s] = 0
  <2>1. requests' = [requests EXCEPT ![s] = @ + 1]
    BY DEF CreateDir, FindLeftover
  <2>2. requests \in [Sids -> Nat] /\ requests'[s] <= 1
    BY <1>0, ConstantsAssumption DEF TypeInv, TypeOK, Once
  <2> QED
    BY <2>1, <2>2
<1>2. /\ ctx' = ctx /\ queue' = queue /\ disp' = disp /\ workers' = workers
      /\ completing' = completing /\ reports' = reports /\ backups' = backups
      /\ \/ handlers' = handlers
         \/ handlers' = handlers \cup {[sid |-> s, att |-> requests'[s], pc |-> FirstPC(s)]}
         \/ handlers' = handlers \cup {[sid |-> s, att |-> requests'[s], pc |-> "forget"]}
  BY DEF CreateDir, FindLeftover, Arrive, files
<1>3. ctx'[s] = NoContext
  BY <1>1, <1>2 DEF Sound, Entry, Before
<1>4. JobsOf(s)' = {} /\ ThreadsOf(s)' = {} /\ ClosersOf(s)' = {}
  <2>1. ~AtWork(s) /\ ~Closing(s)
    BY <1>0, <1>1 DEF Alone
  <2> QED
    BY <1>2, <2>1 DEF JobsOf, ThreadsOf, ClosersOf, AtWork, Closing, Outside
<1>5. ~Over(s)' /\ reports'[s][1] = 0
  <2>1. ~Over(s)
    BY <1>1 DEF Sound, Work, Reported
  <2>2. reports[s][1] \in 0..2
    <3>1. reports \in [Sids -> [Attempts -> 0..2]] /\ 1 \in Attempts
      BY <1>0, Numbers DEF TypeInv, TypeOK
    <3> QED
      BY <3>1
  <2>3. reports[s][1] = 0 /\ <<s, 1>> \notin backups
    BY <2>1, <2>2 DEF Over
  <2>4. reports'[s][1] = 0 /\ <<s, 1>> \notin backups'
    BY <1>2, <2>3
  <2> QED
    BY <2>4 DEF Over
<1>6. ~Serving(s, {"plan"})' /\ ~Serving(s, {"enqueue"})'
  <2>1. \A f \in handlers' : f.sid = s => f \in handlers \/ f.pc \notin {"plan", "enqueue"}
    BY <1>2 DEF FirstPC
  <2>2. \A f \in handlers : f.sid # s
    <3> SUFFICES ASSUME NEW f \in handlers, f.sid = s PROVE FALSE
      OBVIOUS
    <3> QED
      BY <1>0, <1>1, OneHandler DEF Steady
  <2> QED
    BY <2>1, <2>2 DEF Serving
<1> QED
  BY <1>3, <1>4, <1>5, <1>6, EmptySound

(* Register makes an entry without cases ...                                *)
LEMMA RegisterSound ==
  ASSUME Steady, Once', [Next]_vars, NEW h \in handlers, Register(h), Sound(h.sid)
  PROVE  Sound(h.sid)'
<1>0. TypeInv /\ HandlerStep(h) /\ ~FailRequest(h)
  <2>1. HandlerStep(h)
    BY DEF HandlerStep
  <2>2. ~FailRequest(h)
    <3>1. \E f \in handlers' : f.sid = h.sid
      <4>1. PICK f : f = [h EXCEPT !.pc = "plan"]
        OBVIOUS
      <4>2. f \in handlers' /\ f.sid = h.sid
        BY <4>1 DEF Register, Goto, Steady, CaseInv, ScreenInv, TypeInv, TypeOK, Handler
      <4> QED
        BY <4>2
    <3>2. FailRequest(h) => handlers' = handlers \ {h}
      BY DEF FailRequest, Leave
    <3>3. \A g \in handlers : g.sid = h.sid => g = h
      BY OneHandler DEF Steady, CaseInv, ScreenInv, JobsApart
    <3> QED
      BY <3>1, <3>2, <3>3
  <2> QED
    BY <2>1, <2>2 DEF Steady, CaseInv, ScreenInv
<1>1. /\ h.sid \in Sids /\ h.att = 1 /\ requests'[h.sid] = 1
      /\ ThreadsOf(h.sid)' = {} /\ ClosersOf(h.sid)' = {}
      /\ ~Over(h.sid)' /\ reports'[h.sid][1] = 0
      /\ \A f \in HandlersOf(h.sid)' : Onward(h, f)
      /\ \A j \in JobsOf(h.sid)' : Enqueue(h)
  BY <1>0, HandlerFrame
<1>2. h.pc = "register"
  BY DEF Register
<1>3. JobsOf(h.sid)' = {}
  BY <1>1, <1>2 DEF Enqueue
<1>4. ctx[h.sid] = NoContext
  <2>1. Serving(h.sid, HandlerPC \ {"plan", "enqueue"})
    BY <1>2 DEF Serving, HandlerPC
  <2> QED
    BY <2>1 DEF Sound, Entry, Before
<1>5. /\ ctx'[h.sid].att = 1 /\ ctx'[h.sid].lock = 1
      /\ ctx'[h.sid].cases = {} /\ ctx'[h.sid].rec = Blank
      /\ ~ctx'[h.sid].prebuilt /\ ctx'[h.sid].compiled = "none"
      /\ ctx'[h.sid].pending = <<>>
  <2>1. ~ctx[h.sid].prebuilt /\ ctx[h.sid].compiled = "none" /\ ctx[h.sid].pending = <<>>
    BY <1>4 DEF NoContext
  <2> QED
    BY <1>0, <1>1, <2>1, RegisterEffect
<1>6. /\ ~Serving(h.sid, HandlerPC \ {"plan", "enqueue"})'
      /\ ~Serving(h.sid, {"enqueue"})'
  <2>1. ASSUME NEW f \in handlers', f.sid = h.sid PROVE f.pc = "plan"
    <3>1. Onward(h, f)
      BY <1>1, <2>1 DEF HandlersOf
    <3> QED
      BY <1>2, <3>1 DEF Onward, ForgetLeftover, WipeLeftover, CreateAgain, MarkTrial,
                        CheckRequest, PlanTasks, RejectFull
  <2> QED
    BY <2>1 DEF Serving
<1>7. ~AtWork(h.sid)' /\ ~Closing(h.sid)' /\ AllJobsOf(h.sid)' = {}
      /\ Range(ctx'[h.sid].pending) = {}
  BY <1>1, <1>3, <1>5, RangeFew DEF AtWork, JobsOf, Closing, ClosersOf, AllJobsOf
<1>8. Entry(h.sid)'
  <2>1. Before(h.sid)'
    BY <1>1, <1>6 DEF Before
  <2>2. Planning(h.sid)'
    BY <1>5 DEF Planning, Program
  <2>3. Planned(h.sid)'
    BY <1>6, <1>7 DEF Planned
  <2>4. NoCompile(h.sid)' /\ OwnLabels(h.sid)'
    BY <1>5 DEF NoCompile, OwnLabels
  <2> QED
    BY <2>1, <2>2, <2>3, <2>4 DEF Entry
<1>9. Jobs(h.sid)'
  BY <1>3, <1>7 DEF Jobs, JobsFit, PendingKinds, CasesOpen, AnalysedAlone
<1>10. Work(h.sid)'
  <2>1. ClosesAlone(h.sid)' /\ ThreadsServe(h.sid)'
    BY <1>1, <1>7 DEF ClosesAlone, ThreadsServe
  <2>2. Reported(h.sid)'
    BY <1>1 DEF Reported
  <2> QED
    BY <2>1, <2>2 DEF Work
<1> QED
  BY <1>8, <1>9, <1>10 DEF Sound

(* ... and PlanTasks lists them, with a job for each.                       *)
LEMMA PlanSound ==
  ASSUME Steady, Once', [Next]_vars, NEW h \in handlers, PlanTasks(h), Sound(h.sid)
  PROVE  Sound(h.sid)'
<1>0. TypeInv /\ HandlerStep(h) /\ ~FailRequest(h)
  <2>1. HandlerStep(h)
    BY DEF HandlerStep
  <2>2. ~FailRequest(h)
    <3>1. \E f \in handlers' : f.sid = h.sid
      <4>1. PICK f : f = [h EXCEPT !.pc = "enqueue"]
        OBVIOUS
      <4>2. f \in handlers' /\ f.sid = h.sid
        BY <4>1 DEF PlanTasks, Goto, Steady, CaseInv, ScreenInv, TypeInv, TypeOK, Handler
      <4> QED
        BY <4>2
    <3>2. FailRequest(h) => handlers' = handlers \ {h}
      BY DEF FailRequest, Leave
    <3>3. \A g \in handlers : g.sid = h.sid => g = h
      BY OneHandler DEF Steady, CaseInv, ScreenInv, JobsApart
    <3> QED
      BY <3>1, <3>2, <3>3
  <2> QED
    BY <2>1, <2>2 DEF Steady, CaseInv, ScreenInv
<1>1. /\ h.sid \in Sids /\ h.att = 1 /\ requests'[h.sid] = 1 /\ prof' = prof
      /\ ThreadsOf(h.sid)' = {} /\ ClosersOf(h.sid)' = {}
      /\ ~Over(h.sid)' /\ reports'[h.sid][1] = 0
      /\ \A f \in HandlersOf(h.sid)' : Onward(h, f)
      /\ \A j \in JobsOf(h.sid)' : Enqueue(h)
  BY <1>0, HandlerFrame
<1>2. h.pc = "plan"
  BY DEF PlanTasks
<1>3. JobsOf(h.sid)' = {}
  BY <1>1, <1>2 DEF Enqueue
<1>4. /\ ctx[h.sid].att = 1 /\ ctx[h.sid].lock = 1 /\ ctx[h.sid].rec = Blank
      /\ ~ctx[h.sid].prebuilt /\ ctx[h.sid].compiled = "none"
  <2>1. Serving(h.sid, {"plan"})
    BY <1>2 DEF Serving
  <2>2. Planning(h.sid)
    BY DEF Sound, Entry
  <2> QED
    BY <2>1, <2>2 DEF Planning, Program
<1>5. /\ ctx'[h.sid].att = 1 /\ ctx'[h.sid].rec = Blank
      /\ ctx'[h.sid].cases = AllCases(h.sid)
      /\ ctx'[h.sid].prebuilt <=> ~prof[h.sid].make /\ ~prof[h.sid].compiled
      /\ ctx'[h.sid].compiled = "none"
      /\ ctx'[h.sid].pending = TasksToRun(h.sid, 1)
  BY <1>0, <1>1, <1>4, PlanFields
<1>6. /\ ~Serving(h.sid, HandlerPC \ {"plan", "enqueue"})' /\ ~Serving(h.sid, {"plan"})'
  <2>1. ASSUME NEW f \in handlers', f.sid = h.sid PROVE f.pc = "enqueue"
    <3>1. Onward(h, f)
      BY <1>1, <2>1 DEF HandlersOf
    <3> QED
      BY <1>2, <3>1 DEF Onward, ForgetLeftover, WipeLeftover, CreateAgain, MarkTrial,
                        CheckRequest, Register, RejectFull
  <2> QED
    BY <2>1 DEF Serving
<1>7. /\ AllJobsOf(h.sid)' = Range(TasksToRun(h.sid, 1)) /\ ~Closing(h.sid)'
      /\ AllCases(h.sid)' = AllCases(h.sid) /\ AllCases(h.sid) \subseteq Cases
  <2>1. AllCases(h.sid) \subseteq Cases
    BY <1>0, <1>1, CasesType DEF TypeInv
  <2> QED
    BY <1>1, <1>3, <1>5, <2>1 DEF AllJobsOf, Closing, ClosersOf, AllCases
<1>8. prof[h.sid].make => prof[h.sid].compiled
  BY <1>1 DEF Steady, WellPosed
<1>9. \A j \in Range(TasksToRun(h.sid, 1)) :
        /\ j.sid = h.sid /\ j.att = 1
        /\ \/ j.kind = "build" /\ j.case = 0 /\ prof[h.sid].make
           \/ /\ j.kind = "compile" /\ j.case = 0
              /\ ~prof[h.sid].make /\ prof[h.sid].compiled
           \/ j.kind = "exec" /\ j.case \in AllCases(h.sid)
  BY <1>0, <1>1, Numbers, TasksFit
<1>10. Entry(h.sid)'
  <2>1. Before(h.sid)' /\ Planning(h.sid)'
    BY <1>1, <1>6 DEF Before, Planning
  <2>2. Planned(h.sid)'
    BY <1>1, <1>5, <1>7, <1>8 DEF Planned
  <2>3. NoCompile(h.sid)'
    BY <1>5 DEF NoCompile
  <2>4. OwnLabels(h.sid)'
    BY <1>5, <1>7 DEF OwnLabels, Blank
  <2> QED
    BY <2>1, <2>2, <2>3, <2>4 DEF Entry
<1>11. Jobs(h.sid)'
  <2>1. JobsFit(h.sid)'
    BY <1>1, <1>5, <1>7, <1>8, <1>9 DEF JobsFit, Program
  <2>2. PendingKinds(h.sid)'
    BY <1>5, <1>9 DEF PendingKinds
  <2>3. CasesOpen(h.sid)'
    BY <1>5, <1>7, <1>9 DEF CasesOpen, Blank
  <2>4. AnalysedAlone(h.sid)'
    BY <1>3 DEF AnalysedAlone
  <2> QED
    BY <2>1, <2>2, <2>3, <2>4 DEF Jobs
<1>12. Work(h.sid)'
  <2>1. ClosesAlone(h.sid)' /\ ThreadsServe(h.sid)'
    BY <1>1, <1>7 DEF ClosesAlone, ThreadsServe
  <2>2. Reported(h.sid)'
    BY <1>1 DEF Reported
  <2> QED
    BY <2>1, <2>2 DEF Work
<1> QED
  BY <1>10, <1>11, <1>12 DEF Sound

-----------------------------------------------------------------------------
(* A thread that completes a submission finds all verdicts given.           *)
LEMMA OpensOne ==
  ASSUME NEW by, NEW lk, Complete(by, lk), ClosersOf(by.sid) = {}
  PROVE  \E d : /\ ClosersOf(by.sid)' = {d} /\ d.by = by /\ d.pc = "put"
                /\ d.cases = ctx'[by.sid].cases /\ d.rec = ctx'[by.sid].rec
<1>1. PICK d : /\ completing' = completing \cup {d}
               /\ d.by = by /\ d.pc = "put"
               /\ d.cases = ctx'[by.sid].cases /\ d.rec = ctx'[by.sid].rec
  BY CompleteOpens
<1>2. ClosersOf(by.sid)' = {d}
  BY <1>1 DEF ClosersOf
<1> QED
  BY <1>1, <1>2

(* An id is sound when a completion has just read its verdicts.             *)
LEMMA ClosedSound ==
  ASSUME NEW s \in Sids, Sound(s), prof' = prof,
         ctx'[s].att # 0, ctx'[s].cases = AllCases(s),
         \A n \in AllCases(s) : ctx'[s].rec[n] = 1,
         ctx'[s].prebuilt = ctx[s].prebuilt, ctx'[s].compiled = ctx[s].compiled,
         ctx'[s].pending = ctx[s].pending,
         NEW d, ClosersOf(s)' = {d}, d.pc = "put",
         d.cases = ctx'[s].cases, d.rec = ctx'[s].rec,
         ThreadsOf(s)' = {}, JobsOf(s)' \subseteq JobsOf(s),
         \A j \in JobsOf(s)' :
           \/ j.kind \in {"sa", "net"} /\ JobsOf(s)' = {j} /\ d.by.kind = "disp"
           \/ j.kind = "exec" /\ AwaitsCompile(s),
         ~Serving(s, HandlerPC)', requests'[s] # 0,
         reports'[s][1] = 0, ~Over(s)',
         Contains(s) \/ (JobsOf(s)' = {} /\ ctx[s].pending = <<>>)
  PROVE  Sound(s)'
<1>1. /\ \A pcs \in SUBSET HandlerPC : ~Serving(s, pcs)'
      /\ Closing(s)' /\ Contains(s)'
      /\ AllCases(s)' = AllCases(s)
      /\ Program(s)' <=> Program(s)
      /\ AwaitsCompile(s)' <=> AwaitsCompile(s)
      /\ AllJobsOf(s)' \subseteq AllJobsOf(s)
  <2>1. \A pcs \in SUBSET HandlerPC : ~Serving(s, pcs)'
    BY DEF Serving
  <2>2. Closing(s)' /\ Contains(s)'
    BY DEF Closing, ClosersOf, Contains
  <2>3. /\ AllCases(s)' = AllCases(s)
        /\ Program(s)' <=> Program(s)
        /\ AwaitsCompile(s)' <=> AwaitsCompile(s)
    BY DEF AllCases, Program, AwaitsCompile
  <2>4. AllJobsOf(s)' \subseteq AllJobsOf(s)
    BY DEF AllJobsOf
  <2> QED
    BY <2>1, <2>2, <2>3, <2>4
<1>2. Entry(s) /\ Jobs(s)
  BY DEF Sound
<1>3. Entry(s)'
  <2>1. Before(s)'
    BY <1>1 DEF Before
  <2>2. Planning(s)'
    BY <1>1 DEF Planning, HandlerPC
  <2>3. Planned(s)'
    <3>1. ~Serving(s, {"enqueue"})'
      BY <1>1 DEF HandlerPC
    <3>2. AtWork(s)' => AtWork(s) /\ Contains(s)
      BY DEF AtWork, JobsOf
    <3>3. AtWork(s)' => prof[s].compiled \/ ctx[s].prebuilt
      BY <1>2, <3>2 DEF Entry, Planned
    <3> QED
      BY <1>1, <3>1, <3>3 DEF Planned
  <2>4. NoCompile(s)'
    BY <1>2 DEF Entry, NoCompile
  <2>5. OwnLabels(s)'
    BY DEF OwnLabels
  <2> QED
    BY <2>1, <2>2, <2>3, <2>4, <2>5 DEF Entry
<1>4. Jobs(s)'
  <2>1. JobsFit(s)'
    <3>1. AllJobsOf(s)' = {} \/ Contains(s)
      BY RangeFew DEF AllJobsOf
    <3> QED
      BY <1>1, <1>2, <3>1 DEF Jobs, JobsFit
  <2>2. PendingKinds(s)'
    BY <1>2 DEF Jobs, PendingKinds
  <2>3. CasesOpen(s)'
    BY <1>1 DEF CasesOpen
  <2>4. AnalysedAlone(s)'
    BY DEF AnalysedAlone
  <2> QED
    BY <2>1, <2>2, <2>3, <2>4 DEF Jobs
<1>5. Work(s)'
  <2>1. ClosesAlone(s)'
    BY <1>1 DEF ClosesAlone
  <2>2. ThreadsServe(s)'
    BY DEF ThreadsServe
  <2>3. Reported(s)'
    BY <1>1 DEF Reported
  <2> QED
    BY <2>1, <2>2, <2>3 DEF Work
<1> QED
  BY <1>3, <1>4, <1>5 DEF Sound

(* Nothing more of an id is reported or backed up when it is completed.     *)
LEMMA NotOver ==
  ASSUME TypeInv, NEW s \in Sids, ~Over(s),
         reports' = reports, backups' = backups
  PROVE  ~Over(s)' /\ reports'[s][1] = 0
<1>1. reports[s][1] \in 0..2
  <2>1. reports \in [Sids -> [Attempts -> 0..2]] /\ 1 \in Attempts
    BY Numbers DEF TypeInv, TypeOK
  <2> QED
    BY <2>1
<1>2. reports[s][1] = 0 /\ <<s, 1>> \notin backups
  BY <1>1 DEF Over
<1>3. reports'[s][1] = 0 /\ <<s, 1>> \notin backups'
  BY <1>2
<1> QED
  BY <1>3 DEF Over

(* A request that cannot be prepared is completed by its handler.           *)
LEMMA FailRequestSound ==
  ASSUME Steady, Once', [Next]_vars, NEW h \in handlers, FailRequest(h), Sound(h.sid)
  PROVE  Sound(h.sid)'
<1>0. TypeInv /\ HandlerStep(h) /\ TypeOK
  BY DEF Steady, CaseInv, ScreenInv, TypeInv, HandlerStep
<1>1. /\ h.sid \in Sids /\ h.att = 1 /\ requests'[h.sid] = 1 /\ prof' = prof
      /\ JobsOf(h.sid) = {} /\ ThreadsOf(h.sid)' = {}
      /\ ClosersOf(h.sid) = {} /\ ~Over(h.sid)' /\ reports'[h.sid][1] = 0
      /\ \A j \in JobsOf(h.sid)' : Enqueue(h)
      /\ \A f \in HandlersOf(h.sid)' : Onward(h, f)
  BY <1>0, HandlerFrame
<1>2. /\ ctx'[h.sid].att # 0 /\ ctx'[h.sid].cases = AllCases(h.sid)
      /\ \A n \in AllCases(h.sid) : ctx'[h.sid].rec[n] = 1
      /\ ctx'[h.sid].prebuilt = ctx[h.sid].prebuilt
      /\ ctx'[h.sid].compiled = ctx[h.sid].compiled
      /\ ctx'[h.sid].pending = ctx[h.sid].pending
  <2>1. FailAll(h.sid, h.att, h.att)
    BY DEF FailRequest
  <2> QED
    BY <1>0, <1>1, <2>1, FailAllEffect
<1>3. JobsOf(h.sid)' = {}
  BY <1>1 DEF Enqueue, FailRequest
<1>4. ctx[h.sid].pending = <<>>
  <2>1. CASE h.pc = "register"
    <3>1. Serving(h.sid, HandlerPC \ {"plan", "enqueue"})
      BY <2>1 DEF Serving, HandlerPC
    <3> QED
      BY <3>1 DEF Sound, Entry, Before, NoContext
  <2>2. CASE h.pc = "plan"
    <3>1. Serving(h.sid, {"plan"})
      BY <2>2 DEF Serving
    <3> QED
      BY <3>1 DEF Sound, Entry, Planning
  <2> QED
    BY <2>1, <2>2 DEF FailRequest
<1>5. HttpThread(h).sid = h.sid
  BY DEF HttpThread, MkJob
<1>6. PICK d : /\ ClosersOf(h.sid)' = {d} /\ d.pc = "put"
               /\ d.cases = ctx'[h.sid].cases /\ d.rec = ctx'[h.sid].rec
  <2>1. Complete(HttpThread(h), 0)
    BY DEF FailRequest
  <2> QED
    BY <1>1, <1>5, <2>1, OpensOne
<1>7. ~Serving(h.sid, HandlerPC)'
  <2>1. handlers' = handlers \ {h}
    BY DEF FailRequest, Leave
  <2>2. \A g \in handlers : g.sid = h.sid => g = h
    BY <1>0, OneHandler DEF Steady, CaseInv, JobsApart
  <2> QED
    BY <2>1, <2>2 DEF Serving
<1> QED
  BY <1>1, <1>2, <1>3, <1>4, <1>6, <1>7, ClosedSound

(* The job of an accepted request is the only one at work.                  *)
LEMMA EnqueueSound ==
  ASSUME Steady, Once', [Next]_vars, NEW h \in handlers, Enqueue(h), Sound(h.sid)
  PROVE  Sound(h.sid)'
<1>0. TypeInv /\ HandlerStep(h) /\ ~FailRequest(h)
  BY DEF Steady, CaseInv, ScreenInv, HandlerStep, Enqueue, FailRequest
<1>1. /\ h.sid \in Sids /\ h.att = 1 /\ requests'[h.sid] = 1 /\ prof' = prof
      /\ JobsOf(h.sid) = {} /\ ThreadsOf(h.sid)' = {}
      /\ ClosersOf(h.sid) = {} /\ ClosersOf(h.sid)' = {}
      /\ ~Over(h.sid)' /\ reports'[h.sid][1] = 0
      /\ \A j \in JobsOf(h.sid)' : j = FirstJob(h)
  BY <1>0, HandlerFrame
<1>2. ctx' = ctx /\ Serving(h.sid, {"enqueue"})
  BY DEF Enqueue, Serving
<1>3. ~Serving(h.sid, HandlerPC)'
  <2>1. handlers' = handlers \ {h}
    BY DEF Enqueue, Leave
  <2>2. \A g \in handlers : g.sid = h.sid => g = h
    BY <1>0, OneHandler DEF Steady, CaseInv, JobsApart
  <2> QED
    BY <2>1, <2>2 DEF Serving
<1>4. /\ \A pcs \in SUBSET HandlerPC : ~Serving(h.sid, pcs)'
      /\ ~Closing(h.sid) /\ ~Closing(h.sid)'
      /\ AllCases(h.sid)' = AllCases(h.sid)
      /\ Contains(h.sid)' <=> Contains(h.sid)
      /\ Program(h.sid)' <=> Program(h.sid)
      /\ AllJobsOf(h.sid)' \subseteq AllJobsOf(h.sid) \cup {FirstJob(h)}
  <2>1. \A pcs \in SUBSET HandlerPC : ~Serving(h.sid, pcs)'
    BY <1>3 DEF Serving
  <2>2. ~Closing(h.sid) /\ ~Closing(h.sid)'
    BY <1>1 DEF Closing, ClosersOf
  <2>3. /\ AllCases(h.sid)' = AllCases(h.sid)
        /\ Contains(h.sid)' <=> Contains(h.sid)
        /\ Program(h.sid)' <=> Program(h.sid)
    BY <1>1, <1>2 DEF AllCases, Program, Contains
  <2>4. AllJobsOf(h.sid)' \subseteq AllJobsOf(h.sid) \cup {FirstJob(h)}
    BY <1>1, <1>2 DEF AllJobsOf
  <2> QED
    BY <2>1, <2>2, <2>3, <2>4
<1>5. FirstJob(h).kind = "sa" /\ FirstJob(h).sid = h.sid /\ FirstJob(h).att = 1
  BY <1>1 DEF FirstJob, MkJob
<1>6. Entry(h.sid) /\ Jobs(h.sid)
  BY DEF Sound
<1>7. Entry(h.sid)'
  <2>1. Before(h.sid)'
    BY <1>1, <1>4 DEF Before
  <2>2. Planning(h.sid)'
    BY <1>4 DEF Planning, HandlerPC
  <2>3. Planned(h.sid)'
    BY <1>1, <1>2, <1>4, <1>6 DEF Planned, Entry
  <2>4. NoCompile(h.sid)' /\ OwnLabels(h.sid)'
    BY <1>1, <1>2, <1>6 DEF NoCompile, OwnLabels, Entry
  <2> QED
    BY <2>1, <2>2, <2>3, <2>4 DEF Entry
<1>8. Jobs(h.sid)'
  <2>1. JobsFit(h.sid)'
    BY <1>1, <1>4, <1>5, <1>6 DEF Jobs, JobsFit
  <2>2. PendingKinds(h.sid)'
    BY <1>2, <1>6 DEF Jobs, PendingKinds
  <2>3. CasesOpen(h.sid)'
    BY <1>2, <1>4, <1>5, <1>6 DEF Jobs, CasesOpen
  <2>4. AnalysedAlone(h.sid)'
    BY <1>1 DEF AnalysedAlone
  <2> QED
    BY <2>1, <2>2, <2>3, <2>4 DEF Jobs
<1>9. Work(h.sid)'
  <2>1. ClosesAlone(h.sid)' /\ ThreadsServe(h.sid)'
    BY <1>1, <1>4 DEF ClosesAlone, ThreadsServe
  <2>2. Reported(h.sid)'
    BY <1>1 DEF Reported
  <2> QED
    BY <2>1, <2>2 DEF Work
<1> QED
  BY <1>7, <1>8, <1>9 DEF Sound

-----------------------------------------------------------------------------
(* The threads of an id end one after the other.                            *)
LEMMA EndFrame ==
  ASSUME Steady, [Next]_vars, NEW w \in workers, EndsWork(w), NEW s \in Sids,
         w.job.sid = s, Sound(s)
  PROVE  /\ prof' = prof /\ requests'[s] # 0 /\ ~Serving(s, HandlerPC)'
         /\ w \in ThreadsOf(s) /\ w.job \in JobsOf(s)
         /\ Contains(s) /\ ctx[s].att = 1 /\ ~Closing(s) /\ ClosersOf(s) = {}
         /\ ~Over(s) /\ ~Over(s)' /\ reports'[s][1] = 0
         /\ w.pc # "start" /\ w.src = 1
         /\ ctx[s].cases = AllCases(s)
         /\ ~FailBuild(w) =>
              /\ JobsOf(s)' \subseteq JobsOf(s) \ {w.job}
              /\ ThreadsOf(s)' = ThreadsOf(s) \ {w}
<1>0. TypeInv /\ JobsApart /\ Alone /\ OwnEntry /\ WorkersHold
  BY DEF Steady, CaseInv, ScreenInv, OnceInv
<1>1. WorkerStep(w) /\ w \in ThreadsOf(s)
  BY DEF EndsWork, WorkerStep, ThreadsOf
<1>2. w.pc # "start"
  BY DEF EndsWork, FinishCompile, FinishBuild, FailBuild, MarkBuildFailed, NoTeacher,
         RecordCase, Is
<1>3. /\ Contains(s) /\ ~Closing(s) /\ ~Over(s) /\ w.src = 1 /\ w.job \in JobsOf(s)
  BY <1>1, <1>2, ThreadsFiles
<1>4. ClosersOf(s) = {} /\ AtWork(s)
  BY <1>3 DEF Closing, ClosersOf, AtWork, JobsOf
<1>5. ctx[s].att = 1
  <2>1. ctx[s].att \in Nat /\ ctx[s].att <= requests[s] /\ requests[s] <= 1
        /\ requests[s] \in Nat /\ ctx[s].att # 0
    BY <1>0, <1>3, ConstantsAssumption
       DEF OwnEntry, Steady, Once, TypeInv, TypeOK, Context, Contains
  <2> QED
    BY <2>1
<1>6. requests[s] # 0 /\ ~Serving(s, HandlerPC)
  BY <1>0, <1>4 DEF Alone
<1>7. handlers' = handlers /\ requests' = requests
  BY <1>0, <1>1, WorkerStepMoves DEF JobsApart, Apart
<1>8. requests'[s] # 0 /\ ~Serving(s, HandlerPC)'
  BY <1>6, <1>7 DEF Serving
<1>9. ~Over(s)' /\ reports'[s][1] = 0
  BY <1>0, <1>1, <1>3, WorkerLeaves, NotOver
<1>10. ctx[s].cases = AllCases(s)
  BY <1>3, <1>4 DEF Sound, Entry, Planned
<1>11. ASSUME ~FailBuild(w)
       PROVE  /\ JobsOf(s)' \subseteq JobsOf(s) \ {w.job}
              /\ ThreadsOf(s)' = ThreadsOf(s) \ {w}
  <2>1. Die(w) /\ queue' = queue /\ disp' = disp
    BY <1>11 DEF EndsWork, FinishCompile, FinishBuild, MarkBuildFailed, NoTeacher,
                 RecordCase, MarkFailed
  <2> QED
    BY <1>0, <2>1, ThreadEnds
<1>12. prof' = prof
  BY ProfStays
<1> QED
  BY <1>1, <1>2, <1>3, <1>4, <1>5, <1>8, <1>9, <1>10, <1>11, <1>12

(* Two jobs of an id for the same thing are one.                            *)
LEMMA SameJob ==
  ASSUME TypeInv, NEW s \in Sids, Sound(s), NEW i \in AllJobsOf(s), NEW j \in AllJobsOf(s),
         i.kind = j.kind, i.kind \in {"build", "compile"} \/ i.case = j.case
  PROVE  i = j
<1>1. i \in Job /\ j \in Job
  <2>1. Outside \subseteq Job
    <3>1. /\ queue \in Seq(Job) /\ disp.hand \in Seq(Job)
          /\ \A w \in workers : w.job \in Job /\ w.back \in Seq(Job)
      BY DEF TypeInv, TypeOK, Worker
    <3>2. /\ Range(queue) \subseteq Job /\ Range(disp.hand) \subseteq Job
          /\ \A w \in workers : Range(w.back) \subseteq Job
      BY <3>1, RangeIs
    <3> QED
      BY <3>1, <3>2 DEF Outside
  <2>2. Range(ctx[s].pending) \subseteq Job
    <3>1. ctx[s].pending \in Seq(Job)
      BY DEF TypeInv, TypeOK, Context
    <3> QED
      BY <3>1, RangeIs
  <2> QED
    BY <2>1, <2>2 DEF AllJobsOf, JobsOf
<1>2. i.sid = j.sid /\ i.att = j.att /\ i.case = j.case
  BY DEF Sound, Jobs, JobsFit
<1> QED
  BY <1>1, <1>2 DEF Job

(* A thread that is done leaves the rest as it was, or with a verdict or a  *)
(* program more.                                                            *)
LEMMA GoneSound ==
  ASSUME NEW s \in Sids, Sound(s), prof' = prof,
         requests'[s] # 0, ~Serving(s, HandlerPC)', Contains(s),
         ctx'[s].att = ctx[s].att, ctx'[s].cases = AllCases(s),
         ctx'[s].pending = ctx[s].pending, ctx[s].prebuilt => ctx'[s].prebuilt,
         Program(s) => Program(s)', NoCompile(s)', OwnLabels(s)',
         ClosersOf(s)' = {}, ~Over(s)', reports'[s][1] = 0,
         JobsOf(s)' \subseteq JobsOf(s), ThreadsOf(s)' \subseteq ThreadsOf(s),
         ThreadsOf(s) # {},
         \A j \in AllJobsOf(s)' : j.kind \in {"build", "compile"} => ~Program(s)',
         \A j \in AllJobsOf(s)' : j.kind = "exec" => ctx'[s].rec[j.case] = 0
  PROVE  Sound(s)'
<1>1. /\ \A pcs \in SUBSET HandlerPC : ~Serving(s, pcs)'
      /\ ~Closing(s)' /\ Contains(s)' /\ AllCases(s)' = AllCases(s)
      /\ AllJobsOf(s)' \subseteq AllJobsOf(s)
  <2>1. \A pcs \in SUBSET HandlerPC : ~Serving(s, pcs)'
    BY DEF Serving
  <2>2. ~Closing(s)' /\ Contains(s)'
    BY DEF Closing, ClosersOf, Contains
  <2>3. AllCases(s)' = AllCases(s)
    BY DEF AllCases
  <2>4. AllJobsOf(s)' \subseteq AllJobsOf(s)
    BY DEF AllJobsOf
  <2> QED
    BY <2>1, <2>2, <2>3, <2>4
<1>2. Entry(s) /\ Jobs(s) /\ Work(s)
  BY DEF Sound
<1>3. Entry(s)'
  <2>1. Before(s)' /\ Planning(s)'
    BY <1>1 DEF Before, Planning, HandlerPC
  <2>2. Planned(s)'
    <3>1. AtWork(s)
      BY DEF AtWork, ThreadsOf, Outside
    <3>2. prof[s].compiled \/ ctx[s].prebuilt
      BY <1>2, <3>1 DEF Entry, Planned
    <3> QED
      BY <1>1, <3>2 DEF Planned
  <2> QED
    BY <2>1, <2>2 DEF Entry
<1>4. Jobs(s)'
  <2>1. JobsFit(s)'
    BY <1>1, <1>2 DEF Jobs, JobsFit
  <2>2. PendingKinds(s)'
    BY <1>2 DEF Jobs, PendingKinds
  <2>3. CasesOpen(s)'
    BY DEF CasesOpen
  <2>4. AnalysedAlone(s)'
    BY <1>2 DEF Jobs, AnalysedAlone
  <2> QED
    BY <2>1, <2>2, <2>3, <2>4 DEF Jobs
<1>5. Work(s)'
  <2>1. ClosesAlone(s)'
    BY <1>1 DEF ClosesAlone
  <2>2. ThreadsServe(s)'
    BY <1>1, <1>2 DEF Work, ThreadsServe
  <2>3. Reported(s)'
    BY DEF Reported
  <2> QED
    BY <2>1, <2>2, <2>3 DEF Work
<1> QED
  BY <1>3, <1>4, <1>5 DEF Sound

(* The program is there when nobody makes it any more.                      *)
LEMMA FinishToolSound ==
  ASSUME Steady, [Next]_vars, NEW w \in workers, FinishCompile(w) \/ FinishBuild(w),
         NEW s \in Sids, w.job.sid = s, Sound(s)
  PROVE  Sound(s)'
<1>0. TypeInv /\ JobsApart /\ EndsWork(w)
  BY DEF Steady, CaseInv, ScreenInv, EndsWork
<1>1. w.job.kind \in {"build", "compile"} /\ ~FailBuild(w)
  <2>1. w.job.kind \in {"build", "compile"}
    BY DEF FinishCompile, FinishBuild, Is
  <2>2. ~FailBuild(w)
    <3>1. \A v : v \in workers' => v \in workers
      BY DEF FinishCompile, FinishBuild, Die
    <3>2. w \notin workers'
      BY DEF FinishCompile, FinishBuild, Die
    <3> SUFFICES ASSUME FailBuild(w) PROVE FALSE
      OBVIOUS
    <3>3. PICK v : v = [w EXCEPT !.pc = "clear"]
      OBVIOUS
    <3>4. v \in workers' /\ v.job = w.job /\ v.pc = "clear" /\ w.pc = "busy"
      BY <3>3 DEF FailBuild, Step, Is, Worker, TypeInv, TypeOK, Steady, CaseInv, ScreenInv
    <3>5. v = w
      BY <1>0, <3>1, <3>4, ThreadsJob
    <3> QED
      BY <3>4, <3>5
  <2> QED
    BY <2>1, <2>2
<1>2. /\ prof' = prof /\ requests'[s] # 0 /\ ~Serving(s, HandlerPC)'
      /\ w \in ThreadsOf(s) /\ w.job \in JobsOf(s)
      /\ Contains(s) /\ ~Closing(s) /\ ClosersOf(s) = {}
      /\ ~Over(s)' /\ reports'[s][1] = 0
      /\ ctx[s].cases = AllCases(s)
      /\ JobsOf(s)' \subseteq JobsOf(s) \ {w.job}
      /\ ThreadsOf(s)' = ThreadsOf(s) \ {w}
  BY <1>0, <1>1, EndFrame
<1>3. /\ ctx'[s].att = ctx[s].att /\ ctx'[s].cases = ctx[s].cases
      /\ ctx'[s].rec = ctx[s].rec /\ ctx'[s].pending = ctx[s].pending
      /\ \/ /\ FinishCompile(w)
            /\ ctx'[s].compiled # "none" /\ ctx'[s].prebuilt = ctx[s].prebuilt
         \/ /\ FinishBuild(w)
            /\ ctx'[s].compiled = ctx[s].compiled /\ ctx'[s].prebuilt
  <2>1. CASE FinishCompile(w)
    BY <1>0, <2>1, CompiledEffect DEF SameVerdicts
  <2>2. CASE FinishBuild(w)
    <3>1. ctx'[s].prebuilt
      <4>1. ctx' = [ctx EXCEPT ![s].prebuilt = TRUE, ![s].plan = 0]
        BY <2>2 DEF FinishBuild, EndPlan
      <4>2. ctx \in [Sids -> Context] /\ ctx[s] \in Context
        BY <1>0 DEF TypeInv, TypeOK
      <4>3. PICK r : r = [ctx[s] EXCEPT !.prebuilt = TRUE, !.plan = 0]
        OBVIOUS
      <4>4. r.prebuilt = TRUE
        BY <4>2, <4>3 DEF Context
      <4>5. ctx'[s] = r
        BY <4>1, <4>2, <4>3
      <4> QED
        BY <4>4, <4>5
    <3> QED
      BY <1>0, <2>2, <3>1, BuiltEffect DEF SameVerdicts
  <2> QED
    BY <2>1, <2>2
<1>4. Program(s)' /\ (ctx[s].prebuilt => ctx'[s].prebuilt)
  BY <1>3 DEF Program
<1>5. completing' = completing
  BY DEF FinishCompile, FinishBuild
<1>6. ClosersOf(s)' = {}
  BY <1>2, <1>5 DEF ClosersOf
<1>7. /\ AllJobsOf(s)' \subseteq AllJobsOf(s)
      /\ w.job \in AllJobsOf(s) /\ w.job \notin AllJobsOf(s)'
  <2>1. w.job \notin Range(ctx[s].pending)
    BY <1>0, ThreadsJob
  <2> QED
    BY <1>2, <1>3, <2>1 DEF AllJobsOf
<1>8. \A j \in AllJobsOf(s)' : j.kind \notin {"build", "compile"}
  <2> SUFFICES ASSUME NEW j \in AllJobsOf(s)', j.kind \in {"build", "compile"}
               PROVE  FALSE
    OBVIOUS
  <2>1. /\ j \in AllJobsOf(s) /\ j # w.job
        /\ j.kind = "build" => prof[s].make
        /\ j.kind = "compile" => ~prof[s].make
        /\ w.job.kind = "build" => prof[s].make
        /\ w.job.kind = "compile" => ~prof[s].make
    BY <1>7 DEF Sound, Jobs, JobsFit
  <2>2. j.kind = w.job.kind
    BY <1>1, <2>1
  <2> QED
    BY <1>0, <1>1, <1>7, <2>1, <2>2, SameJob
<1>9. NoCompile(s)'
  <2>1. CASE FinishCompile(w)
    <3>1. w.job.kind = "compile"
      BY <2>1 DEF FinishCompile, Is
    <3>2. ~prof[s].make
      BY <1>7, <3>1 DEF Sound, Jobs, JobsFit
    <3> QED
      BY <1>2, <3>2 DEF NoCompile
  <2>2. CASE FinishBuild(w)
    <3>1. w.job.kind = "build"
      BY <2>2 DEF FinishBuild, Is
    <3>2. prof[s].make
      BY <1>7, <3>1 DEF Sound, Jobs, JobsFit
    <3>3. ctx[s].compiled = "none"
      BY <3>2 DEF Sound, Entry, NoCompile
    <3>4. ~FinishCompile(w)
      BY <3>1 DEF FinishCompile, Is
    <3> QED
      BY <1>3, <3>3, <3>4 DEF NoCompile
  <2> QED
    BY <2>1, <2>2
<1>10. OwnLabels(s)'
  BY <1>3 DEF Sound, Entry, OwnLabels
<1>11. \A j \in AllJobsOf(s)' : j.kind = "exec" => ctx'[s].rec[j.case] = 0
  BY <1>2, <1>3, <1>7 DEF Sound, Jobs, CasesOpen
<1> QED
  BY <1>2, <1>3, <1>4, <1>6, <1>8, <1>9, <1>10, <1>11, GoneSound

(* A failed build only starts to fail the submission.                       *)
LEMMA FailBuildQuiet ==
  ASSUME Steady, [Next]_vars, NEW w \in workers, FailBuild(w), NEW s \in Sids,
         w.job.sid = s, Sound(s)
  PROVE  Quiet(s)
<1>0. TypeInv /\ JobsApart /\ EndsWork(w) /\ WorkerStep(w)
  BY DEF Steady, CaseInv, ScreenInv, EndsWork, WorkerStep
<1>1. /\ w \in ThreadsOf(s) /\ w.job \in JobsOf(s) /\ Contains(s)
      /\ w.pc # "start" /\ w.src = 1
  BY <1>0, EndFrame
<1>2. SameEntry(s)
  <2>1. /\ SameVerdicts(s) /\ ctx'[s].compiled = ctx[s].compiled
        /\ ctx'[s].pending = ctx[s].pending /\ ~ctx'[s].prebuilt
    BY <1>0, BuiltEffect
  <2>2. ~ctx[s].prebuilt
    <3>1. w.job.kind = "build" /\ w.job \in AllJobsOf(s)
      BY <1>1 DEF FailBuild, Is, AllJobsOf
    <3> QED
      BY <1>1, <3>1 DEF Sound, Jobs, JobsFit, Program
  <2>3. ctx'[s].prebuilt \in BOOLEAN /\ ctx[s].prebuilt \in BOOLEAN
    <3>1. TypeInv'
      BY <1>0, NextTyping
    <3> QED
      BY <1>0, <3>1 DEF TypeInv, TypeOK, Context
  <2> QED
    BY <1>1, <2>1, <2>2, <2>3 DEF SameEntry
<1>3. PICK v : v = [w EXCEPT !.pc = "clear"]
  OBVIOUS
<1>4. v.job = w.job /\ v.back = w.back /\ v.src = 1
  BY <1>1, <1>3 DEF Worker, TypeInv, TypeOK, Steady, CaseInv, ScreenInv
<1>5. /\ workers' = (workers \ {w}) \cup {v} /\ queue' = queue /\ disp' = disp
      /\ completing' = completing /\ handlers' = handlers /\ requests' = requests
      /\ reports' = reports /\ backups' = backups
  BY <1>3 DEF FailBuild, Step, files, ghost
<1>6. JobsOf(s)' \subseteq JobsOf(s)
  BY <1>4, <1>5 DEF JobsOf, Outside
<1>7. \A u \in ThreadsOf(s)' : \E x \in ThreadsOf(s) :
        u.job = x.job /\ (u = x \/ u.src = 1)
  BY <1>1, <1>4, <1>5 DEF ThreadsOf
<1> QED
  BY <1>2, <1>5, <1>6, <1>7 DEF Quiet, Calm, ClosersOf, HandlersOf

(* Beside a thread there are only build, compile and case jobs.             *)
LEMMA BesideThreads ==
  ASSUME TypeInv, NEW s \in Sids, Sound(s), NEW w \in ThreadsOf(s), NEW j \in JobsOf(s)
  PROVE  /\ j.kind \in {"build", "compile", "exec"} /\ j \in AllJobsOf(s)
         /\ j.kind = "build" => prof[s].make
         /\ j.kind = "compile" => ~prof[s].make
         /\ j.kind \in {"build", "compile"} => prof[s].compiled /\ ~Program(s)
         /\ j.kind = "exec" => ctx[s].rec[j.case] = 0 /\ j.case \in AllCases(s)
<1>1. j \in AllJobsOf(s) /\ j \in Outside
  BY DEF AllJobsOf, JobsOf
<1>2. j.kind \notin {"sa", "net"}
  BY DEF Sound, Jobs, AnalysedAlone
<1>3. j.kind \in JobKinds
  <2>1. /\ queue \in Seq(Job) /\ disp.hand \in Seq(Job)
        /\ \A v \in workers : v.job \in Job /\ v.back \in Seq(Job)
    BY DEF TypeInv, TypeOK, Worker
  <2>2. /\ Range(queue) \subseteq Job /\ Range(disp.hand) \subseteq Job
        /\ \A v \in workers : Range(v.back) \subseteq Job
    BY <2>1, RangeIs
  <2>3. j \in Job
    BY <1>1, <2>1, <2>2 DEF Outside
  <2> QED
    BY <2>3 DEF Job
<1>4. Contains(s) /\ ~Closing(s)
  BY DEF Sound, Work, ThreadsServe, ClosesAlone
<1>5. /\ j.kind = "build" => prof[s].make
      /\ j.kind = "compile" => ~prof[s].make
      /\ j.kind \in {"build", "compile"} => prof[s].compiled /\ ~Program(s)
      /\ j.kind = "exec" => j.case \in AllCases(s)
  BY <1>1, <1>4 DEF Sound, Jobs, JobsFit
<1>6. j.kind = "exec" => ctx[s].rec[j.case] = 0
  BY <1>1, <1>4 DEF Sound, Jobs, CasesOpen
<1> QED
  BY <1>1, <1>2, <1>3, <1>5, <1>6 DEF JobKinds

(* The build thread of a submission that does not build is its last one.    *)
LEMMA MarkBuildFailedSound ==
  ASSUME Steady, [Next]_vars, NEW w \in workers, MarkBuildFailed(w), NEW s \in Sids,
         w.job.sid = s, Sound(s)
  PROVE  Sound(s)'
<1>0. TypeInv /\ TypeOK /\ JobsApart /\ EndsWork(w)
  BY DEF Steady, CaseInv, ScreenInv, TypeInv, EndsWork
<1>1. w.job.kind = "build" /\ ~FailBuild(w)
  BY DEF MarkBuildFailed, FailBuild, Is
<1>2. /\ prof' = prof /\ requests'[s] # 0 /\ ~Serving(s, HandlerPC)'
      /\ w \in ThreadsOf(s) /\ w.job \in JobsOf(s)
      /\ Contains(s) /\ ctx[s].att = 1 /\ ClosersOf(s) = {} /\ w.src = 1
      /\ ~Over(s)' /\ reports'[s][1] = 0
      /\ JobsOf(s)' \subseteq JobsOf(s) \ {w.job}
      /\ ThreadsOf(s)' = ThreadsOf(s) \ {w}
  BY <1>0, <1>1, EndFrame
<1>3. FailAll(s, 1, 1) /\ Complete(w.job, w.lk)
  BY <1>2 DEF MarkBuildFailed, MarkFailed
<1>4. /\ ctx'[s].att # 0 /\ ctx'[s].cases = AllCases(s)
      /\ \A n \in AllCases(s) : ctx'[s].rec[n] = 1
      /\ ctx'[s].prebuilt = ctx[s].prebuilt /\ ctx'[s].compiled = ctx[s].compiled
      /\ ctx'[s].pending = ctx[s].pending
  BY <1>0, <1>3, FailAllEffect
<1>5. PICK d : /\ ClosersOf(s)' = {d} /\ d.pc = "put"
               /\ d.cases = ctx'[s].cases /\ d.rec = ctx'[s].rec
  BY <1>2, <1>3, OpensOne
<1>6. /\ ~Program(s) /\ prof[s].make /\ prof[s].compiled
      /\ w.job \in AllJobsOf(s)
  BY <1>0, <1>1, <1>2, BesideThreads
<1>7. ASSUME NEW j \in JobsOf(s), j # w.job PROVE j.kind = "exec"
  <2>1. /\ j.kind \in {"build", "compile", "exec"} /\ j \in AllJobsOf(s)
        /\ j.kind = "compile" => ~prof[s].make
    BY <1>0, <1>2, BesideThreads
  <2>2. j.kind # "build"
    BY <1>0, <1>1, <1>6, <1>7, <2>1, SameJob
  <2> QED
    BY <1>6, <2>1, <2>2
<1>8. ThreadsOf(s)' = {}
  <2> SUFFICES ASSUME NEW v \in ThreadsOf(s), v # w PROVE FALSE
    BY <1>2
  <2>1. v \in workers /\ v.job \in JobsOf(s)
    BY DEF ThreadsOf, JobsOf, Outside
  <2>2. v.job # w.job
    BY <1>0, <2>1, ThreadsJob
  <2>3. v.job.kind = "exec"
    BY <1>7, <2>1, <2>2
  <2> QED
    BY <1>6, <2>3 DEF Sound, Work, ThreadsServe
<1>9. AwaitsCompile(s)
  BY <1>6 DEF AwaitsCompile, Program
<1>10. \A j \in JobsOf(s)' : j.kind = "exec"
  BY <1>2, <1>7
<1> QED
  BY <1>2, <1>4, <1>5, <1>8, <1>9, <1>10, ClosedSound

(* A case of a well-posed problem never lacks its teacher.                  *)
LEMMA TeacherThere ==
  ASSUME Steady, [Next]_vars, NEW w \in workers, NEW s \in Sids, w.job.sid = s, Sound(s)
  PROVE  ~NoTeacher(w)
<1>1. w \in ThreadsOf(s)
  BY DEF ThreadsOf
<1>2. Contains(s)
  BY <1>1, ThreadsFiles
<1>3. prof[s].mode # "noTeacher"
  BY DEF Steady, WellPosed
<1> QED
  BY <1>2, <1>3 DEF NoTeacher, LacksTeacher

(* A case thread records the verdict of its case; the last one finds them   *)
(* all, and nothing else of the id is at work.                              *)
LEMMA RecordCaseSound ==
  ASSUME Steady, [Next]_vars, NEW w \in workers, RecordCase(w), NEW s \in Sids,
         w.job.sid = s, Sound(s)
  PROVE  Sound(s)'
<1>0. TypeInv /\ TypeOK /\ JobsApart /\ EndsWork(w)
  BY DEF Steady, CaseInv, ScreenInv, TypeInv, EndsWork
<1>1. w.job.kind = "exec" /\ ~FailBuild(w)
  BY DEF RecordCase, FailBuild, Is
<1>2. /\ prof' = prof /\ requests'[s] # 0 /\ ~Serving(s, HandlerPC)'
      /\ w \in ThreadsOf(s) /\ w.job \in JobsOf(s)
      /\ Contains(s) /\ ctx[s].att = 1 /\ ClosersOf(s) = {} /\ w.src = 1
      /\ ~Over(s)' /\ reports'[s][1] = 0 /\ ctx[s].cases = AllCases(s)
      /\ JobsOf(s)' \subseteq JobsOf(s) \ {w.job}
      /\ ThreadsOf(s)' = ThreadsOf(s) \ {w}
  BY <1>0, <1>1, EndFrame
<1>3. w.job.case \in AllCases(s) /\ w.job \in AllJobsOf(s)
  BY <1>0, <1>1, <1>2, BesideThreads
<1>4. AllCases(s) \subseteq Cases /\ ctx[s].rec \in [Cases -> DirVals]
  BY <1>0, CasesType DEF TypeOK, Context
<1>5. PICK rec : rec = [ctx[s].rec EXCEPT ![w.job.case] = 1]
  OBVIOUS
<1>6. /\ ctx'[s].att = ctx[s].att /\ ctx'[s].cases = AllCases(s) /\ ctx'[s].rec = rec
      /\ ctx'[s].prebuilt = ctx[s].prebuilt /\ ctx'[s].compiled = ctx[s].compiled
      /\ ctx'[s].pending = ctx[s].pending
  BY <1>0, <1>2, <1>3, <1>5, RecordEffect
<1>7. /\ rec[w.job.case] = 1
      /\ \A n \in AllCases(s) : n # w.job.case => rec[n] = ctx[s].rec[n]
  BY <1>3, <1>4, <1>5
<1>8. OwnLabels(s)' /\ \A n \in AllCases(s) : rec[n] \in {0, 1}
  <2>1. \A n \in AllCases(s) : ctx[s].rec[n] \in {0, 1}
    BY <1>2 DEF Sound, Entry, OwnLabels
  <2> QED
    BY <1>6, <1>7, <2>1 DEF OwnLabels
<1>9. NoCompile(s)' /\ (Program(s)' <=> Program(s)) /\ Program(s)
  <2>1. Program(s)
    BY <1>1, <1>2 DEF Sound, Work, ThreadsServe
  <2> QED
    BY <1>2, <1>6, <2>1 DEF Sound, Entry, NoCompile, Program
<1>10. AllJobsOf(s)' \subseteq AllJobsOf(s) \ {w.job}
  <2>1. w.job \notin Range(ctx[s].pending)
    BY <1>0, ThreadsJob
  <2> QED
    BY <1>2, <1>6, <2>1 DEF AllJobsOf
<1>11. ASSUME NEW j \in AllJobsOf(s) \ {w.job}
       PROVE  /\ j.kind \notin {"build", "compile"}
              /\ j.kind = "exec" => rec[j.case] = 0 /\ j.case \in AllCases(s)
  <2>1. j.kind \notin {"build", "compile"}
    BY <1>2, <1>9 DEF Sound, Jobs, JobsFit
  <2>2. CASE j.kind = "exec"
    <3>1. j.case # w.job.case
      BY <1>0, <1>1, <1>3, <2>2, SameJob
    <3>2. ~Closing(s)
      BY <1>2 DEF Closing, ClosersOf
    <3>3. ctx[s].rec[j.case] = 0 /\ j.case \in AllCases(s)
      BY <1>2, <2>2, <3>2 DEF Sound, Jobs, CasesOpen, JobsFit
    <3> QED
      BY <1>7, <2>1, <3>1, <3>3
  <2> QED
    BY <2>1, <2>2
<1>12. CASE ~AllRecorded(s, rec)
  <2>1. completing' = completing
    BY <1>2, <1>3, <1>5, <1>12 DEF RecordCase
  <2>2. ClosersOf(s)' = {}
    BY <1>2, <2>1 DEF ClosersOf
  <2>3. \A j \in AllJobsOf(s)' : j.kind \in {"build", "compile"} => ~Program(s)'
    BY <1>10, <1>11
  <2>4. \A j \in AllJobsOf(s)' : j.kind = "exec" => ctx'[s].rec[j.case] = 0
    BY <1>6, <1>10, <1>11
  <2>5. JobsOf(s)' \subseteq JobsOf(s) /\ ThreadsOf(s)' \subseteq ThreadsOf(s)
        /\ ThreadsOf(s) # {}
    BY <1>2
  <2> QED
    BY <1>2, <1>6, <1>8, <1>9, <2>2, <2>3, <2>4, <2>5, GoneSound
<1>13. CASE AllRecorded(s, rec)
  <2>1. \A n \in AllCases(s) : rec[n] = 1
    BY <1>2, <1>8, <1>13 DEF AllRecorded
  <2>2. Complete(w.job, w.lk)
    BY <1>2, <1>3, <1>5, <1>13 DEF RecordCase
  <2>3. PICK d : /\ ClosersOf(s)' = {d} /\ d.pc = "put"
                 /\ d.cases = ctx'[s].cases /\ d.rec = ctx'[s].rec
    BY <1>2, <2>2, OpensOne
  <2>4. ASSUME NEW j \in JobsOf(s), j # w.job PROVE FALSE
    <3>1. j.kind \in {"build", "compile", "exec"} /\ j \in AllJobsOf(s)
      BY <1>0, <1>2, BesideThreads
    <3> QED
      BY <1>11, <2>1, <2>4, <3>1
  <2>5. JobsOf(s)' = {}
    BY <1>2, <2>4
  <2>6. ThreadsOf(s)' = {}
    <3> SUFFICES ASSUME NEW v \in ThreadsOf(s), v # w PROVE FALSE
      BY <1>2
    <3>1. v \in workers /\ v.job \in JobsOf(s)
      BY DEF ThreadsOf, JobsOf, Outside
    <3>2. v.job # w.job
      BY <1>0, <3>1, ThreadsJob
    <3> QED
      BY <2>4, <3>1, <3>2
  <2>7. ctx'[s].att # 0 /\ \A n \in AllCases(s) : ctx'[s].rec[n] = 1
    BY <1>2, <1>6, <2>1
  <2> QED
    BY <1>2, <1>6, <2>3, <2>5, <2>6, <2>7, ClosedSound
<1> QED
  BY <1>12, <1>13

-----------------------------------------------------------------------------
(* The steps of the dispatcher.                                             *)
LEMMA DispatcherFrame ==
  ASSUME Steady, [Next]_vars, DispatcherStep, disp.pc \notin {"loop", "dead"},
         NEW s \in Sids, Cur.sid = s
  PROVE  /\ prof' = prof /\ handlers' = handlers /\ requests' = requests
         /\ reports' = reports /\ backups' = backups
         /\ Cur \in Job /\ Cur \in JobsOf(s) /\ Cur \in AllJobsOf(s)
         /\ requests'[s] # 0 /\ ~Serving(s, HandlerPC) /\ ~Serving(s, HandlerPC)'
<1>0. TypeInv /\ JobsApart /\ Alone /\ AnalysisInHand
  BY DEF Steady, CaseInv, ScreenInv, OnceInv, JobsApart
<1>1. Cur \in Job /\ Cur \in JobsOf(s) /\ Cur \in AllJobsOf(s)
  BY <1>0, HandsJob DEF AllJobsOf
<1>2. handlers' = handlers /\ requests' = requests
  BY <1>0, DispatcherStepMoves DEF JobsApart, Apart, AnalysisInHand
<1>3. reports' = reports /\ backups' = backups
  BY DispatcherLeaves
<1>4. AtWork(s)
  BY <1>1 DEF AtWork, JobsOf
<1>5. requests[s] # 0 /\ ~Serving(s, HandlerPC)
  BY <1>0, <1>4 DEF Alone
<1>6. prof' = prof
  BY ProfStays
<1> QED
  BY <1>1, <1>2, <1>3, <1>5, <1>6 DEF Serving

(* While the analysis or the network set-up of an id is in hand, the id has *)
(* nothing else.                                                            *)
LEMMA AnalysisFrame ==
  ASSUME Steady, disp.pc \in {"sa", "saexc", "net"}, NEW s \in Sids, Cur.sid = s, Sound(s)
  PROVE  /\ Cur.kind \in {"sa", "net"} /\ disp.hand = <<Cur>>
         /\ disp.pc = "sa" => Cur.kind = "sa"
         /\ JobsOf(s) = {Cur} /\ ThreadsOf(s) = {} /\ ClosersOf(s) = {} /\ ~Closing(s)
<1>0. TypeInv /\ JobsApart /\ HandHolds /\ AnalysisInHand
  BY DEF Steady, CaseInv, ScreenInv, JobsApart
<1>1. Cur.kind \in {"sa", "net"} /\ disp.hand = <<Cur>> /\ (disp.pc = "sa" => Cur.kind = "sa")
  BY <1>0 DEF HandHolds, AnalysisInHand
<1>2. Cur \in JobsOf(s)
  BY <1>0, HandsJob
<1>3. /\ JobsOf(s) = {Cur} /\ ThreadsOf(s) = {}
      /\ \A c \in ClosersOf(s) : c.by.kind = "disp"
  BY <1>1, <1>2 DEF Sound, Jobs, AnalysedAlone
<1>4. \A c \in completing : c.by.kind # "disp"
  BY <1>0 DEF TypeInv, DispatcherOwnsOne
<1>5. ClosersOf(s) = {}
  BY <1>3, <1>4 DEF ClosersOf
<1>6. ~Closing(s)
  BY <1>5 DEF Closing, ClosersOf
<1> QED
  BY <1>1, <1>3, <1>5, <1>6

(* A thread is started for an id that has its entry, nobody completes, and  *)
(* is no longer analysed; a case thread only when the program is there.     *)
LEMMA SpawnSound ==
  ASSUME Steady, [Next]_vars, StartBuildThread \/ StartCompileThread \/ StartCaseThread,
         NEW s \in Sids, Cur.sid = s, Sound(s)
  PROVE  Sound(s)'
<1>0. TypeInv /\ JobsApart /\ HandHolds /\ DispatcherStep
  BY DEF Steady, CaseInv, ScreenInv, DispatcherStep
<1>1. /\ disp.pc = "check" /\ Contains(s) /\ Cur.kind \in {"build", "compile", "exec"}
      /\ Cur.kind = "exec" => ~AwaitsCompile(s)
      /\ workers' = workers \cup {MkWorker(Cur)}
      /\ disp'.hand = <<>> /\ queue' = queue /\ ctx' = ctx /\ completing' = completing
  <2>1. /\ disp.pc = "check" /\ Contains(s) /\ Cur.kind \in {"build", "compile", "exec"}
        /\ Loop /\ Spawn(Cur) /\ queue' = queue /\ ctx' = ctx /\ completing' = completing
    BY DEF StartBuildThread, StartCompileThread, StartCaseThread, Ready
  <2>2. Cur.kind = "exec" => ~AwaitsCompile(s)
    BY DEF StartBuildThread, StartCompileThread, StartCaseThread, Ready
  <2> QED
    BY <1>0, <2>1, <2>2, DispForms DEF Spawn
<1>2. /\ prof' = prof /\ handlers' = handlers /\ requests' = requests
      /\ reports' = reports /\ backups' = backups
      /\ Cur \in Job /\ Cur \in JobsOf(s) /\ Cur \in AllJobsOf(s)
  BY <1>0, <1>1, DispatcherFrame
<1>3. ~Closing(s)
  BY <1>1, <1>2 DEF Sound, Work, ClosesAlone
<1>4. \A j \in JobsOf(s) : j.kind \notin {"sa", "net"}
  BY <1>1, <1>2 DEF Sound, Jobs, AnalysedAlone
<1>5. MkWorker(Cur).job = Cur /\ MkWorker(Cur).pc = "start" /\ MkWorker(Cur).back = <<>>
  BY DEF MkWorker
<1>6. Calm(s)
  <2>1. JobsOf(s)' \subseteq JobsOf(s)
    <3>1. Range(<<>>) = {}
      BY RangeFew
    <3>2. Outside' \subseteq Outside
      <4>1. Cur \in Outside
        BY <1>2 DEF JobsOf
      <4> QED
        BY <1>1, <1>5, <3>1, <4>1 DEF Outside
    <3> QED
      BY <3>2 DEF JobsOf
  <2>2. SameEntry(s)
    BY <1>1 DEF SameEntry, SameVerdicts
  <2> QED
    BY <1>1, <1>2, <2>1, <2>2 DEF Calm, ClosersOf, HandlersOf
<1>7. ThreadsServe(s)'
  <2>1. Cur.kind = "exec" => Program(s)
    <3>1. AtWork(s)
      BY <1>2 DEF AtWork, JobsOf
    <3>2. prof[s].compiled \/ ctx[s].prebuilt
      BY <1>1, <3>1 DEF Sound, Entry, Planned
    <3> QED
      BY <1>1, <3>2 DEF AwaitsCompile, Program
  <2>2. Contains(s)' /\ (Program(s)' <=> Program(s))
    BY <1>1 DEF Contains, Program
  <2>3. \A w \in ThreadsOf(s)' : w \in ThreadsOf(s) \/ w = MkWorker(Cur)
    BY <1>1 DEF ThreadsOf
  <2> QED
    BY <1>5, <2>1, <2>2, <2>3 DEF ThreadsServe, Sound, Work
<1> QED
  BY <1>2, <1>3, <1>4, <1>6, <1>7, CalmSound

(* The network job takes the place of the analysis job.                     *)
LEMMA PassAnalysisSound ==
  ASSUME Steady, [Next]_vars, PassAnalysis, NEW s \in Sids, Cur.sid = s, Sound(s)
  PROVE  Sound(s)'
<1>0. TypeInv /\ JobsApart /\ DispatcherStep /\ disp.pc = "sa"
  BY DEF Steady, CaseInv, ScreenInv, DispatcherStep, PassAnalysis
<1>1. /\ Cur.kind = "sa" /\ disp.hand = <<Cur>>
      /\ JobsOf(s) = {Cur} /\ ThreadsOf(s) = {} /\ ClosersOf(s) = {} /\ ~Closing(s)
  BY <1>0, AnalysisFrame
<1>2. /\ prof' = prof /\ handlers' = handlers /\ requests' = requests
      /\ reports' = reports /\ backups' = backups
      /\ Cur \in Job /\ Cur \in JobsOf(s) /\ Cur \in AllJobsOf(s)
      /\ ~Serving(s, HandlerPC)
  BY <1>0, DispatcherFrame
<1>3. PICK j : j = [Cur EXCEPT !.kind = "net"]
  OBVIOUS
<1>4. j \in Job /\ j.kind = "net" /\ j.sid = s /\ j.att = Cur.att
  BY <1>2, <1>3 DEF Job, JobKinds
<1>5. /\ disp'.hand = <<j>> /\ queue' = queue /\ workers' = workers /\ ctx' = ctx
      /\ completing' = completing
  <2>1. At("put", <<j>>)
    BY <1>3 DEF PassAnalysis
  <2> QED
    BY <1>0, <2>1, DispForms DEF PassAnalysis
<1>6. JobsOf(s)' \subseteq {j} /\ ThreadsOf(s)' = {}
  <2>1. Range(<<j>>) = {j}
    BY <1>4, RangeFew
  <2>2. /\ JobsOf(s)' \subseteq (JobsOf(s) \ {Cur}) \cup Range(disp'.hand)
        /\ ThreadsOf(s)' = ThreadsOf(s)
    BY <1>0, <1>1, <1>5, HandChanges
  <2> QED
    BY <1>1, <1>5, <2>1, <2>2
<1>7. /\ ~Closing(s)' /\ ClosersOf(s)' = {}
      /\ \A pcs : Serving(s, pcs)' <=> Serving(s, pcs)
      /\ AllCases(s)' = AllCases(s) /\ (Contains(s)' <=> Contains(s))
      /\ (Program(s)' <=> Program(s)) /\ (Over(s)' <=> Over(s))
      /\ AllJobsOf(s)' \subseteq {j} \cup AllJobsOf(s)
  <2>1. ~Closing(s)' /\ ClosersOf(s)' = {}
    BY <1>1, <1>5 DEF Closing, ClosersOf
  <2>2. \A pcs : Serving(s, pcs)' <=> Serving(s, pcs)
    BY <1>2 DEF Serving
  <2>3. /\ AllCases(s)' = AllCases(s) /\ (Contains(s)' <=> Contains(s))
        /\ (Program(s)' <=> Program(s)) /\ (Over(s)' <=> Over(s))
    BY <1>2, <1>5 DEF AllCases, Contains, Program, Over
  <2>4. AllJobsOf(s)' \subseteq {j} \cup AllJobsOf(s)
    BY <1>5, <1>6 DEF AllJobsOf
  <2> QED
    BY <2>1, <2>2, <2>3, <2>4
<1>8. Cur.att = 1
  BY <1>2 DEF Sound, Jobs, JobsFit
<1>9. Entry(s)'
  <2>1. Before(s)'
    BY <1>2, <1>5, <1>7 DEF Sound, Entry, Before
  <2>2. Planning(s)'
    BY <1>2, <1>5, <1>7 DEF Sound, Entry, Planning
  <2>3. Planned(s)'
    <3>1. AtWork(s)
      BY <1>2 DEF AtWork, JobsOf
    <3> QED
      BY <1>2, <1>5, <1>7, <3>1 DEF Sound, Entry, Planned
  <2>4. NoCompile(s)' /\ OwnLabels(s)'
    BY <1>2, <1>5 DEF Sound, Entry, NoCompile, OwnLabels
  <2> QED
    BY <2>1, <2>2, <2>3, <2>4 DEF Entry
<1>10. Jobs(s)'
  <2>1. JobsFit(s)'
    BY <1>2, <1>4, <1>7, <1>8 DEF Sound, Jobs, JobsFit
  <2>2. PendingKinds(s)'
    BY <1>5 DEF Sound, Jobs, PendingKinds
  <2>3. CasesOpen(s)'
    BY <1>1, <1>4, <1>5, <1>7 DEF Sound, Jobs, CasesOpen
  <2>4. AnalysedAlone(s)'
    BY <1>6, <1>7 DEF AnalysedAlone
  <2> QED
    BY <2>1, <2>2, <2>3, <2>4 DEF Jobs
<1>11. Work(s)'
  <2>1. ClosesAlone(s)' /\ ThreadsServe(s)'
    BY <1>6, <1>7 DEF ClosesAlone, ThreadsServe
  <2>2. Reported(s)'
    BY <1>1, <1>2, <1>7 DEF Sound, Work, Reported
  <2> QED
    BY <2>1, <2>2 DEF Work
<1> QED
  BY <1>9, <1>10, <1>11 DEF Sound

(* The pending jobs follow when the network is there.                       *)
LEMMA FinishNetworkSound ==
  ASSUME Steady, [Next]_vars, FinishNetwork, NEW s \in Sids, Cur.sid = s, Sound(s)
  PROVE  Sound(s)'
<1>0. TypeInv /\ JobsApart /\ DispatcherStep /\ disp.pc = "net"
  BY DEF Steady, CaseInv, ScreenInv, DispatcherStep, FinishNetwork
<1>1. /\ disp.hand = <<Cur>>
      /\ JobsOf(s) = {Cur} /\ ThreadsOf(s) = {} /\ ClosersOf(s) = {} /\ ~Closing(s)
  BY <1>0, AnalysisFrame
<1>2. /\ prof' = prof /\ handlers' = handlers /\ requests' = requests
      /\ reports' = reports /\ backups' = backups
      /\ Cur \in JobsOf(s) /\ ~Serving(s, HandlerPC) /\ ~Serving(s, HandlerPC)'
      /\ requests'[s] # 0
  BY <1>0, DispatcherFrame
<1>3. /\ SameVerdicts(s)
      /\ ctx'[s].prebuilt = ctx[s].prebuilt /\ ctx'[s].compiled = ctx[s].compiled
      /\ ctx'[s].pending = <<>>
  BY <1>0, ReleasedEffect
<1>4. /\ disp'.hand = ctx[s].pending /\ queue' = queue /\ workers' = workers
      /\ completing' = completing
  <2>1. \/ ctx[s].pending = <<>> /\ Loop
        \/ At("put", ctx[s].pending)
    BY DEF FinishNetwork
  <2>2. queue' = queue /\ workers' = workers /\ completing' = completing
    BY DEF FinishNetwork
  <2> QED
    BY <1>0, <2>1, <2>2, DispForms
<1>5. /\ JobsOf(s)' \subseteq Range(ctx[s].pending) /\ ThreadsOf(s)' = {}
      /\ AllJobsOf(s)' \subseteq Range(ctx[s].pending)
      /\ Range(ctx[s].pending) \subseteq AllJobsOf(s)
  <2>1. /\ JobsOf(s)' \subseteq (JobsOf(s) \ {Cur}) \cup Range(disp'.hand)
        /\ ThreadsOf(s)' = ThreadsOf(s)
    BY <1>0, <1>1, <1>4, HandChanges
  <2>2. Range(ctx'[s].pending) = {}
    BY <1>3, RangeFew
  <2>3. JobsOf(s)' \subseteq Range(ctx[s].pending) /\ ThreadsOf(s)' = {}
    BY <1>1, <1>4, <2>1
  <2> QED
    BY <2>2, <2>3 DEF AllJobsOf
<1>6. /\ ~Closing(s)' /\ ClosersOf(s)' = {}
      /\ \A pcs \in SUBSET HandlerPC : ~Serving(s, pcs)'
      /\ AllCases(s)' = AllCases(s) /\ (Contains(s)' <=> Contains(s))
      /\ (Program(s)' <=> Program(s)) /\ (Over(s)' <=> Over(s))
  <2>1. ~Closing(s)' /\ ClosersOf(s)' = {}
    BY <1>1, <1>4 DEF Closing, ClosersOf
  <2>2. \A pcs \in SUBSET HandlerPC : ~Serving(s, pcs)'
    BY <1>2 DEF Serving
  <2>3. /\ AllCases(s)' = AllCases(s) /\ (Contains(s)' <=> Contains(s))
        /\ (Program(s)' <=> Program(s)) /\ (Over(s)' <=> Over(s))
    BY <1>2, <1>3 DEF AllCases, Contains, Program, Over, SameVerdicts
  <2> QED
    BY <2>1, <2>2, <2>3
<1>7. Entry(s)'
  <2>1. Before(s)' /\ Planning(s)'
    BY <1>2, <1>6 DEF Before, Planning, HandlerPC
  <2>2. Planned(s)'
    <3>1. AtWork(s)
      BY <1>2 DEF AtWork, JobsOf
    <3> QED
      BY <1>2, <1>3, <1>6, <3>1 DEF Sound, Entry, Planned, SameVerdicts
  <2>3. NoCompile(s)' /\ OwnLabels(s)'
    BY <1>2, <1>3 DEF Sound, Entry, NoCompile, OwnLabels, SameVerdicts
  <2> QED
    BY <2>1, <2>2, <2>3 DEF Entry
<1>8. \A j \in Range(ctx[s].pending) : j.kind \in {"build", "compile", "exec"}
  BY DEF Sound, Jobs, PendingKinds
<1>9. Jobs(s)'
  <2>1. JobsFit(s)'
    BY <1>2, <1>5, <1>6 DEF Sound, Jobs, JobsFit
  <2>2. PendingKinds(s)'
    BY <1>5, <1>8 DEF PendingKinds, AllJobsOf
  <2>3. CasesOpen(s)'
    BY <1>1, <1>3, <1>5, <1>6 DEF Sound, Jobs, CasesOpen, SameVerdicts
  <2>4. AnalysedAlone(s)'
    BY <1>5, <1>8 DEF AnalysedAlone
  <2> QED
    BY <2>1, <2>2, <2>3, <2>4 DEF Jobs
<1>10. Work(s)'
  <2>1. ClosesAlone(s)' /\ ThreadsServe(s)'
    BY <1>5, <1>6 DEF ClosesAlone, ThreadsServe
  <2>2. Reported(s)'
    BY <1>1, <1>2, <1>6 DEF Sound, Work, Reported
  <2> QED
    BY <2>1, <2>2 DEF Work
<1> QED
  BY <1>7, <1>9, <1>10 DEF Sound

(* The dispatcher completes a submission when nothing of it has been        *)
(* released yet.                                                            *)
LEMMA FailSubmissionSound ==
  ASSUME Steady, [Next]_vars, FailAnalysis \/ RaiseAnalysis \/ FailNetwork,
         NEW s \in Sids, Cur.sid = s, Sound(s)
  PROVE  Sound(s)'
<1>0. TypeInv /\ TypeOK /\ JobsApart /\ DispatcherStep /\ disp.pc \in {"sa", "saexc", "net"}
  BY DEF Steady, CaseInv, ScreenInv, TypeInv, DispatcherStep, FailAnalysis,
         RaiseAnalysis, FailNetwork
<1>1. /\ Cur.kind \in {"sa", "net"} /\ disp.hand = <<Cur>>
      /\ JobsOf(s) = {Cur} /\ ThreadsOf(s) = {} /\ ClosersOf(s) = {} /\ ~Closing(s)
  BY <1>0, AnalysisFrame
<1>2. /\ prof' = prof /\ handlers' = handlers /\ requests' = requests
      /\ reports' = reports /\ backups' = backups
      /\ Cur \in Job /\ Cur \in JobsOf(s)
      /\ ~Serving(s, HandlerPC) /\ ~Serving(s, HandlerPC)'
      /\ requests'[s] # 0
  BY <1>0, DispatcherFrame
<1>3. queue' = queue /\ workers' = workers
  BY DEF FailAnalysis, RaiseAnalysis, FailNetwork
<1>4. PICK label, fatal : /\ FailSubmission(label, fatal)
                          /\ label = CommonDir(s) \/ label = ctx[s].att
  BY DEF FailAnalysis, RaiseAnalysis, FailNetwork
<1>5. /\ JobsOf(s)' \subseteq {Cur} /\ ThreadsOf(s)' = {}
  <2>1. disp'.hand = <<>> \/ disp'.hand = <<Cur>>
    <3>1. Loop \/ Reports(fatal)
      BY <1>4 DEF FailSubmission, Reports
    <3> QED
      BY <1>0, <1>1, <3>1, DispForms
  <2>2. Range(disp'.hand) \subseteq {Cur}
    BY <1>2, <2>1, RangeFew
  <2>3. /\ JobsOf(s)' \subseteq (JobsOf(s) \ {Cur}) \cup Range(disp'.hand)
        /\ ThreadsOf(s)' = ThreadsOf(s)
    BY <1>0, <1>1, <1>3, HandChanges
  <2> QED
    BY <1>1, <2>2, <2>3
<1>6. CASE ~Contains(s)
  <2>1. ctx' = ctx /\ completing' = completing
    BY <1>4, <1>6 DEF FailSubmission
  <2>2. Quiet(s)
    <3>1. SameEntry(s)
      BY <2>1 DEF SameEntry, SameVerdicts
    <3>2. ClosersOf(s)' = ClosersOf(s) /\ HandlersOf(s)' = HandlersOf(s)
      BY <1>2, <2>1 DEF ClosersOf, HandlersOf
    <3>3. JobsOf(s)' \subseteq JobsOf(s)
      BY <1>1, <1>5
    <3> QED
      BY <1>2, <1>5, <3>1, <3>2, <3>3 DEF Quiet, Calm
  <2> QED
    BY <1>2, <2>2, QuietSound
<1>7. CASE Contains(s)
  <2>1. FailAll(s, ctx[s].att, label) /\ Complete(DispThread(s), 0)
    BY <1>4, <1>7 DEF FailSubmission
  <2>2. ctx[s].att = 1
    <3>1. ctx[s].att \in Nat /\ ctx[s].att <= requests[s] /\ requests[s] <= 1
          /\ requests[s] \in Nat /\ ctx[s].att # 0
      BY <1>0, <1>7, ConstantsAssumption
         DEF CaseInv, OwnEntry, Steady, Once, TypeOK, Context, Contains
    <3> QED
      BY <3>1
  <2>3. label = 1 /\ ~Over(s)
    BY <1>1, <1>4, <1>7, <2>2, FilesInPlace
  <2>4. /\ ctx'[s].att # 0 /\ ctx'[s].cases = AllCases(s)
        /\ \A n \in AllCases(s) : ctx'[s].rec[n] = 1
        /\ ctx'[s].prebuilt = ctx[s].prebuilt /\ ctx'[s].compiled = ctx[s].compiled
        /\ ctx'[s].pending = ctx[s].pending
    BY <1>0, <2>1, <2>2, <2>3, FailAllEffect
  <2>5. DispThread(s).sid = s /\ DispThread(s).kind = "disp"
    BY DEF DispThread, MkJob
  <2>6. PICK d : /\ ClosersOf(s)' = {d} /\ d.by = DispThread(s) /\ d.pc = "put"
                 /\ d.cases = ctx'[s].cases /\ d.rec = ctx'[s].rec
    BY <1>1, <2>1, <2>5, OpensOne
  <2>7. ~Over(s)' /\ reports'[s][1] = 0
    BY <1>0, <1>2, <2>3, NotOver
  <2>8. \A j \in JobsOf(s)' :
          j.kind \in {"sa", "net"} /\ JobsOf(s)' = {j} /\ d.by.kind = "disp"
    BY <1>1, <1>5, <2>5, <2>6
  <2>9. JobsOf(s)' \subseteq JobsOf(s)
    BY <1>1, <1>5
  <2> QED
    BY <1>2, <1>5, <1>7, <2>4, <2>6, <2>7, <2>8, <2>9, ClosedSound
<1> QED
  BY <1>6, <1>7

-----------------------------------------------------------------------------
(* The one thread that completes an id reports it, puts its files away and  *)
(* forgets it.                                                              *)
LEMMA CompletionFrame ==
  ASSUME Steady, [Next]_vars, NEW c \in completing, CompletionStep(c), NEW s \in Sids,
         c.by.sid = s, Sound(s)
  PROVE  /\ prof' = prof /\ requests'[s] # 0 /\ ~Serving(s, HandlerPC)'
         /\ ClosersOf(s) = {c} /\ ThreadsOf(s) = {} /\ ThreadsOf(s)' = {}
         /\ JobsOf(s)' \subseteq JobsOf(s)
         /\ ctx'[s] = ctx[s] \/ ctx'[s] = NoContext
         /\ \/ ClosersOf(s)' = {} /\ ~Contains(s)
            \/ \E d : /\ ClosersOf(s)' = {d} /\ d.by = c.by /\ d.pc # "put"
                      /\ d.cases = c.cases /\ d.rec = c.rec
         /\ reports'[s][1] <= 1
<1>0. TypeInv /\ TypeOK /\ JobsApart /\ Alone /\ Prepared /\ FilesSafe
  BY DEF Steady, CaseInv, ScreenInv, TypeInv, OnceInv
<1>1. Closing(s) /\ ThreadsOf(s) = {} /\ ClosersOf(s) = {c}
  <2>1. c \in ClosersOf(s) /\ Closing(s)
    BY DEF ClosersOf, Closing
  <2> QED
    BY <2>1 DEF Sound, Work, ClosesAlone
<1>2. requests[s] # 0 /\ ~Serving(s, HandlerPC)
  BY <1>0, <1>1 DEF Alone
<1>3. handlers' = handlers /\ requests' = requests
  BY <1>0, CompletionStepMoves DEF JobsApart, Apart
<1>4. /\ queue' = queue /\ workers' = workers
      /\ disp' = disp \/ \E raised : disp' = AfterCompletion(raised)
  BY DEF CompletionStep, PutResult, CleanData, BackupData, ReleaseContext, ReleaseCustom
<1>5. Range(disp'.hand) \subseteq Range(disp.hand)
  <2>1. disp'.hand = disp.hand \/ disp'.hand = <<>>
    BY <1>0, <1>4, DispForms
  <2> QED
    BY <2>1, RangeFew
<1>6. JobsOf(s)' \subseteq JobsOf(s) /\ ThreadsOf(s)' = {}
  BY <1>1, <1>4, <1>5 DEF JobsOf, Outside, ThreadsOf
<1>7. ctx'[s] = ctx[s] \/ ctx'[s] = NoContext
  <2>1. ctx' = ctx \/ ForgetContext(s)
    BY DEF CompletionStep, PutResult, CleanData, BackupData, ReleaseContext, ReleaseCustom
  <2> QED
    BY <1>0, <2>1, ForgetEffect
<1>8. \/ ClosersOf(s)' = {} /\ ~Contains(s)
      \/ \E d : /\ ClosersOf(s)' = {d} /\ d.by = c.by /\ d.pc # "put"
                /\ d.cases = c.cases /\ d.rec = c.rec
  <2>1. CASE completing' = completing \ {c} /\ ReleaseCustom(c)
    <3>1. ~Contains(s)
      BY <1>0, <2>1 DEF Prepared, ReleaseCustom
    <3>2. ClosersOf(s)' = {}
      BY <1>1, <2>1 DEF ClosersOf
    <3> QED
      BY <3>1, <3>2
  <2>2. CASE \E d : completing' = (completing \ {c}) \cup {d} /\ Continues(c, d)
    <3>1. PICK d : completing' = (completing \ {c}) \cup {d} /\ Continues(c, d)
      BY <2>2
    <3>2. d.by = c.by /\ d.cases = c.cases /\ d.rec = c.rec /\ d.pc # "put"
      BY <3>1 DEF Continues
    <3>3. ClosersOf(s)' = {d}
      BY <1>1, <3>1, <3>2 DEF ClosersOf
    <3> QED
      BY <3>2, <3>3
  <2> QED
    BY <1>0, <2>1, <2>2, CompletionMove
<1>9. reports'[s][1] <= 1
  <2>1. reports \in [Sids -> [Attempts -> 0..2]] /\ 1 \in Attempts
    BY <1>0, Numbers DEF TypeOK
  <2>2. reports[s][1] \in 0..2 /\ reports[s][1] <= 1
    BY <2>1 DEF Sound, Work, Reported
  <2>3. CASE reports' = reports
    BY <2>2, <2>3
  <2>4. CASE PutResult(c) /\ CountReport(c)
    <3>1. ~Over(s) /\ c.att = 1
      BY <1>0, <1>1, <2>4 DEF Sound, Work, Reported, PutResult, FilesSafe
    <3>5. reports[s][1] = 0
      BY <2>2, <3>1 DEF Over
    <3>2. PICK n : n = IF reports[s][1] < 2 THEN reports[s][1] + 1 ELSE 2
      OBVIOUS
    <3>3. reports' = [reports EXCEPT ![s][1] = n]
      BY <2>4, <3>1, <3>2 DEF CountReport
    <3>4. reports'[s][1] = n
      BY <2>1, <3>3
    <3> QED
      BY <3>2, <3>4, <3>5
  <2>5. reports' = reports \/ (PutResult(c) /\ CountReport(c))
    BY DEF CompletionStep, PutResult, CleanData, BackupData, ReleaseContext,
           ReleaseCustom, ghost
  <2> QED
    BY <2>3, <2>4, <2>5
<1>10. prof' = prof /\ requests'[s] # 0 /\ ~Serving(s, HandlerPC)'
  BY <1>2, <1>3, ProfStays DEF Serving
<1> QED
  BY <1>1, <1>6, <1>7, <1>8, <1>9, <1>10

(* The steps of a completion: PUT, clean or back up, release.               *)
LEMMA CompletionSound ==
  ASSUME Steady, [Next]_vars, NEW c \in completing, CompletionStep(c), NEW s \in Sids,
         c.by.sid = s, Sound(s)
  PROVE  Sound(s)'
<1>1. /\ prof' = prof /\ requests'[s] # 0 /\ ~Serving(s, HandlerPC)'
      /\ ClosersOf(s) = {c} /\ ThreadsOf(s) = {} /\ ThreadsOf(s)' = {}
      /\ JobsOf(s)' \subseteq JobsOf(s)
      /\ ctx'[s] = ctx[s] \/ ctx'[s] = NoContext
      /\ \/ ClosersOf(s)' = {} /\ ~Contains(s)
         \/ \E d : /\ ClosersOf(s)' = {d} /\ d.by = c.by /\ d.pc # "put"
                   /\ d.cases = c.cases /\ d.rec = c.rec
      /\ reports'[s][1] <= 1
  BY CompletionFrame
<1>2. Entry(s) /\ Jobs(s) /\ Work(s) /\ Closing(s)
  BY <1>1 DEF Sound, Closing, ClosersOf
<1>3. /\ \A pcs \in SUBSET HandlerPC : ~Serving(s, pcs)'
      /\ AllCases(s)' = AllCases(s) /\ (AtWork(s)' => AtWork(s))
  BY <1>1 DEF Serving, AllCases, AtWork, JobsOf
<1>4. NoContext.att = 0 /\ NoContext.cases = {} /\ NoContext.pending = <<>>
      /\ NoContext.compiled = "none"
  BY DEF NoContext
<1>5. /\ Contains(s)' => Contains(s) /\ ctx'[s] = ctx[s]
      /\ AllJobsOf(s)' \subseteq AllJobsOf(s)
      /\ Range(ctx'[s].pending) \subseteq Range(ctx[s].pending)
  <2>1. CASE ctx'[s] = ctx[s]
    BY <1>1, <2>1 DEF Contains, AllJobsOf
  <2>2. CASE ctx'[s] = NoContext
    <3>1. Range(ctx'[s].pending) = {}
      BY <1>4, <2>2, RangeFew
    <3> QED
      BY <1>1, <1>4, <2>2, <3>1 DEF Contains, AllJobsOf
  <2> QED
    BY <1>1, <2>1, <2>2
<1>6. Contains(s)' => (Program(s)' <=> Program(s)) /\ (AwaitsCompile(s)' <=> AwaitsCompile(s))
  BY <1>1, <1>5 DEF Program, AwaitsCompile
<1>7. Entry(s)'
  <2>1. Before(s)' /\ Planning(s)'
    BY <1>1, <1>3 DEF Before, Planning, HandlerPC
  <2>2. Planned(s)'
    <3>1. ~Serving(s, {"enqueue"})'
      BY <1>3 DEF HandlerPC
    <3> QED
      BY <1>1, <1>2, <1>3, <1>5, <3>1 DEF Entry, Planned
  <2>3. NoCompile(s)' /\ OwnLabels(s)'
    BY <1>1, <1>2, <1>4 DEF Entry, NoCompile, OwnLabels
  <2> QED
    BY <2>1, <2>2, <2>3 DEF Entry
<1>8. Jobs(s)'
  <2>1. JobsFit(s)'
    BY <1>1, <1>2, <1>3, <1>5, <1>6 DEF Jobs, JobsFit
  <2>2. PendingKinds(s)'
    BY <1>2, <1>5 DEF Jobs, PendingKinds
  <2>3. CasesOpen(s)'
    BY <1>1, <1>5 DEF CasesOpen, Closing, ClosersOf
  <2>4. AnalysedAlone(s)'
    BY <1>1, <1>2 DEF Jobs, AnalysedAlone
  <2> QED
    BY <2>1, <2>2, <2>3, <2>4 DEF Jobs
<1>9. Work(s)'
  <2>1. ClosesAlone(s)'
    BY <1>1, <1>2, <1>5, <1>6 DEF Work, ClosesAlone
  <2>2. ThreadsServe(s)'
    BY <1>1 DEF ThreadsServe
  <2>3. Reported(s)'
    BY <1>1, <1>2, <1>3, <1>5 DEF Work, Reported
  <2> QED
    BY <2>1, <2>2, <2>3 DEF Work
<1> QED
  BY <1>7, <1>8, <1>9 DEF Sound

-----------------------------------------------------------------------------
(* Every step keeps an id sound.                                            *)
LEMMA SoundStep ==
  ASSUME Steady, Once', [Next]_vars, NEW s \in Sids, Sound(s)
  PROVE  Sound(s)'
<1>1. CASE Quiet(s)
  BY <1>1, ProfStays, QuietSound
<1>2. CASE CreateDir(s) \/ FindLeftover(s)
  BY <1>2, ArrivalSound
<1>3. CASE \E h \in handlers : h.sid = s /\ HandlerStep(h)
  BY <1>3, FailRequestSound, RegisterSound, PlanSound, EnqueueSound, EarlySound
<1>4. CASE \E c \in completing : c.by.sid = s /\ CompletionStep(c)
  BY <1>4, CompletionSound
<1>5. CASE \E w \in workers : w.job.sid = s /\ EndsWork(w)
  <2>1. PICK w \in workers : w.job.sid = s /\ EndsWork(w)
    BY <1>5
  <2>2. CASE FinishCompile(w) \/ FinishBuild(w)
    BY <2>1, <2>2, FinishToolSound
  <2>3. CASE FailBuild(w)
    BY <2>1, <2>3, FailBuildQuiet, ProfStays, QuietSound
  <2>4. CASE MarkBuildFailed(w)
    BY <2>1, <2>4, MarkBuildFailedSound
  <2>5. CASE NoTeacher(w)
    BY <2>1, <2>5, TeacherThere
  <2>6. CASE RecordCase(w)
    BY <2>1, <2>6, RecordCaseSound
  <2> QED
    BY <2>1, <2>2, <2>3, <2>4, <2>5, <2>6 DEF EndsWork
<1>6. CASE /\ Cur.sid = s
           /\ StartBuildThread \/ StartCompileThread \/ StartCaseThread \/ PassAnalysis
                \/ Decides
  BY <1>6, SpawnSound, PassAnalysisSound, FinishNetworkSound, FailSubmissionSound
     DEF Decides
<1> QED
  BY <1>1, <1>2, <1>3, <1>4, <1>5, <1>6, QuietOrLoud DEF Loud

(* At the start there is nothing of any id.                                 *)
LEMMA InitSound == Init => \A s \in Sids : Sound(s)
<1> SUFFICES ASSUME Init, NEW s \in Sids PROVE Sound(s)
  OBVIOUS
<1>1. /\ ctx[s] = NoContext /\ requests[s] = 0 /\ reports[s][1] = 0
      /\ backups = {} /\ handlers = {} /\ workers = {} /\ completing = {}
      /\ queue = <<>> /\ disp.hand = <<>> /\ disp.pc = "loop"
  BY Numbers DEF Init
<1>2. /\ ctx[s].att = 0 /\ ctx[s].cases = {} /\ ctx[s].pending = <<>>
      /\ ctx[s].compiled = "none"
  BY <1>1 DEF NoContext
<1>3. /\ JobsOf(s) = {} /\ AllJobsOf(s) = {} /\ Range(ctx[s].pending) = {}
  BY <1>1, <1>2, RangeFew DEF JobsOf, AllJobsOf, Outside
<1>4. /\ ~Contains(s) /\ ~Over(s) /\ ~Closing(s) /\ ThreadsOf(s) = {} /\ ClosersOf(s) = {}
      /\ \A pcs : ~Serving(s, pcs)
  BY <1>1, <1>2 DEF Contains, Over, Closing, ThreadsOf, ClosersOf, Serving
<1>5. Entry(s)
  BY <1>1, <1>2, <1>4 DEF Entry, Before, Planning, Planned, NoCompile, OwnLabels
<1>6. Jobs(s)
  BY <1>3, <1>4 DEF Jobs, JobsFit, PendingKinds, CasesOpen, AnalysedAlone
<1>7. Work(s)
  BY <1>1, <1>4 DEF Work, ClosesAlone, ThreadsServe, Reported
<1> QED
  BY <1>5, <1>6, <1>7 DEF Sound

(* Nobody reports for a request that was never made.                        *)
OnlyFirst == \A s \in Sids, a \in Attempts : a # 1 => reports[s][a] = 0
LEMMA OnlyFirstStep ==
  ASSUME Steady, [Next]_vars, OnlyFirst
  PROVE  OnlyFirst'
<1>0. TypeInv /\ FilesSafe
  BY DEF Steady, CaseInv, ScreenInv, OnceInv
<1>1. CASE reports' = reports
  BY <1>1 DEF OnlyFirst
<1>2. CASE \E c \in completing : PutResult(c) /\ CountReport(c)
  <2>1. PICK c \in completing : PutResult(c) /\ CountReport(c)
    BY <1>2
  <2>2. c.by.sid \in Sids /\ c.att = 1
    BY <1>0 DEF TypeInv, TypeOK, Completion, Owner, FilesSafe
  <2>3. reports \in [Sids -> [Attempts -> 0..2]]
    BY <1>0 DEF TypeInv, TypeOK
  <2>4. PICK n : n = IF reports[c.by.sid][1] < 2 THEN reports[c.by.sid][1] + 1 ELSE 2
    OBVIOUS
  <2>5. reports' = [reports EXCEPT ![c.by.sid][1] = n]
    BY <2>1, <2>2, <2>4 DEF CountReport
  <2>6. \A s \in Sids, a \in Attempts : a # 1 => reports'[s][a] = reports[s][a]
    BY <2>2, <2>3, <2>5
  <2> QED
    BY <2>6 DEF OnlyFirst
<1>3. reports' = reports \/ \E c \in completing : PutResult(c) /\ CountReport(c)
  <2>1. CASE CompletionsStep
    <3>1. PICK c \in completing : CompletionStep(c)
      BY <2>1 DEF CompletionsStep
    <3>2. CASE PutResult(c)
      BY <3>2 DEF PutResult
    <3>3. CASE ~PutResult(c)
      BY <3>1, <3>3 DEF CompletionStep, CleanData, BackupData, ReleaseContext,
                        ReleaseCustom, ghost
    <3> QED
      BY <3>2, <3>3
  <2>2. CASE HandlersStep
    BY <1>0, <2>2, HandlerLeaves DEF HandlersStep
  <2>3. CASE WorkersStep
    BY <1>0, <2>3, WorkerLeaves DEF WorkersStep
  <2>4. CASE DispatcherStep
    BY <1>0, <2>4, DispatcherLeaves
  <2>5. CASE Request \/ Clock \/ Idle \/ UNCHANGED vars
    BY <1>0, <2>5, RestLeaves
  <2> QED
    BY <2>1, <2>2, <2>3, <2>4, <2>5 DEF Next
<1> QED
  BY <1>1, <1>2, <1>3

(* A job that is outside the pending list was accepted.                     *)
JobsAccepted == \A s \in Sids : AtWork(s) => <<s, 1>> \in accepted
LEMMA JobsAcceptedStep ==
  ASSUME Steady, Once', [Next]_vars, JobsAccepted
  PROVE  JobsAccepted'
<1>0. TypeInv /\ PendingOwn /\ HandlersApart
  BY DEF Steady, CaseInv, ScreenInv, JobsApart
<1> SUFFICES ASSUME NEW s \in Sids, AtWork(s)' PROVE <<s, 1>> \in accepted'
  BY DEF JobsAccepted
<1>1. CASE AtWork(s)
  <2>1. accepted \subseteq accepted'
    BY <1>0, HistoryChange
  <2> QED
    BY <1>1, <2>1 DEF JobsAccepted
<1>2. CASE \E h \in handlers : h.sid = s /\ Enqueue(h)
  <2>1. PICK h \in handlers : h.sid = s /\ Enqueue(h)
    BY <1>2
  <2>2. h.att = 1
    BY <1>0, OneHandler DEF Steady
  <2> QED
    BY <2>1, <2>2 DEF Enqueue
<1> QED
  BY <1>0, <1>1, <1>2, JobOrigin

(* A thread has no files before it has found its directory.                 *)
StartsBare == \A w \in workers : w.pc = "start" => w.src = NoDir
LEMMA StartsBareStep ==
  ASSUME TypeInv, [Next]_vars, StartsBare
  PROVE  StartsBare'
<1> SUFFICES ASSUME NEW v \in workers', v.pc = "start" PROVE v.src = NoDir
  BY DEF StartsBare
<1>1. CASE v \in workers
  BY <1>1 DEF StartsBare
<1>2. ~\E w \in workers : GoesOn(w, v)
  BY DEF GoesOn
<1>3. CASE v = MkWorker(Cur)
  BY <1>3 DEF MkWorker
<1> QED
  BY <1>1, <1>2, <1>3, WorkerOrigin

(* What is analysed has its entry.                                          *)
AnalysedThere == disp.pc = "sa" => Contains(Cur.sid)
LEMMA AnalysedThereStep ==
  ASSUME Steady, \A s \in Sids : Sound(s), [Next]_vars, AnalysedThere
  PROVE  AnalysedThere'
<1>0. TypeInv /\ HandHolds
  BY DEF Steady, CaseInv, ScreenInv
<1> SUFFICES ASSUME disp'.pc = "sa" PROVE Contains(Cur.sid)'
  BY DEF AnalysedThere
<1>1. CASE StartAnalysis
  <2>1. At("sa", disp.hand) /\ ctx' = ctx /\ Contains(Cur.sid)
    BY <1>1 DEF StartAnalysis, Ready
  <2>2. disp'.hand = disp.hand
    BY <1>0, <2>1, DispForms
  <2> QED
    BY <2>1, <2>2 DEF Contains, Cur
<1>2. CASE disp' = disp
  <2>1. disp.pc = "sa" /\ Cur' = Cur /\ Contains(Cur.sid)
    BY <1>2 DEF AnalysedThere, Cur
  <2>2. Cur.sid \in Sids
    BY <1>0, <2>1, CurType
  <2>3. /\ ThreadsOf(Cur.sid) = {} /\ ClosersOf(Cur.sid) = {}
        /\ ~Serving(Cur.sid, HandlerPC)
    <3>1. AtWork(Cur.sid)
      BY <1>0, <2>1, CurAtWork
    <3>2. ~Serving(Cur.sid, HandlerPC)
      BY <2>2, <3>1 DEF Steady, OnceInv, Alone
    <3> QED
      BY <2>1, <2>2, <3>2, AnalysisFrame
  <2>4. ~\E h \in handlers : h.sid = Cur.sid
    BY <1>0, <2>3 DEF Serving, TypeInv, TypeOK, Handler
  <2>5. ~Decides
    <3>1. \A f \in BOOLEAN : disp' # [disp EXCEPT !.pc = "report", !.fatal = f]
      BY <1>0, <1>2, <2>1 DEF TypeInv, TypeOK
    <3>2. ~Loop
      BY <1>0, <1>2, <2>1, DispForms
    <3> QED
      BY <2>1, <3>1, <3>2 DEF Decides, FailAnalysis, RaiseAnalysis, FinishNetwork,
                              FailNetwork, FailSubmission
  <2>6. SameEntry(Cur.sid)
    BY <1>0, <2>2, <2>3, <2>4, <2>5, EntryChange DEF ThreadsOf, ClosersOf
  <2> QED
    BY <2>1, <2>6 DEF SameEntry, SameVerdicts, Contains
<1>3. disp' = disp \/ StartAnalysis
  <2>1. CASE CompletionsStep
    <3>1. PICK c \in completing : CompletionStep(c)
      BY <2>1 DEF CompletionsStep
    <3>2. disp' = disp \/ \E raised : disp' = AfterCompletion(raised)
      BY <3>1 DEF CompletionStep, PutResult, CleanData, BackupData, ReleaseContext,
                  ReleaseCustom
    <3> QED
      BY <1>0, <3>2, DispForms
  <2>2. CASE DispatcherStep
    <3>1. \A pc, hand : At(pc, hand) => pc = "sa"
      BY <1>0, DispForms
    <3>2. ~Loop
      BY <1>0, DispForms
    <3>3. ~\E f \in BOOLEAN : disp' = [disp EXCEPT !.pc = "report", !.fatal = f]
      BY <1>0 DEF TypeInv, TypeOK
    <3> QED
      BY <2>2, <3>1, <3>2, <3>3 DEF DispatcherStep, TakeJob, DropTimedOut, DeferTrial,
         LoseDispatcher, StartNetwork, StartBuildThread, StartCompileThread,
         StartCaseThread, Requeue, PutJob, PassAnalysis, FailAnalysis, RaiseAnalysis,
         FinishNetwork, FailNetwork, FailSubmission
  <2>3. CASE HandlersStep
    BY <2>3 DEF HandlersStep, HandlerStep, ForgetLeftover, WipeLeftover, CreateAgain,
       MarkTrial, CheckRequest, FailRequest, Register, PlanTasks, Enqueue, RejectFull,
       UnwindRequest
  <2>4. CASE WorkersStep
    BY <2>4 DEF WorkersStep, WorkerStep, StartCompile, FinishCompile, StartBuild,
       FinishBuild, FailBuild, ClearJobs, PutBack, MarkBuildFailed, PrepareCase,
       NoTeacher, RunCase, EndRun, FetchLock, RecordCase, RaiseInTool
  <2>5. CASE Request \/ Clock \/ Idle \/ UNCHANGED vars
    BY <2>5 DEF Request, Clock, CreateDir, FindLeftover, Expire, Idle, vars
  <2> QED
    BY <2>1, <2>2, <2>3, <2>4, <2>5 DEF Next
<1> QED
  BY <1>1, <1>2, <1>3

Orderly == OnlyFirst /\ JobsAccepted /\ StartsBare /\ AnalysedThere

-----------------------------------------------------------------------------
(* The invariant: while every id is requested once and every problem is     *)
(* well posed, every id is sound.                                           *)
SoundHolds ==
  OnceHolds /\ (Once /\ WellPosed => Orderly /\ \A s \in Sids : Sound(s))

(* The invariant holds in every reachable state.                            *)
LEMMA SoundHolding == Spec => []SoundHolds
<1>1. Init => SoundHolds
  <2>1. Init => Orderly
    <3> SUFFICES ASSUME Init PROVE Orderly
      OBVIOUS
    <3>1. /\ workers = {} /\ disp.pc = "loop" /\ OnlyFirst
          /\ queue = <<>> /\ disp.hand = <<>>
      BY DEF Init, OnlyFirst
    <3>2. Outside = {}
      BY <3>1, RangeFew DEF Outside
    <3> QED
      BY <3>1, <3>2 DEF Orderly, JobsAccepted, AtWork, StartsBare, AnalysedThere
  <2> QED
    BY <2>1, InitCases, InitOnce, InitSound DEF SoundHolds, OnceHolds
<1>2. SoundHolds /\ [Next]_vars => SoundHolds'
  <2> SUFFICES ASSUME SoundHolds, [Next]_vars PROVE SoundHolds'
    OBVIOUS
  <2>1. CaseInv' /\ OwnEntry'
    BY CaseStep DEF SoundHolds, OnceHolds, CaseInv
  <2>2. DirsOwn' /\ (Once' => OnceInv')
    BY <2>1, OnceStep DEF SoundHolds, OnceHolds
  <2>3. ASSUME Once', WellPosed' PROVE Orderly' /\ \A s \in Sids : Sound(s)'
    <3>1. Once /\ WellPosed
      <4>1. TypeInv
        BY DEF SoundHolds, OnceHolds, CaseInv, ScreenInv
      <4> QED
        BY <2>3, <4>1, RequestsGrow, ProfStays DEF WellPosed
    <3>2. Steady /\ Orderly /\ \A s \in Sids : Sound(s)
      BY <3>1 DEF SoundHolds, OnceHolds, Steady
    <3>3. OnlyFirst' /\ JobsAccepted' /\ AnalysedThere'
      BY <2>3, <3>2, OnlyFirstStep, JobsAcceptedStep, AnalysedThereStep DEF Orderly
    <3>4. StartsBare'
      BY <3>2, StartsBareStep DEF Orderly, Steady, CaseInv, ScreenInv
    <3> QED
      BY <2>3, <3>2, <3>3, <3>4, SoundStep DEF Orderly
  <2> QED
    BY <2>1, <2>2, <2>3 DEF SoundHolds, OnceHolds
<1> QED
  BY <1>1, <1>2, PTL DEF Spec

(* A well-posed submission that was requested once is reported at most      *)
(* once, although every thread of it, its handler and the dispatcher may    *)
(* complete it: whoever does is the last one that works for it.             *)
THEOREM OneReport == Spec => [](Once /\ WellPosed => ReportedOnce)
<1>1. SoundHolds => (Once /\ WellPosed => ReportedOnce)
  <2> SUFFICES ASSUME SoundHolds, Once, WellPosed, NEW s \in Sids, NEW a \in Attempts
               PROVE  reports[s][a] + Cardinality({c \in completing :
                         c.by.sid = s /\ c.att = a /\ c.pc = "put"}) <= 1
    BY DEF ReportedOnce
  <2> DEFINE putting == {c \in completing : c.by.sid = s /\ c.att = a /\ c.pc = "put"}
  <2>1. Sound(s) /\ OnlyFirst /\ FilesSafe /\ TypeOK /\ 1 \in Attempts
    BY Numbers DEF SoundHolds, Orderly, OnceHolds, CaseInv, ScreenInv, TypeInv, OnceInv
  <2>2. reports[s][a] \in 0..2 /\ reports[s][a] <= 1
    BY <2>1 DEF TypeOK, OnlyFirst, Sound, Work, Reported
  <2>3. CASE putting = {}
    <3>1. Cardinality(putting) = 0
      BY <2>3, FS_EmptySet
    <3> QED
      BY <2>2, <3>1
  <2>4. CASE putting # {}
    <3>1. PICK c : c \in putting
      BY <2>4
    <3>2. c \in ClosersOf(s) /\ Closing(s) /\ a = 1 /\ ~Over(s)
      BY <2>1, <3>1 DEF FilesSafe, ClosersOf, Closing, Sound, Work, Reported
    <3>3. \A d \in putting : d = c
      BY <2>1, <3>2 DEF Sound, Work, ClosesAlone, ClosersOf
    <3>4. putting = {c}
      BY <3>1, <3>3
    <3>5. Cardinality(putting) = 1
      BY <3>4, FS_Singleton
    <3>6. reports[s][a] = 0
      BY <2>2, <3>2 DEF Over
    <3> QED
      BY <3>5, <3>6
  <2> QED
    BY <2>3, <2>4
<1> QED
  BY <1>1, SoundHolding, PTL

(* And the result that is reported lists all its cases, each judged from    *)
(* the files of that very request: no verdict is missing, and none is a     *)
(* stranger's.                                                              *)
THEOREM OwnVerdicts == Spec => [](Once /\ WellPosed => ReportsOwnVerdicts)
<1>1. SoundHolds => (Once /\ WellPosed => ReportsOwnVerdicts)
  <2> SUFFICES ASSUME SoundHolds, Once, WellPosed, NEW c \in completing
               PROVE  c.cases = AllCases(c.by.sid) /\ \A n \in c.cases : c.rec[n] = c.att
    BY DEF ReportsOwnVerdicts
  <2>1. c.by.sid \in Sids
    BY DEF SoundHolds, OnceHolds, CaseInv, ScreenInv, TypeInv, TypeOK, Completion, Owner
  <2>2. c.att = 1 /\ c \in ClosersOf(c.by.sid) /\ Sound(c.by.sid)
    BY <2>1 DEF SoundHolds, OnceHolds, OnceInv, FilesSafe, ClosersOf
  <2> QED
    BY <2>2 DEF Sound, Work, Reported
<1> QED
  BY <1>1, SoundHolding, PTL

(* No case of it runs before its program is there, or its compilation has   *)
(* failed and said so.                                                      *)
THEOREM ProgramThere == Spec => [](Once /\ WellPosed => CaseFindsProgram)
<1>1. SoundHolds => (Once /\ WellPosed => CaseFindsProgram)
  <2> SUFFICES ASSUME SoundHolds, Once, WellPosed, NEW w \in workers, Is(w, "exec", "busy")
               PROVE  ctx[w.job.sid].prebuilt \/ ctx[w.job.sid].compiled # "none"
    BY DEF CaseFindsProgram
  <2>1. w.job.sid \in Sids
    BY DEF SoundHolds, OnceHolds, CaseInv, ScreenInv, TypeInv, TypeOK, Worker, Job
  <2>2. w \in ThreadsOf(w.job.sid) /\ w.job.kind = "exec" /\ Sound(w.job.sid)
    BY <2>1 DEF SoundHolds, ThreadsOf, Is
  <2> QED
    BY <2>2 DEF Sound, Work, ThreadsServe, Program
<1> QED
  BY <1>1, SoundHolding, PTL

-----------------------------------------------------------------------------
(* The promises of JudgeService.  What the state of the program stands for, *)
(* as module Service has it.                                                *)
Held      == Requested({<<s, dirs[s]>> : s \in Sids})
Passed == Requested(saPassed)
Executing == Requested({<<w.job.sid, w.src>> : w \in workers})
Delivered == {r \in Sids \X Attempts : reports[r[1]][r[2]] > 0}
Archive   == Requested(backups)

Whole == Steady /\ DirsOwn /\ Orderly /\ \A s \in Sids : Sound(s)

(* The files of an id that are a request's are those of the first one.      *)
LEMMA OwnFiles ==
  ASSUME Whole, NEW s \in Sids
  PROVE  /\ dirs \in [Sids -> DirVals] /\ NoDir \notin Attempts /\ EmptyDir \notin Attempts
         /\ 1 \in Attempts
         /\ dirs[s] \in Attempts => dirs[s] = 1
<1>1. dirs \in [Sids -> DirVals] /\ requests[s] \in 0..MaxRequests
  BY DEF Whole, Steady, CaseInv, ScreenInv, TypeInv, TypeOK
<1>2. NoDir \notin Attempts /\ EmptyDir \notin Attempts /\ 1 \in Attempts
  BY Numbers, ConstantsAssumption DEF NoDir, EmptyDir, Attempts
<1>3. ASSUME dirs[s] \in Attempts PROVE dirs[s] = 1
  <2>1. dirs[s] <= requests[s] /\ requests[s] <= 1
    BY <1>3 DEF Whole, DirsOwn, Steady, Once
  <2> QED
    BY <1>1, <1>3, <2>1, ConstantsAssumption DEF Attempts
<1> QED
  BY <1>1, <1>2, <1>3

(* The directories: what is received, and what is discarded or preserved.   *)
LEMMA HeldIs ==
  /\ Held \subseteq Sids \X Attempts
  /\ \A s \in Sids, a \in Attempts : <<s, a>> \in Held <=> dirs[s] = a
BY DEF Held, Requested

(* The same after a step.                                                   *)
LEMMA HeldLater ==
  /\ Held' \subseteq Sids \X Attempts
  /\ \A s \in Sids, a \in Attempts : <<s, a>> \in Held' <=> dirs'[s] = a
BY DEF Held, Requested

(* Sets of the same pairs are the same.                                     *)
LEMMA SamePairs ==
  ASSUME NEW A \in SUBSET (Sids \X Attempts), NEW B \in SUBSET (Sids \X Attempts),
         \A s \in Sids, a \in Attempts : <<s, a>> \in A <=> <<s, a>> \in B
  PROVE  A = B
OBVIOUS

(* No label of a request changes.                                           *)
LEMMA HeldSame ==
  ASSUME \A s \in Sids : \/ dirs'[s] = dirs[s]
                         \/ dirs[s] \notin Attempts /\ dirs'[s] \notin Attempts
  PROVE  Held' = Held
<1>1. \A s \in Sids, a \in Attempts : <<s, a>> \in Held' <=> <<s, a>> \in Held
  BY HeldIs, HeldLater
<1> QED
  BY <1>1, HeldIs, HeldLater

(* A directory is made for the first request.                               *)
LEMMA HeldGrows ==
  ASSUME NEW s \in Sids, 1 \in Attempts, dirs[s] \notin Attempts, dirs'[s] = 1,
         \A t \in Sids : t # s => dirs'[t] = dirs[t]
  PROVE  Held' = Held \cup {<<s, 1>>} /\ \A r \in Held : r[1] # s
<1>1. \A t \in Sids, a \in Attempts :
        <<t, a>> \in Held' <=> <<t, a>> \in Held \/ <<t, a>> = <<s, 1>>
  BY HeldIs, HeldLater
<1>2. Held' = Held \cup {<<s, 1>>}
  <2>1. Held' \in SUBSET (Sids \X Attempts) /\ Held \cup {<<s, 1>>} \in SUBSET (Sids \X Attempts)
    BY HeldIs, HeldLater
  <2>2. \A t \in Sids, a \in Attempts :
          <<t, a>> \in Held' <=> <<t, a>> \in Held \cup {<<s, 1>>}
    BY <1>1
  <2> QED
    BY <2>1, <2>2, SamePairs
<1>3. ASSUME NEW r \in Held PROVE r[1] # s
  <2>1. PICK t \in Sids, a \in Attempts : r = <<t, a>>
    BY HeldIs
  <2> QED
    BY <2>1, HeldIs
<1> QED
  BY <1>2, <1>3

(* Or it is removed.                                                        *)
LEMMA HeldShrinks ==
  ASSUME NEW s \in Sids, 1 \in Attempts, dirs[s] = 1, dirs'[s] \notin Attempts,
         \A t \in Sids : t # s => dirs'[t] = dirs[t]
  PROVE  Held' = Held \ {<<s, 1>>} /\ <<s, 1>> \in Held
<1>1. \A t \in Sids, a \in Attempts :
        <<t, a>> \in Held' <=> <<t, a>> \in Held /\ <<t, a>> # <<s, 1>>
  BY HeldIs, HeldLater
<1>2. Held' = Held \ {<<s, 1>>}
  <2>1. Held' \in SUBSET (Sids \X Attempts) /\ Held \ {<<s, 1>>} \in SUBSET (Sids \X Attempts)
    BY HeldIs, HeldLater
  <2>2. \A t \in Sids, a \in Attempts : <<t, a>> \in Held' <=> <<t, a>> \in Held \ {<<s, 1>>}
    BY <1>1
  <2> QED
    BY <2>1, <2>2, SamePairs
<1> QED
  BY <1>2, HeldIs

(* The threads: what executes.                                              *)
Runs(s, a) == \E w \in workers : w.job.sid = s /\ w.src = a

LEMMA ExecutingIs ==
  /\ Executing \subseteq Sids \X Attempts
  /\ \A s \in Sids, a \in Attempts : <<s, a>> \in Executing <=> Runs(s, a)
BY DEF Executing, Requested, Runs

(* The same after a step.                                                   *)
LEMMA ExecutingLater ==
  /\ Executing' \subseteq Sids \X Attempts
  /\ \A s \in Sids, a \in Attempts : <<s, a>> \in Executing' <=> Runs(s, a)'
BY DEF Executing, Requested, Runs

(* The same requests have threads.                                          *)
LEMMA ExecutingSame ==
  ASSUME \A s \in Sids, a \in Attempts : Runs(s, a)' <=> Runs(s, a)
  PROVE  Executing' = Executing
<1>1. \A s \in Sids, a \in Attempts : <<s, a>> \in Executing' <=> <<s, a>> \in Executing
  BY ExecutingIs, ExecutingLater
<1> QED
  BY <1>1, ExecutingIs, ExecutingLater

(* A thread that has found its directory executes the first request.        *)
LEMMA OwnThread ==
  ASSUME Whole, NEW w \in workers
  PROVE  /\ w.job.sid \in Sids /\ w \in ThreadsOf(w.job.sid)
         /\ w.src = IF w.pc = "start" THEN NoDir ELSE 1
<1>1. w.job.sid \in Sids
  BY DEF Whole, Steady, CaseInv, ScreenInv, TypeInv, TypeOK, Worker, Job
<1>2. w \in ThreadsOf(w.job.sid)
  BY DEF ThreadsOf
<1>3. w.pc = "start" => w.src = NoDir
  BY DEF Whole, Orderly, StartsBare
<1>4. w.pc # "start" => w.src = 1
  BY <1>1, <1>2, ThreadsFiles DEF Whole
<1> QED
  BY <1>1, <1>2, <1>3, <1>4

(* Nothing executes for an id that is served or completed.                  *)
LEMMA NothingRuns ==
  ASSUME Whole, NEW s \in Sids, ThreadsOf(s) = {}, NEW a
  PROVE  <<s, a>> \notin Executing
<1>1. ~Runs(s, a)
  BY DEF ThreadsOf, Runs
<1> QED
  BY <1>1, ExecutingIs

(* The rest of the state that JudgeService sees.                            *)
LEMMA OthersAre ==
  /\ \A s \in Sids, a \in Attempts :
       /\ <<s, a>> \in Passed <=> <<s, a>> \in saPassed
       /\ <<s, a>> \in Archive <=> <<s, a>> \in backups
       /\ <<s, a>> \in Delivered <=> reports[s][a] > 0
BY DEF Passed, Archive, Delivered, Requested

(* A step that JudgeService does not see.                                   *)
LEMMA Stutters ==
  ASSUME Held' = Held, accepted' = accepted, Passed' = Passed,
         Executing' = Executing, Delivered' = Delivered, Archive' = Archive
  PROVE  [Judge!Next]_Judge!vars
BY DEF Judge!vars, Held, Passed, Executing, Delivered, Archive

(* A request comes in.                                                      *)
LEMMA RequestPromise ==
  ASSUME Whole, Once', [Next]_vars, NEW s \in Sids, CreateDir(s) \/ FindLeftover(s)
  PROVE  [Judge!Next]_Judge!vars
<1>0. TypeInv /\ Alone /\ Sound(s)
  BY DEF Whole, Steady, CaseInv, ScreenInv, OnceInv
<1>1. /\ accepted' = accepted /\ Passed' = Passed /\ Executing' = Executing
      /\ Delivered' = Delivered /\ Archive' = Archive
  BY DEF CreateDir, FindLeftover, files, Passed, Executing, Delivered, Archive
<1>2. CASE FindLeftover(s)
  <2>1. Held' = Held
    BY <1>2 DEF FindLeftover, files, Held
  <2> QED
    BY <1>1, <2>1, Stutters
<1>3. CASE CreateDir(s)
  <2>1. requests'[s] = requests[s] + 1 /\ requests[s] \in Nat /\ requests'[s] <= 1
    BY <1>0, <1>3, RequestsGrow DEF CreateDir, TypeInv, TypeOK, Once
  <2>2. requests[s] = 0 /\ requests'[s] = 1
    BY <2>1
  <2>3. Held' = Held \cup {<<s, 1>>} /\ \A r \in Held : r[1] # s
    <3>1. dirs' = [dirs EXCEPT ![s] = 1] /\ dirs[s] = NoDir
      BY <1>3, <2>2 DEF CreateDir
    <3> QED
      BY <3>1, OwnFiles, HeldGrows
  <2>4. <<s, 1>> \notin accepted \cup Delivered \cup Archive
    <3>1. <<s, 1>> \notin accepted /\ ~Over(s)
      BY <1>0, <2>2 DEF Alone, Sound, Work, Reported
    <3> QED
      BY <3>1, OthersAre, OwnFiles DEF Over
  <2>5. Judge!Receive(<<s, 1>>)
    BY <1>1, <2>3, <2>4
    DEF Judge!Receive, Judge!HeldOf, Held, Passed, Executing, Delivered, Archive
  <2>6. <<s, 1>> \in Judge!Request
    BY OwnFiles DEF Judge!Request
  <2> QED
    BY <2>5, <2>6 DEF Judge!Next
<1> QED
  BY <1>2, <1>3

(* A request is served: it is accepted, or refused after what was left of   *)
(* an earlier process was replaced.                                         *)
LEMMA HandlerPromise ==
  ASSUME Whole, Once', [Next]_vars, NEW h \in handlers, HandlerStep(h)
  PROVE  [Judge!Next]_Judge!vars
<1> DEFINE s == h.sid
<1>0. TypeInv /\ Alone /\ FilesSafe /\ HandlersApart
  BY DEF Whole, Steady, CaseInv, ScreenInv, OnceInv, JobsApart
<1>1. s \in Sids /\ h.att = 1 /\ Serving(s, HandlerPC) /\ Serving(s, {h.pc})
  <2>1. s \in Sids /\ h.pc \in HandlerPC
    BY <1>0 DEF TypeInv, TypeOK, Handler
  <2>2. h.att = 1
    BY <1>0, OneHandler DEF Whole, Steady
  <2> QED
    BY <2>1, <2>2 DEF Serving
<1>2. ThreadsOf(s) = {} /\ <<s, 1>> \notin accepted /\ ~Over(s)
  <2>1. ~AtWork(s) /\ <<s, 1>> \notin accepted
    BY <1>0, <1>1 DEF Alone
  <2>2. ThreadsOf(s) = {}
    BY <2>1 DEF AtWork, Outside, ThreadsOf
  <2>3. ~Over(s)
    BY <1>1 DEF Whole, Sound, Work, Reported
  <2> QED
    BY <2>1, <2>2, <2>3
<1>3. /\ Passed' = Passed /\ Executing' = Executing
      /\ Delivered' = Delivered /\ Archive' = Archive
  <2>1. workers' = workers
    BY DEF HandlerStep, ForgetLeftover, WipeLeftover, CreateAgain, MarkTrial,
       CheckRequest, FailRequest, Register, PlanTasks, Enqueue, RejectFull, UnwindRequest
  <2> QED
    BY <2>1, HandlerLeaves DEF Passed, Executing, Delivered, Archive
<1>4. <<s, 1>> \in Judge!Request /\ <<s, 1>> \notin Delivered \cup Archive \cup Executing
  <2>1. <<s, 1>> \in Judge!Request
    BY <1>1, OwnFiles DEF Judge!Request
  <2>2. <<s, 1>> \notin Delivered \cup Archive
    BY <1>1, <1>2, OthersAre, OwnFiles DEF Over
  <2> QED
    BY <1>1, <1>2, <2>1, <2>2, NothingRuns
<1>5. CASE WipeLeftover(h)
  <2>1. dirs' = [dirs EXCEPT ![s] = NoDir] /\ accepted' = accepted
    BY <1>5 DEF WipeLeftover, ghost
  <2>2. /\ dirs'[s] = NoDir /\ NoDir \notin Attempts /\ 1 \in Attempts
        /\ \A t \in Sids : t # s => dirs'[t] = dirs[t]
    BY <1>1, <2>1, OwnFiles
  <2>3. CASE dirs[s] = 1
    <3>1. Held' = Held \ {<<s, 1>>} /\ <<s, 1>> \in Held
      BY <1>1, <2>2, <2>3, HeldShrinks
    <3>2. Judge!Discard(<<s, 1>>)
      BY <1>2, <1>3, <1>4, <2>1, <3>1
      DEF Judge!Discard, Held, Passed, Executing, Delivered, Archive
    <3> QED
      BY <1>4, <3>2 DEF Judge!Next
  <2>4. CASE dirs[s] # 1
    <3>1. dirs[s] \notin Attempts
      BY <1>1, <2>4, OwnFiles
    <3>2. \A t \in Sids : \/ dirs'[t] = dirs[t]
                          \/ dirs[t] \notin Attempts /\ dirs'[t] \notin Attempts
      BY <2>2, <3>1
    <3>3. Held' = Held
      BY <3>2, HeldSame
    <3> QED
      BY <1>3, <2>1, <3>3, Stutters
  <2> QED
    BY <2>3, <2>4
<1>6. CASE CreateAgain(h)
  <2>1. accepted' = accepted
    BY <1>6 DEF CreateAgain, ghost
  <2>2. CASE dirs' = dirs
    <3>1. Held' = Held
      BY <2>2 DEF Held
    <3> QED
      BY <1>3, <2>1, <3>1, Stutters
  <2>3. CASE dirs[s] = NoDir /\ dirs' = [dirs EXCEPT ![s] = 1]
    <3>1. Held' = Held \cup {<<s, 1>>} /\ \A r \in Held : r[1] # s
      BY <1>1, <2>3, OwnFiles, HeldGrows
    <3>2. Judge!Receive(<<s, 1>>)
      BY <1>2, <1>3, <1>4, <2>1, <3>1
      DEF Judge!Receive, Judge!HeldOf, Held, Passed, Executing, Delivered, Archive
    <3> QED
      BY <1>4, <3>2 DEF Judge!Next
  <2> QED
    BY <1>1, <1>6, <2>2, <2>3 DEF CreateAgain
<1>7. CASE Enqueue(h)
  <2>1. /\ accepted' = accepted \cup {<<s, 1>>} /\ h.pc = "enqueue"
        /\ Held' = Held
    BY <1>1, <1>7 DEF Enqueue, files, Held
  <2>2. <<s, 1>> \in Held
    <3>1. Needed(s)
      BY <1>1, <2>1 DEF Needed, Serving
    <3>2. dirs[s] = 1
      BY <1>0, <1>1, <1>2, <3>1 DEF FilesSafe, Kept
    <3> QED
      BY <1>1, <3>2, HeldIs, OwnFiles
  <2>3. Judge!Promise(<<s, 1>>)
    BY <1>3, <1>4, <2>1, <2>2
    DEF Judge!Promise, Held, Passed, Executing, Delivered, Archive
  <2> QED
    BY <1>4, <2>3 DEF Judge!Next
<1>8. CASE ~WipeLeftover(h) /\ ~CreateAgain(h) /\ ~Enqueue(h)
  <2>1. Held' = Held /\ accepted' = accepted
    BY <1>8, HandlerLeaves DEF Held
  <2> QED
    BY <1>3, <2>1, Stutters
<1> QED
  BY <1>5, <1>6, <1>7, <1>8

(* A submission is completed: its result is delivered, and then its files   *)
(* are discarded; or they are preserved.                                    *)
LEMMA CompletionPromise ==
  ASSUME Whole, Once', [Next]_vars, NEW c \in completing, CompletionStep(c)
  PROVE  [Judge!Next]_Judge!vars
<1> DEFINE s == c.by.sid
<1>0. TypeInv /\ FilesSafe /\ TypeOK
  BY DEF Whole, Steady, CaseInv, ScreenInv, OnceInv, TypeInv
<1>1. /\ s \in Sids /\ c.att = 1 /\ 1 \in Attempts
      /\ c \in ClosersOf(s) /\ Closing(s) /\ ThreadsOf(s) = {}
  <2>1. s \in Sids /\ c.att = 1
    BY <1>0 DEF TypeOK, Completion, Owner, FilesSafe
  <2>2. c \in ClosersOf(s) /\ Closing(s)
    BY DEF ClosersOf, Closing
  <2>3. ThreadsOf(s) = {}
    BY <2>1, <2>2 DEF Whole, Sound, Work, ClosesAlone
  <2> QED
    BY <2>1, <2>2, <2>3, Numbers
<1>2. /\ accepted' = accepted /\ Passed' = Passed /\ Executing' = Executing
  <2>1. workers' = workers
    BY DEF CompletionStep, PutResult, CleanData, BackupData, ReleaseContext, ReleaseCustom
  <2> QED
    BY <2>1, CompletionLeaves DEF Passed, Executing
<1>3. <<s, 1>> \in Judge!Request /\ <<s, 1>> \notin Executing
  <2>1. <<s, 1>> \in Judge!Request
    BY <1>1 DEF Judge!Request
  <2> QED
    BY <1>1, <2>1, NothingRuns
<1>4. CASE PutResult(c)
  <2>1. ~Over(s) /\ Held' = Held /\ Archive' = Archive
    <3>1. c.pc = "put" /\ dirs' = dirs /\ backups' = backups
      BY <1>4 DEF PutResult, files
    <3>2. ~Over(s)
      BY <1>1, <3>1 DEF Whole, Sound, Work, Reported
    <3> QED
      BY <3>1, <3>2 DEF Held, Archive
  <2>2. CASE reports' = reports
    <3>1. Delivered' = Delivered
      BY <2>2 DEF Delivered
    <3> QED
      BY <1>2, <2>1, <3>1, Stutters
  <2>3. CASE CountReport(c)
    <3>1. reports \in [Sids -> [Attempts -> 0..2]] /\ reports[s][1] = 0
      <4>1. reports \in [Sids -> [Attempts -> 0..2]]
        BY <1>0 DEF TypeOK
      <4>2. reports[s][1] \in 0..2
        BY <1>1, <4>1
      <4> QED
        BY <2>1, <4>1, <4>2 DEF Over
    <3>2. PICK n : n = IF reports[s][1] < 2 THEN reports[s][1] + 1 ELSE 2
      OBVIOUS
    <3>3. reports' = [reports EXCEPT ![s][1] = n] /\ n = 1
      BY <1>1, <2>3, <3>1, <3>2 DEF CountReport
    <3>4. \A t \in Sids, a \in Attempts :
            reports'[t][a] > 0 <=> reports[t][a] > 0 \/ <<t, a>> = <<s, 1>>
      BY <1>1, <3>1, <3>3
    <3>5. Delivered' = Delivered \cup {<<s, 1>>} /\ <<s, 1>> \notin Delivered
      BY <1>1, <3>1, <3>4 DEF Delivered
    <3>6. <<s, 1>> \in Held
      <4>1. dirs[s] = 1
        BY <1>0, <1>1, <2>1 DEF FilesSafe, Needed, Kept
      <4> QED
        BY <1>1, <4>1, HeldIs
    <3>7. Judge!Deliver(<<s, 1>>)
      BY <1>2, <1>3, <2>1, <3>5, <3>6
      DEF Judge!Deliver, Held, Passed, Executing, Delivered, Archive
    <3> QED
      BY <1>3, <3>7 DEF Judge!Next
  <2> QED
    BY <1>4, <2>2, <2>3 DEF PutResult
<1>5. ASSUME CleanData(c) \/ BackupData(c)
      PROVE  /\ Delivered' = Delivered /\ dirs'[s] \notin Attempts
             /\ \A t \in Sids : t # s => dirs'[t] = dirs[t]
             /\ dirs[s] # 1 => Held' = Held
             /\ dirs[s] = 1 => Held' = Held \ {<<s, 1>>} /\ <<s, 1>> \in Held
  <2>1. dirs' = [dirs EXCEPT ![s] = NoDir] /\ reports' = reports
    BY <1>5 DEF CleanData, BackupData, ghost
  <2>2. /\ dirs'[s] \notin Attempts
        /\ \A t \in Sids : t # s => dirs'[t] = dirs[t]
        /\ dirs[s] # 1 => dirs[s] \notin Attempts
    BY <1>1, <2>1, OwnFiles
  <2>3. ASSUME dirs[s] # 1 PROVE Held' = Held
    <3>1. \A t \in Sids : \/ dirs'[t] = dirs[t]
                          \/ dirs[t] \notin Attempts /\ dirs'[t] \notin Attempts
      BY <2>2, <2>3
    <3> QED
      BY <3>1, HeldSame
  <2>4. dirs[s] = 1 => Held' = Held \ {<<s, 1>>} /\ <<s, 1>> \in Held
    BY <1>1, <2>2, HeldShrinks
  <2> QED
    BY <2>1, <2>2, <2>3, <2>4 DEF Delivered
<1>6. CASE CleanData(c)
  <2>1. Archive' = Archive
    BY <1>6 DEF CleanData, Archive
  <2>2. CASE dirs[s] # 1
    BY <1>2, <1>5, <1>6, <2>1, <2>2, Stutters
  <2>3. CASE dirs[s] = 1
    <3>1. <<s, 1>> \in Delivered
      BY <1>0, <1>1, <1>6, OthersAre DEF CleanData, FilesSafe
    <3>2. Judge!Discard(<<s, 1>>)
      BY <1>2, <1>3, <1>5, <1>6, <2>1, <2>3, <3>1
      DEF Judge!Discard, Held, Passed, Executing, Delivered, Archive
    <3> QED
      BY <1>3, <3>2 DEF Judge!Next
  <2> QED
    BY <2>2, <2>3
<1>7. CASE BackupData(c)
  <2>1. \/ backups' = backups /\ dirs[s] = NoDir
        \/ backups' = backups \cup {<<s, dirs[s]>>}
    BY <1>7 DEF BackupData
  <2>2. CASE dirs[s] # 1
    <3>1. Archive' = Archive
      <4>1. dirs[s] \notin Attempts
        BY <1>1, <2>2, OwnFiles
      <4> QED
        BY <2>1, <4>1 DEF Archive, Requested
    <3> QED
      BY <1>2, <1>5, <1>7, <2>2, <3>1, Stutters
  <2>3. CASE dirs[s] = 1
    <3>1. Archive' = Archive \cup {<<s, 1>>}
      <4>1. backups' = backups \cup {<<s, 1>>}
        BY <1>1, <2>1, <2>3, OwnFiles
      <4> QED
        BY <1>1, <4>1 DEF Archive, Requested
    <3>2. Judge!Preserve(<<s, 1>>)
      BY <1>2, <1>3, <1>5, <1>7, <2>3, <3>1
      DEF Judge!Preserve, Held, Passed, Executing, Delivered, Archive
    <3> QED
      BY <1>3, <3>2 DEF Judge!Next
  <2> QED
    BY <2>2, <2>3
<1>8. CASE ReleaseContext(c) \/ ReleaseCustom(c)
  <2>1. Held' = Held /\ Delivered' = Delivered /\ Archive' = Archive
    BY <1>8 DEF ReleaseContext, ReleaseCustom, files, ghost, Held, Delivered, Archive
  <2> QED
    BY <1>2, <2>1, Stutters
<1> QED
  BY <1>4, <1>6, <1>7, <1>8 DEF CompletionStep

(* A thread starts to execute what is held, screened and not delivered, or  *)
(* goes on, or stops.                                                       *)
LEMMA WorkerPromise ==
  ASSUME Whole, Once', [Next]_vars, NEW w \in workers, WorkerStep(w)
  PROVE  [Judge!Next]_Judge!vars
<1> DEFINE s == w.job.sid
<1>0. TypeInv /\ OnlyScreened /\ Analysed
  BY DEF Whole, Steady, CaseInv, ScreenInv, OnceInv
<1>1. /\ s \in Sids /\ w \in ThreadsOf(s) /\ 1 \in Attempts /\ NoDir \notin Attempts
      /\ w.src = IF w.pc = "start" THEN NoDir ELSE 1
  BY OwnThread, OwnFiles
<1>2. /\ accepted' = accepted /\ Passed' = Passed /\ Held' = Held
      /\ Delivered' = Delivered /\ Archive' = Archive
  <2>1. \A t \in Sids : \/ dirs'[t] = dirs[t]
                        \/ dirs[t] \notin Attempts /\ dirs'[t] \notin Attempts
    BY <1>0, WorkerLeaves, OwnFiles
  <2>2. Held' = Held
    BY <2>1, HeldSame
  <2>3. accepted' = accepted /\ saPassed' = saPassed /\ reports' = reports /\ backups' = backups
    BY <1>0, WorkerLeaves
  <2> QED
    BY <2>2, <2>3 DEF Passed, Delivered, Archive
<1>3. <<s, 1>> \in Judge!Request
  BY <1>1 DEF Judge!Request
<1>4. CASE workers' = workers \ {w}
  <2>1. CASE \E v \in workers \ {w} : v.job.sid = s /\ v.src = w.src
    <3>1. \A t \in Sids, a \in Attempts : Runs(t, a)' <=> Runs(t, a)
      BY <1>4, <2>1 DEF Runs
    <3>2. Executing' = Executing
      BY <3>1, ExecutingSame
    <3> QED
      BY <1>2, <3>2, Stutters
  <2>2. CASE ~\E v \in workers \ {w} : v.job.sid = s /\ v.src = w.src
    <3>1. \A t \in Sids, a \in Attempts :
            Runs(t, a)' <=> Runs(t, a) /\ <<t, a>> # <<s, w.src>>
      BY <1>4, <2>2 DEF Runs
    <3>2. \A t \in Sids, a \in Attempts :
            <<t, a>> \in Executing' <=> <<t, a>> \in Executing /\ <<t, a>> # <<s, w.src>>
      BY <3>1, ExecutingIs, ExecutingLater
    <3>5. Executing' = Executing \ {<<s, w.src>>}
      BY <3>2, ExecutingIs, ExecutingLater
    <3>3. CASE w.src = 1
      <4>1. Judge!Stop(<<s, 1>>)
        BY <1>2, <3>3, <3>5 DEF Judge!Stop, Held, Passed, Executing, Delivered, Archive
      <4> QED
        BY <1>3, <4>1 DEF Judge!Next
    <3>4. CASE w.src = NoDir
      <4>1. <<s, w.src>> \notin Executing
        BY <1>1, <3>4, ExecutingIs
      <4>2. Executing' = Executing
        BY <3>5, <4>1
      <4> QED
        BY <1>2, <4>2, Stutters
    <3> QED
      BY <1>1, <3>3, <3>4
  <2> QED
    BY <2>1, <2>2
<1>5. CASE \E v : workers' = (workers \ {w}) \cup {v} /\ v.job = w.job /\ GoesOn(w, v)
  <2>1. PICK v : workers' = (workers \ {w}) \cup {v} /\ v.job = w.job /\ GoesOn(w, v)
    BY <1>5
  <2>2. v.src = 1 /\ v.job.sid = s
    BY <1>1, <2>1, ThreadGoesOn DEF Whole
  <2>3. dirs[s] = 1 /\ ~Over(s)
    BY <1>1, ThreadsFiles DEF Whole
  <2>4. <<s, 1>> \in Held /\ <<s, 1>> \in Passed /\ <<s, 1>> \notin Delivered
    <3>1. <<s, 1>> \in saPassed
      <4>1. Known(s)
        BY <1>0 DEF OnlyScreened, Screened, Known
      <4> QED
        BY <1>0, <1>1, <2>3, <4>1 DEF Analysed
    <3> QED
      BY <1>1, <2>3, <3>1, HeldIs, OthersAre DEF Over
  <2>5. Executing' = Executing \cup {<<s, 1>>}
    <3>1. \A t \in Sids, a \in Attempts :
            Runs(t, a)' <=> Runs(t, a) \/ <<t, a>> = <<s, 1>>
      BY <1>1, <2>1, <2>2 DEF Runs
    <3>2. \A t \in Sids, a \in Attempts :
            <<t, a>> \in Executing' <=> <<t, a>> \in Executing \/ <<t, a>> = <<s, 1>>
      BY <3>1, ExecutingIs, ExecutingLater
    <3> QED
      BY <1>1, <3>2, ExecutingIs, ExecutingLater
  <2>6. Judge!Execute(<<s, 1>>)
    BY <1>2, <2>4, <2>5 DEF Judge!Execute, Held, Passed, Executing, Delivered, Archive
  <2> QED
    BY <1>3, <2>6 DEF Judge!Next
<1> QED
  BY <1>0, <1>4, <1>5, WorkerMove

(* The dispatcher passes what is held, accepted and not delivered.          *)
LEMMA DispatcherPromise ==
  ASSUME Whole, Once', [Next]_vars, DispatcherStep
  PROVE  [Judge!Next]_Judge!vars
<1>0. TypeInv
  BY DEF Whole, Steady, CaseInv, ScreenInv
<1>1. /\ accepted' = accepted /\ Held' = Held /\ Delivered' = Delivered
      /\ Archive' = Archive
  BY DispatcherLeaves DEF Held, Delivered, Archive
<1>2. Executing' = Executing
  <2>1. \/ workers' = workers
        \/ workers' = workers \cup {MkWorker(Cur)}
    BY DEF DispatcherStep, TakeJob, DropTimedOut, DeferTrial, LoseDispatcher,
       StartAnalysis, StartNetwork, StartBuildThread, StartCompileThread, Spawn,
       StartCaseThread, Requeue, PutJob, FailAnalysis, RaiseAnalysis, PassAnalysis,
       FinishNetwork, FailNetwork
  <2>2. MkWorker(Cur).src \notin Attempts
    BY ConstantsAssumption DEF MkWorker, NoDir, Attempts
  <2>3. \A t \in Sids, a \in Attempts : Runs(t, a)' <=> Runs(t, a)
    BY <2>1, <2>2 DEF Runs
  <2> QED
    BY <2>3, ExecutingSame
<1>3. CASE saPassed' = saPassed
  <2>1. Passed' = Passed
    BY <1>3 DEF Passed
  <2> QED
    BY <1>1, <1>2, <2>1, Stutters
<1>4. CASE PassAnalysis
  <2>1. /\ disp.pc = "sa" /\ saPassed' = saPassed \cup {<<Cur.sid, CommonDir(Cur.sid)>>}
    BY <1>4 DEF PassAnalysis
  <2>2. Cur.sid \in Sids /\ AtWork(Cur.sid) /\ Contains(Cur.sid)
    BY <1>0, <2>1, CurAtWork DEF Whole, Orderly, AnalysedThere
  <2>3. ~Closing(Cur.sid)
    BY <2>1, <2>2, AnalysisFrame DEF Whole
  <2>4. dirs[Cur.sid] = 1 /\ CommonDir(Cur.sid) = 1 /\ ~Over(Cur.sid)
    BY <2>2, <2>3, FilesInPlace DEF Whole
  <2>5. <<Cur.sid, 1>> \in accepted
    BY <2>2 DEF Whole, Orderly, JobsAccepted
  <2>6. <<Cur.sid, 1>> \in Held /\ <<Cur.sid, 1>> \notin Delivered
    BY <2>2, <2>4, OwnFiles, HeldIs, OthersAre DEF Over
  <2>7. Passed' = Passed \cup {<<Cur.sid, 1>>}
    BY <2>1, <2>2, <2>4, OwnFiles DEF Passed, Requested
  <2>8. Judge!Screen(<<Cur.sid, 1>>)
    BY <1>1, <1>2, <2>5, <2>6, <2>7
    DEF Judge!Screen, Held, Passed, Executing, Delivered, Archive
  <2>9. <<Cur.sid, 1>> \in Judge!Request
    BY <2>2, OwnFiles DEF Judge!Request
  <2> QED
    BY <2>8, <2>9 DEF Judge!Next
<1> QED
  BY <1>3, <1>4, DispatcherLeaves

(* At the start there is nothing.                                           *)
LEMMA InitKeeps == Init => Judge!Init
<1> SUFFICES ASSUME Init PROVE Judge!Init
  OBVIOUS
<1>1. NoDir \notin Attempts /\ EmptyDir \notin Attempts
  BY ConstantsAssumption DEF NoDir, EmptyDir, Attempts
<1>2. Held = {}
  <2>1. \A s \in Sids : dirs[s] \notin Attempts
    BY <1>1 DEF Init
  <2> QED
    BY <2>1 DEF Held, Requested
<1>3. /\ accepted = {} /\ Passed = {} /\ Executing = {} /\ Archive = {}
  BY DEF Init, Passed, Executing, Archive, Requested
<1>4. Delivered = {}
  BY DEF Init, Delivered
<1> QED
  BY <1>2, <1>3, <1>4
  DEF Judge!Init, Held, Passed, Executing, Delivered, Archive

(* As long as no id is requested twice and the problems are well posed, the *)
(* service keeps the promises of JudgeService, step by step: what it holds, *)
(* accepts, screens, executes, delivers and archives changes by one of      *)
(* JudgeService's actions, or not at all, whatever times out, dies or       *)
(* overlaps, for any number of ids, cases and threads.                      *)
THEOREM PromisesKept == Spec /\ [](Once /\ WellPosed) => KeepsPromises
<1>1. Init => Judge!Init
  BY InitKeeps
<1>2. ASSUME SoundHolds, Once, WellPosed, Once', [Next]_vars
      PROVE  [Judge!Next]_Judge!vars
  <2>1. Whole
    BY <1>2 DEF Whole, SoundHolds, OnceHolds, Steady
  <2>2. CASE Request
    BY <1>2, <2>1, <2>2, RequestPromise DEF Request
  <2>3. CASE HandlersStep
    BY <1>2, <2>1, <2>3, HandlerPromise DEF HandlersStep
  <2>4. CASE WorkersStep
    BY <1>2, <2>1, <2>4, WorkerPromise DEF WorkersStep
  <2>5. CASE CompletionsStep
    BY <1>2, <2>1, <2>5, CompletionPromise DEF CompletionsStep
  <2>6. CASE DispatcherStep
    BY <1>2, <2>1, <2>6, DispatcherPromise
  <2>7. CASE Clock \/ Idle \/ UNCHANGED vars
    <3>1. dirs' = dirs /\ workers' = workers
      BY <2>7 DEF Clock, Expire, Idle, vars, files
    <3>2. /\ backups' = backups /\ reports' = reports
          /\ accepted' = accepted /\ saPassed' = saPassed
      BY <2>7, RestLeaves
    <3> QED
      BY <3>1, <3>2, Stutters DEF Held, Passed, Executing, Delivered, Archive
  <2> QED
    BY <1>2, <2>2, <2>3, <2>4, <2>5, <2>6, <2>7 DEF Next
<1>3. SoundHolds /\ (Once /\ WellPosed) /\ (Once /\ WellPosed)' /\ [Next]_vars
        => [Judge!Next]_Judge!vars
  BY <1>2
<1> QED
  BY <1>1, <1>3, SoundHolding, PTL DEF Spec, KeepsPromises, Judge!Spec

-----------------------------------------------------------------------------
(* Module JudgeServiceProofs, of what the program makes of JudgeService.    *)
Seen == INSTANCE JudgeServiceProofs WITH
  Ids       <- Sids,
  Requests  <- Attempts,
  held      <- Requested({<<s, dirs[s]>> : s \in Sids}),
  promised  <- accepted,
  screened  <- Requested(saPassed),
  executing <- Requested({<<w.job.sid, w.src>> : w \in workers}),
  delivered <- {r \in Sids \X Attempts : reports[r[1]][r[2]] > 0},
  archive   <- Requested(backups)

(* So the program loses no submission it accepted, executes only screened   *)
(* code whose result is still due, and holds the files of one request of an *)
(* id: what follows from the promises alone is true of the program.         *)
THEOREM ServiceSettles ==
  Spec /\ [](Once /\ WellPosed)
    => [](Judge!Settled /\ Judge!ExecutesScreened /\ Judge!OneAtATime)
<1>1. Judge!Init => Seen!Init
  BY DEF Judge!Init, Seen!Init
<1>2. [Judge!Next]_Judge!vars => [Seen!Next]_Seen!vars
  <2> USE DEF Judge!Request, Seen!Request, Judge!HeldOf, Seen!HeldOf
  <2>1. ASSUME NEW r \in Judge!Request
        PROVE  /\ Judge!Receive(r) <=> Seen!Receive(r)
               /\ Judge!Promise(r) <=> Seen!Promise(r)
               /\ Judge!Screen(r) <=> Seen!Screen(r)
               /\ Judge!Execute(r) <=> Seen!Execute(r)
               /\ Judge!Stop(r) <=> Seen!Stop(r)
               /\ Judge!Deliver(r) <=> Seen!Deliver(r)
               /\ Judge!Discard(r) <=> Seen!Discard(r)
               /\ Judge!Preserve(r) <=> Seen!Preserve(r)
    BY DEF Judge!Receive, Seen!Receive, Judge!Promise, Seen!Promise, Judge!Screen, Seen!Screen,
       Judge!Execute, Seen!Execute, Judge!Stop, Seen!Stop, Judge!Deliver, Seen!Deliver,
       Judge!Discard, Seen!Discard, Judge!Preserve, Seen!Preserve
  <2>2. Judge!Next => Seen!Next
    BY <2>1 DEF Judge!Next, Seen!Next
  <2> QED
    BY <2>2 DEF Judge!vars, Seen!vars
<1>3. Seen!Settled /\ Seen!ExecutesScreened /\ Seen!OneAtATime
        => Judge!Settled /\ Judge!ExecutesScreened /\ Judge!OneAtATime
  BY DEF Judge!Settled, Seen!Settled, Judge!ExecutesScreened, Seen!ExecutesScreened,
     Judge!OneAtATime, Seen!OneAtATime
<1>4. Seen!Spec => [](Seen!Settled /\ Seen!ExecutesScreened /\ Seen!OneAtATime)
  BY Seen!Promises
<1> QED
  BY <1>1, <1>2, <1>3, <1>4, PromisesKept, PTL DEF KeepsPromises, Judge!Spec, Seen!Spec
=============================================================================
