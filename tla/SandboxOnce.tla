---------------------------- MODULE SandboxOnce ----------------------------
(***************************************************************************)
(* What the service promises of ids that were requested once, for any      *)
(* number of ids, cases and threads, whatever times out or dies: the files *)
(* are kept until the backend has the result, they are analysed before     *)
(* they run, the result goes to the right endpoint, and a checker stays.   *)
(***************************************************************************)
EXTENDS SandboxProofs

(* No id was requested twice so far.                                        *)
Once == \A s \in Sids : requests[s] <= 1

-----------------------------------------------------------------------------
(* What there is of an id: its request, jobs outside pending_tasks,         *)
(* completions, and whether static analysis has accepted something of it.   *)
Serving(s, pcs) == \E h \in handlers : h.sid = s /\ h.pc \in pcs
AtWork(s)       == \E j \in Outside : j.sid = s
Closing(s)      == \E c \in completing : c.by.sid = s
Known(s)        == \E f \in DirVals : <<s, f>> \in saPassed

(* The files of the first request are in the directory, or no longer needed *)
(* there.                                                                   *)
Over(s) == reports[s][1] > 0 \/ <<s, 1>> \in backups
Kept(s) == dirs[s] = 1 \/ Over(s)
Needed(s) ==
  \/ Contains(s) \/ Serving(s, {"register", "plan", "enqueue"})
  \/ <<s, 1>> \in accepted \/ Closing(s)

(* An id that was not requested, or whose request is still being served,    *)
(* has nothing else at work.                                                *)
Alone ==
  \A s \in Sids : requests[s] = 0 \/ Serving(s, HandlerPC) =>
    ~AtWork(s) /\ ~Closing(s) /\ ~Known(s) /\ <<s, 1>> \notin accepted

(* The mark of a trial is there as long as it is needed, and on trials only.*)
Marked ==
  /\ \A h \in handlers : h.pc = "handle" => prof[h.sid].trial
  /\ \A s \in trials : prof[s].trial
  /\ \A s \in Sids :
       prof[s].trial /\ (Contains(s) \/ Serving(s, {"check", "register", "plan", "enqueue"}))
         => s \in trials
  /\ EndpointMatches

(* So are the checker and scorer; they go when the entry has gone.          *)
Prepared ==
  /\ \A s \in Sids :
       prof[s].custom /\ (Contains(s) \/ Serving(s, {"register", "plan", "enqueue"}))
         => s \in custom
  /\ \A c \in completing : c.pc \in {"cleanup", "cleanupx"} => ~Contains(c.by.sid)
  /\ \A h \in handlers : h.pc = "unwind" => ~Contains(h.sid)

(* When something of an id was accepted, the files that are there were.     *)
Analysed ==
  /\ \A s \in Sids : dirs[s] \in Attempts /\ Known(s) => <<s, dirs[s]>> \in saPassed
  /\ ScreenedBeforeRun

(* The files are those of a request that was made.                          *)
DirsOwn == \A s \in Sids : dirs[s] \in Attempts => dirs[s] <= requests[s]

(* From the checks of a request to the end of its submission the files are  *)
(* kept.                                                                    *)
FilesSafe ==
  /\ \A s \in Sids : Needed(s) => Kept(s)
  /\ \A c \in completing :
       /\ c.att = 1
       /\ c.pc = "clean" => reports[c.by.sid][1] > 0
       /\ c.pc \in {"drop", "cleanup"} => Over(c.by.sid)

OnceInv == Alone /\ Marked /\ Prepared /\ Analysed /\ FilesSafe

-----------------------------------------------------------------------------
(* What a request is numbered, and how many handlers it has.                *)
LEMMA OneHandler ==
  ASSUME TypeInv, HandlersApart, Once
  PROVE  /\ \A h \in handlers : h.sid \in Sids /\ h.att = 1 /\ requests[h.sid] = 1
         /\ \A g, h \in handlers : g.sid = h.sid => g = h
<1>1. \A h \in handlers : /\ h.sid \in Sids /\ h.att \in Attempts
                          /\ h.att <= requests[h.sid] /\ requests[h.sid] <= 1
                          /\ requests[h.sid] \in 0..MaxRequests
  BY DEF TypeInv, TypeOK, Handler, HandlersApart, Once
<1>2. \A h \in handlers : h.sid \in Sids /\ h.att = 1 /\ requests[h.sid] = 1
  BY <1>1, ConstantsAssumption DEF Attempts
<1> QED
  BY <1>2 DEF HandlersApart

(* Before its Register an id that is requested once has no entry.           *)
LEMMA NoEntryYet ==
  ASSUME TypeInv, HandlersApart, OwnEntry, Once, NEW h \in handlers, h.pc \in Early
  PROVE  ~Contains(h.sid)
<1>1. h.att = 1 /\ requests[h.sid] = 1 /\ h.sid \in Sids
  BY OneHandler
<1>2. ctx[h.sid].att \in Nat /\ ctx[h.sid].att <= 1 /\ ctx[h.sid].att # 1
  BY <1>1, ConstantsAssumption DEF OwnEntry, TypeInv, TypeOK, Context
<1> QED
  BY <1>2 DEF Contains

(* Only requests are counted.                                               *)
LEMMA RequestsGrow ==
  ASSUME TypeInv, [Next]_vars
  PROVE  /\ \A s \in Sids : /\ requests'[s] \in Nat /\ requests[s] \in Nat
                            /\ requests'[s] >= requests[s]
         /\ Once' => Once
<1>1. requests' = requests \/ \E s \in Sids : requests' = [requests EXCEPT ![s] = @ + 1]
  <2>1. CASE Request
    BY <2>1 DEF Request, CreateDir, FindLeftover
  <2>2. CASE Clock
    BY <2>2 DEF Clock, Expire, ghost
  <2>3. CASE HandlersStep
    <3>1. PICK h \in handlers : HandlerStep(h)
      BY <2>3 DEF HandlersStep
    <3> QED
      BY <3>1 DEF HandlerStep, ForgetLeftover, WipeLeftover, CreateAgain, MarkTrial,
         CheckRequest, FailRequest, Register, PlanTasks, Enqueue, RejectFull,
         UnwindRequest, ghost
  <2>4. CASE DispatcherStep
    BY <2>4 DEF DispatcherStep, TakeJob, DropTimedOut, DeferTrial, LoseDispatcher,
       StartAnalysis, StartNetwork, StartBuildThread, StartCompileThread,
       StartCaseThread, Requeue, PutJob, PassAnalysis, FailAnalysis, RaiseAnalysis,
       FinishNetwork, FailNetwork, others
  <2>5. CASE CompletionsStep
    BY <2>5 DEF CompletionsStep, CompletionStep, PutResult, CleanData, BackupData,
                ReleaseContext, ReleaseCustom, ghost
  <2>6. CASE WorkersStep
    <3>1. PICK w \in workers : WorkerStep(w)
      BY <2>6 DEF WorkersStep
    <3> QED
      BY <3>1 DEF WorkerStep, StartCompile, FinishCompile, StartBuild,
         FinishBuild, FailBuild, ClearJobs, PutBack, MarkBuildFailed, PrepareCase,
         NoTeacher, RunCase, EndRun, FetchLock, RecordCase, RaiseInTool, ghost
  <2>7. CASE Idle \/ UNCHANGED vars
    BY <2>7 DEF Idle, vars, ghost
  <2> QED
    BY <2>1, <2>2, <2>3, <2>4, <2>5, <2>6, <2>7 DEF Next
<1>2. requests \in [Sids -> Nat]
  BY ConstantsAssumption DEF TypeInv, TypeOK
<1>3. \A s \in Sids : /\ requests'[s] \in Nat /\ requests[s] \in Nat
                      /\ requests'[s] >= requests[s]
  BY <1>1, <1>2
<1> QED
  BY <1>3 DEF Once

(* A new entry is made by the handler of a request.                         *)
LEMMA EntryOrigin ==
  ASSUME TypeInv, WorkersHold, [Next]_vars, NEW s \in Sids, Contains(s)', ~Contains(s)
  PROVE  \E h \in handlers : h.sid = s /\ (FailRequest(h) \/ Register(h))
BY AnyResult DEF Moves, SameResult, NoContext, AllFail, Begins, Plans, Records, Contains

-----------------------------------------------------------------------------
(* Where the jobs, the completions, the marks, the directory and the rest   *)
(* of an id can come from in a step, and where they can go.                 *)

(* Jobs outside pending_tasks come from a handler's Enqueue, from an        *)
(* analysis that was passed, or from the pending list of a network.         *)
LEMMA NewJob ==
  ASSUME TypeInv, [Next]_vars, NEW j \in Outside'
  PROVE  \/ j \in Outside
         \/ \E h \in handlers : Enqueue(h) /\ j = FirstJob(h)
         \/ PassAnalysis /\ j = [Cur EXCEPT !.kind = "net"]
         \/ FinishNetwork /\ j \in Range(ctx[Cur.sid].pending)
<1>1. CASE DispatcherStep
  <2> DEFINE threads == UNION {{w.job} \cup Range(w.back) : w \in workers}
  <2>1. /\ disp.hand \in Seq(Job) /\ queue \in Seq(Job)
        /\ disp.pc \notin {"loop", "dead"} =>
             disp.hand # <<>> /\ Cur \in Job /\ Cur.sid \in Sids
    BY CurType
  <2>2. /\ \A i \in Job : Range(<<i>>) = {i}
        /\ Range(<<>>) = {}
    BY RangeFew
  <2>3. Outside = Range(queue) \cup Range(disp.hand) \cup threads
    BY DEF Outside
  <2>4. Outside' = Range(queue') \cup Range(disp'.hand) \cup threads'
    BY DEF Outside
  <2>5. disp.pc \notin {"loop", "dead"} => Cur \in Range(disp.hand)
    BY <2>1, RangeTail DEF Cur
  <2> HIDE DEF threads
  <2>6. CASE TakeJob
    <3>1. queue # <<>> /\ queue' = Tail(queue) /\ workers' = workers
      BY <2>6 DEF TakeJob
    <3>2. Range(queue) = {Head(queue)} \cup Range(Tail(queue)) /\ Head(queue) \in Job
      BY <2>1, <3>1, RangeTail
    <3>3. disp'.hand = <<Head(queue)>> \/ disp'.hand = <<>>
      BY <2>6, DispForms DEF TakeJob
    <3>4. Outside' \subseteq Outside
      BY <2>2, <2>3, <2>4, <3>1, <3>2, <3>3 DEF threads
    <3> QED
      BY <3>4
  <2>7. CASE DropTimedOut \/ DeferTrial \/ LoseDispatcher \/ StartAnalysis
             \/ StartNetwork \/ Requeue
    <3>1. /\ queue' = queue /\ workers' = workers
          /\ disp'.hand = disp.hand \/ disp'.hand = <<>>
      BY <2>7, DispForms DEF DropTimedOut, DeferTrial, LoseDispatcher, StartAnalysis,
                             StartNetwork, Requeue
    <3>2. Outside' \subseteq Outside
      BY <2>2, <2>3, <2>4, <3>1 DEF threads
    <3> QED
      BY <3>2
  <2>8. CASE StartBuildThread \/ StartCompileThread \/ StartCaseThread
    <3>1. /\ disp.pc = "check" /\ queue' = queue
          /\ workers' = workers \cup {MkWorker(Cur)} /\ disp'.hand = <<>>
      BY <2>8, DispForms DEF StartBuildThread, StartCompileThread, StartCaseThread,
                             Ready, Spawn
    <3>2. MkWorker(Cur).job = Cur /\ MkWorker(Cur).back = <<>>
      BY DEF MkWorker
    <3>3. Outside' \subseteq Outside
      BY <2>2, <2>3, <2>4, <2>5, <3>1, <3>2 DEF threads
    <3> QED
      BY <3>3
  <2>9. CASE PutJob
    <3>1. /\ disp.hand # <<>> /\ queue' = Append(queue, Cur) /\ workers' = workers
          /\ disp'.hand = Tail(disp.hand)
      BY <2>9, DispForms DEF PutJob
    <3>2. Range(queue') = Range(queue) \cup {Cur}
      BY <2>1, <2>9, <3>1, RangeAppend DEF PutJob
    <3>3. Range(disp.hand) = {Cur} \cup Range(Tail(disp.hand))
      BY <2>1, <3>1, RangeTail DEF Cur
    <3>4. Outside' \subseteq Outside
      BY <2>3, <2>4, <3>1, <3>2, <3>3 DEF threads
    <3> QED
      BY <3>4
  <2>10. CASE PassAnalysis
    <3>1. PICK i : i = [Cur EXCEPT !.kind = "net"]
      OBVIOUS
    <3>2. /\ disp.pc = "sa" /\ queue' = queue /\ workers' = workers /\ disp'.hand = <<i>>
      BY <2>10, <3>1, DispForms DEF PassAnalysis
    <3>3. i \in Job
      BY <2>1, <3>1, <3>2 DEF Job, JobKinds
    <3>4. j \in Outside \/ j = i
      BY <2>2, <2>3, <2>4, <3>2, <3>3 DEF threads
    <3> QED
      BY <2>10, <3>1, <3>4
  <2>11. CASE FailAnalysis \/ RaiseAnalysis \/ FailNetwork
    <3>1. PICK label, fatal : FailSubmission(label, fatal)
      BY <2>11 DEF FailAnalysis, RaiseAnalysis, FailNetwork
    <3>2. Loop \/ Reports(fatal)
      BY <3>1 DEF FailSubmission, Reports
    <3>3. /\ queue' = queue /\ workers' = workers
          /\ disp'.hand = disp.hand \/ disp'.hand = <<>>
      BY <2>11, <3>2, DispForms DEF FailAnalysis, RaiseAnalysis, FailNetwork
    <3>4. Outside' \subseteq Outside
      BY <2>2, <2>3, <2>4, <3>3 DEF threads
    <3> QED
      BY <3>4
  <2>12. CASE FinishNetwork
    <3>1. /\ disp.pc = "net" /\ queue' = queue /\ workers' = workers
          /\ disp'.hand = ctx[Cur.sid].pending
      BY <2>12, DispForms DEF FinishNetwork
    <3>2. j \in Outside \/ j \in Range(ctx[Cur.sid].pending)
      BY <2>3, <2>4, <3>1 DEF threads
    <3> QED
      BY <2>12, <3>2
  <2> QED
    BY <1>1, <2>6, <2>7, <2>8, <2>9, <2>10, <2>11, <2>12 DEF DispatcherStep
<1>2. CASE WorkersStep
  <2>1. PICK w \in workers : WorkerStep(w)
    BY <1>2 DEF WorkersStep
  <2>2. w \in Worker /\ queue \in Seq(Job)
    BY DEF TypeInv, TypeOK
  <2>3. disp' = disp
    BY <2>1 DEF WorkerStep, StartCompile, FinishCompile, StartBuild, FinishBuild,
       FailBuild, ClearJobs, PutBack, MarkBuildFailed, PrepareCase, NoTeacher, RunCase,
       EndRun, FetchLock, RecordCase, RaiseInTool
  <2>4. CASE ClearJobs(w)
    <3>1. PICK v : v = [w EXCEPT !.pc = "fail", !.back = queue]
      OBVIOUS
    <3>2. v.job = w.job /\ v.back = queue
      BY <2>2, <3>1 DEF Worker
    <3>3. workers' = (workers \ {w}) \cup {v} /\ queue' = <<>>
      BY <2>4, <3>1 DEF ClearJobs, Step
    <3>4. Outside' \subseteq Outside
      BY <2>3, <3>2, <3>3, RangeFew DEF Outside
    <3> QED
      BY <3>4
  <2>5. CASE PutBack(w)
    <3>1. PICK i \in OthersJobs(w) : /\ queue' = Append(queue, w.back[i])
                                     /\ Step(w, [w EXCEPT !.back = SubSeq(@, i + 1, Len(@))])
      BY <2>5 DEF PutBack
    <3>2. PICK v : v = [w EXCEPT !.back = SubSeq(@, i + 1, Len(@))]
      OBVIOUS
    <3>3. /\ v.job = w.job /\ v.back = SubSeq(w.back, i + 1, Len(w.back))
          /\ w.back \in Seq(Job)
      BY <2>2, <3>2 DEF Worker
    <3>4. workers' = (workers \ {w}) \cup {v}
      BY <3>1, <3>2 DEF Step
    <3>5. i \in 1..Len(w.back)
      BY <3>1 DEF OthersJobs
    <3>6. /\ Range(v.back) \subseteq Range(w.back) /\ w.back[i] \in Range(w.back)
          /\ w.back[i] \in Job
      BY <3>3, <3>5, RangeSubSeq, ElementOfSeq
    <3>7. Range(queue') = Range(queue) \cup {w.back[i]}
      BY <2>2, <3>1, <3>6, RangeAppend
    <3>8. \A u \in workers' : {u.job} \cup Range(u.back) \subseteq Outside
      <4>1. \A u \in workers : {u.job} \cup Range(u.back) \subseteq Outside
        BY DEF Outside
      <4>2. {v.job} \cup Range(v.back) \subseteq {w.job} \cup Range(w.back)
        BY <3>3, <3>6
      <4> QED
        BY <3>4, <4>1, <4>2
    <3>9. Range(queue') \subseteq Outside
      BY <3>6, <3>7 DEF Outside
    <3>10. Outside' \subseteq Outside
      BY <2>3, <3>8, <3>9 DEF Outside
    <3> QED
      BY <3>10
  <2>6. CASE ~ClearJobs(w) /\ ~PutBack(w)
    <3>1. PICK v : /\ queue' = queue
                   /\ v.job = w.job /\ v.back = w.back
                   /\ workers' = workers \ {w} \/ workers' = (workers \ {w}) \cup {v}
      BY <2>1, <2>6, WorkerGoesOn
    <3>2. Outside' \subseteq Outside
      BY <2>3, <3>1 DEF Outside
    <3> QED
      BY <3>2
  <2> QED
    BY <2>4, <2>5, <2>6
<1>3. CASE HandlersStep
  <2>1. PICK h \in handlers : HandlerStep(h)
    BY <1>3 DEF HandlersStep
  <2>2. workers' = workers /\ disp' = disp /\ (queue' = queue \/ Enqueue(h))
    BY <2>1 DEF HandlerStep, ForgetLeftover, WipeLeftover, CreateAgain, MarkTrial,
       CheckRequest, FailRequest, Register, PlanTasks, Enqueue, RejectFull, UnwindRequest
  <2>3. CASE Enqueue(h)
    <3>1. h.sid \in Sids /\ h.att \in Attempts /\ queue \in Seq(Job)
      BY DEF TypeInv, TypeOK, Handler
    <3>2. FirstJob(h) \in Job /\ FirstJob(h).sid = h.sid
      BY <3>1, JobType, Numbers DEF FirstJob, JobKinds, MkJob
    <3>3. Range(queue') = Range(queue) \cup {FirstJob(h)}
      BY <2>3, <3>1, <3>2, RangeAppend DEF Enqueue
    <3>4. j \in Outside \/ j = FirstJob(h)
      BY <2>2, <3>3 DEF Outside
    <3> QED
      BY <2>3, <3>2, <3>4
  <2>4. CASE queue' = queue
    BY <2>2, <2>4 DEF Outside
  <2> QED
    BY <2>2, <2>3, <2>4
<1>4. CASE CompletionsStep
  <2>1. PICK c \in completing : CompletionStep(c)
    BY <1>4 DEF CompletionsStep
  <2>2. /\ queue' = queue /\ workers' = workers
        /\ disp' = disp \/ \E raised : disp' = AfterCompletion(raised)
    BY <2>1 DEF CompletionStep, PutResult, CleanData, BackupData, ReleaseContext,
                ReleaseCustom
  <2>3. disp'.hand = disp.hand \/ disp'.hand = <<>>
    BY <2>2, DispForms
  <2>4. Outside' \subseteq Outside
    BY <2>2, <2>3, RangeFew DEF Outside
  <2> QED
    BY <2>4
<1>5. CASE Request \/ Clock \/ Idle \/ UNCHANGED vars
  <2>1. queue' = queue /\ workers' = workers /\ disp' = disp
    BY <1>5 DEF Request, Clock, CreateDir, FindLeftover, Expire, Idle, vars
  <2> QED
    BY <2>1 DEF Outside
<1> QED
  BY <1>1, <1>2, <1>3, <1>4, <1>5 DEF Next

(* The first one of an id comes from a handler.                             *)
LEMMA JobOrigin ==
  ASSUME TypeInv, PendingOwn, [Next]_vars, NEW s \in Sids, AtWork(s)'
  PROVE  AtWork(s) \/ \E h \in handlers : h.sid = s /\ Enqueue(h)
<1> PICK j \in Outside' : j.sid = s
  BY DEF AtWork
<1>0. /\ disp.hand \in Seq(Job)
      /\ disp.pc \notin {"loop", "dead"} =>
           disp.hand # <<>> /\ Cur \in Job /\ Cur.sid \in Sids
  BY CurType
<1>1. disp.pc \notin {"loop", "dead"} => Cur \in Outside
  BY <1>0, RangeTail DEF Cur, Outside
<1>2. CASE j \in Outside
  BY <1>2 DEF AtWork
<1>3. CASE \E h \in handlers : Enqueue(h) /\ j = FirstJob(h)
  BY <1>3 DEF FirstJob, MkJob
<1>4. CASE PassAnalysis /\ j = [Cur EXCEPT !.kind = "net"]
  <2>1. disp.pc = "sa"
    BY <1>4 DEF PassAnalysis
  <2>2. Cur.sid = s
    BY <1>0, <1>4, <2>1 DEF Job
  <2> QED
    BY <1>1, <2>1, <2>2 DEF AtWork
<1>5. CASE FinishNetwork /\ j \in Range(ctx[Cur.sid].pending)
  <2>1. disp.pc = "net"
    BY <1>5 DEF FinishNetwork
  <2>2. Cur \in Outside /\ Cur.sid \in Sids
    BY <1>0, <1>1, <2>1
  <2>3. ctx[Cur.sid].pending \in Seq(Job)
    BY <2>2 DEF TypeInv, TypeOK, Context
  <2>4. j.sid = Cur.sid
    BY <1>5, <2>2, <2>3, RangeIs DEF PendingOwn
  <2> QED
    BY <2>2, <2>4 DEF AtWork
<1> QED
  BY <1>2, <1>3, <1>4, <1>5, NewJob

(* What a completion does to itself.                                        *)
Continues(c, d) ==
  /\ d.by = c.by /\ d.att = c.att /\ d.cases = c.cases /\ d.rec = c.rec
  /\ d.trial <=> c.trial
  /\ \/ PutResult(c) /\ d.pc = "clean" /\ CountReport(c)
     \/ PutResult(c) /\ d.pc = "backup"
     \/ CleanData(c) /\ d.pc \in {"raise", "drop"}
     \/ BackupData(c) /\ d.pc = "raise"
     \/ /\ BackupData(c) /\ d.pc = "drop" /\ dirs[c.by.sid] # NoDir
        /\ backups' = backups \cup {<<c.by.sid, dirs[c.by.sid]>>}
     \/ ReleaseContext(c) /\ c.pc = "drop" /\ d.pc = "cleanup"
     \/ ReleaseContext(c) /\ c.pc = "raise" /\ d.pc = "cleanupx"

(* A step of a completion moves or ends it and leaves the others.           *)
LEMMA CompletionMove ==
  ASSUME TypeInv, NEW c \in completing, CompletionStep(c)
  PROVE  \/ completing' = completing \ {c} /\ ReleaseCustom(c)
         \/ \E d : completing' = (completing \ {c}) \cup {d} /\ Continues(c, d)
<1>1. c \in Completion
  BY DEF TypeInv, TypeOK
<1>2. ASSUME NEW pc, Move(c, pc)
      PROVE  \E d : /\ completing' = (completing \ {c}) \cup {d}
                    /\ d.by = c.by /\ d.att = c.att /\ d.cases = c.cases /\ d.rec = c.rec
                    /\ (d.trial <=> c.trial) /\ d.pc = pc
  <2>1. PICK d : d = [c EXCEPT !.pc = pc]
    OBVIOUS
  <2>2. /\ d.by = c.by /\ d.att = c.att /\ d.cases = c.cases /\ d.rec = c.rec
        /\ d.trial = c.trial /\ d.pc = pc
    BY <1>1, <2>1 DEF Completion
  <2> QED
    BY <1>2, <2>1, <2>2 DEF Move
<1>3. CASE PutResult(c)
  <2>1. CASE Move(c, "clean") /\ CountReport(c)
    BY <1>2, <1>3, <2>1 DEF Continues
  <2>2. CASE Move(c, "backup")
    BY <1>2, <1>3, <2>2 DEF Continues
  <2> QED
    BY <1>3, <2>1, <2>2 DEF PutResult
<1>4. CASE CleanData(c)
  <2>1. Move(c, "raise") \/ Move(c, "drop")
    BY <1>4 DEF CleanData
  <2> QED
    BY <1>2, <1>4, <2>1 DEF Continues
<1>5. CASE BackupData(c)
  <2>1. \/ Move(c, "raise")
        \/ /\ Move(c, "drop") /\ dirs[c.by.sid] # NoDir
           /\ backups' = backups \cup {<<c.by.sid, dirs[c.by.sid]>>}
    BY <1>5 DEF BackupData
  <2> QED
    BY <1>2, <1>5, <2>1 DEF Continues
<1>6. CASE ReleaseContext(c)
  <2>1. \/ c.pc = "raise" /\ Move(c, "cleanupx")
        \/ c.pc = "drop" /\ Move(c, "cleanup")
    BY <1>6 DEF ReleaseContext
  <2> QED
    BY <1>2, <1>6, <2>1 DEF Continues
<1>7. CASE ReleaseCustom(c)
  BY <1>7 DEF ReleaseCustom
<1> QED
  BY <1>3, <1>4, <1>5, <1>6, <1>7 DEF CompletionStep

(* Who starts a completion, and with what.                                  *)
Opens(d) ==
  /\ d.by.sid \in Sids /\ d.pc = "put" /\ (d.trial <=> d.by.sid \in trials)
  /\ d.att = ctx'[d.by.sid].att /\ d.cases = ctx'[d.by.sid].cases
  /\ d.rec = ctx'[d.by.sid].rec
  /\ \/ \E h \in handlers : FailRequest(h) /\ d.by = HttpThread(h) /\ d.by.sid = h.sid
     \/ \E w \in workers :
          /\ MarkBuildFailed(w) \/ NoTeacher(w) \/ RecordCase(w)
          /\ d.by = w.job /\ Contains(d.by.sid)
     \/ /\ FailAnalysis \/ RaiseAnalysis \/ FailNetwork
        /\ d.by = DispThread(Cur.sid) /\ d.by.sid = Cur.sid /\ Contains(d.by.sid)

(* Reading the results opens a completion.                                  *)
LEMMA CompleteOpens ==
  ASSUME NEW by, NEW lk, Complete(by, lk)
  PROVE  \E d : /\ completing' = completing \cup {d}
                /\ d.by = by /\ d.pc = "put" /\ (d.trial <=> by.sid \in trials)
                /\ d.att = ctx'[by.sid].att /\ d.cases = ctx'[by.sid].cases
                /\ d.rec = ctx'[by.sid].rec
<1>1. PICK d : d = [by |-> by, lk |-> lk, att |-> ctx'[by.sid].att,
                    cases |-> ctx'[by.sid].cases, rec |-> ctx'[by.sid].rec,
                    trial |-> by.sid \in trials, pc |-> "put"]
  OBVIOUS
<1>2. /\ d.by = by /\ d.pc = "put" /\ d.trial = (by.sid \in trials)
      /\ d.att = ctx'[by.sid].att /\ d.cases = ctx'[by.sid].cases
      /\ d.rec = ctx'[by.sid].rec
  BY <1>1
<1> QED
  BY <1>1, <1>2 DEF Complete

(* A completion was there, or is one that goes on, or starts.               *)
LEMMA CloserOrigin ==
  ASSUME TypeInv, [Next]_vars, NEW d \in completing'
  PROVE  \/ d \in completing
         \/ \E c \in completing : /\ CompletionStep(c) /\ Continues(c, d)
                                  /\ completing' = (completing \ {c}) \cup {d}
         \/ Opens(d) /\ completing' = completing \cup {d}
<1>1. CASE CompletionsStep
  <2>1. PICK c \in completing : CompletionStep(c)
    BY <1>1 DEF CompletionsStep
  <2>2. CASE completing' = completing \ {c}
    BY <2>2
  <2>3. CASE \E e : completing' = (completing \ {c}) \cup {e} /\ Continues(c, e)
    BY <2>1, <2>3
  <2> QED
    BY <2>1, <2>2, <2>3, CompletionMove
<1>2. CASE HandlersStep
  <2>1. PICK h \in handlers : HandlerStep(h)
    BY <1>2 DEF HandlersStep
  <2>2. CASE FailRequest(h)
    <3>1. Complete(HttpThread(h), 0)
      BY <2>2 DEF FailRequest
    <3>2. h.sid \in Sids /\ HttpThread(h).sid = h.sid
      BY OwnerType DEF TypeInv, TypeOK, Handler
    <3>3. PICK e : /\ completing' = completing \cup {e}
                   /\ e.by = HttpThread(h) /\ e.pc = "put" /\ (e.trial <=> h.sid \in trials)
                   /\ e.att = ctx'[h.sid].att /\ e.cases = ctx'[h.sid].cases
                   /\ e.rec = ctx'[h.sid].rec
      <4> HIDE DEF HttpThread
      <4> QED
        BY <3>1, <3>2, CompleteOpens
    <3>4. Opens(e)
      BY <2>2, <3>2, <3>3 DEF Opens
    <3> QED
      BY <3>3, <3>4
  <2>3. CASE ~FailRequest(h)
    <3>1. completing' = completing
      BY <2>1, <2>3 DEF HandlerStep, ForgetLeftover, WipeLeftover, CreateAgain,
         MarkTrial, CheckRequest, Register, PlanTasks, Enqueue, RejectFull, UnwindRequest
    <3> QED
      BY <3>1
  <2> QED
    BY <2>2, <2>3
<1>3. CASE WorkersStep
  <2>1. PICK w \in workers : WorkerStep(w)
    BY <1>3 DEF WorkersStep
  <2>2. w.job.sid \in Sids
    BY DEF TypeInv, TypeOK, Worker, Job
  <2>3. CASE MarkBuildFailed(w) \/ NoTeacher(w)
    <3>1. PICK label : MarkFailed(w, label)
      BY <2>3 DEF MarkBuildFailed, NoTeacher
    <3>2. CASE Contains(w.job.sid)
      <4>1. Complete(w.job, w.lk)
        BY <3>1, <3>2 DEF MarkFailed
      <4> QED
        BY <2>2, <2>3, <3>2, <4>1, CompleteOpens DEF Opens
    <3>3. CASE ~Contains(w.job.sid)
      BY <3>1, <3>3 DEF MarkFailed
    <3> QED
      BY <3>2, <3>3
  <2>4. CASE RecordCase(w)
    <3>1. CASE Complete(w.job, w.lk) /\ Contains(w.job.sid)
      BY <2>2, <2>4, <3>1, CompleteOpens DEF Opens
    <3>2. CASE completing' = completing
      BY <3>2
    <3> QED
      BY <2>4, <3>1, <3>2 DEF RecordCase
  <2>5. CASE ~(MarkBuildFailed(w) \/ NoTeacher(w) \/ RecordCase(w))
    <3>1. completing' = completing
      BY <2>1, <2>5 DEF WorkerStep, StartCompile, FinishCompile, StartBuild, FinishBuild,
         FailBuild, ClearJobs, PutBack, PrepareCase, RunCase, EndRun, FetchLock,
         RaiseInTool
    <3> QED
      BY <3>1
  <2> QED
    BY <2>3, <2>4, <2>5
<1>4. CASE DispatcherStep
  <2>1. CASE FailAnalysis \/ RaiseAnalysis \/ FailNetwork
    <3>1. PICK label, fatal : FailSubmission(label, fatal)
      BY <2>1 DEF FailAnalysis, RaiseAnalysis, FailNetwork
    <3>2. Cur.sid \in Sids /\ DispThread(Cur.sid).sid = Cur.sid
      BY <2>1, CurType, OwnerType DEF FailAnalysis, RaiseAnalysis, FailNetwork
    <3>3. CASE Contains(Cur.sid)
      <4>1. Complete(DispThread(Cur.sid), 0)
        BY <3>1, <3>3 DEF FailSubmission
      <4> QED
        BY <2>1, <3>2, <3>3, <4>1, CompleteOpens DEF Opens
    <3>4. CASE ~Contains(Cur.sid)
      BY <3>1, <3>4 DEF FailSubmission
    <3> QED
      BY <3>3, <3>4
  <2>2. CASE ~(FailAnalysis \/ RaiseAnalysis \/ FailNetwork)
    <3>1. completing' = completing
      BY <1>4, <2>2 DEF DispatcherStep, TakeJob, DropTimedOut, DeferTrial, LoseDispatcher,
         StartAnalysis, StartNetwork, StartBuildThread, StartCompileThread,
         StartCaseThread, Requeue, PutJob, PassAnalysis, FinishNetwork
    <3> QED
      BY <3>1
  <2> QED
    BY <2>1, <2>2
<1>5. CASE Request \/ Clock \/ Idle \/ UNCHANGED vars
  <2>1. completing' = completing
    BY <1>5 DEF Request, Clock, CreateDir, FindLeftover, Expire, Idle, vars
  <2> QED
    BY <2>1
<1> QED
  BY <1>1, <1>2, <1>3, <1>4, <1>5 DEF Next

(* A completion that starts does so for an id with an entry and a job or a  *)
(* handler.                                                                 *)
LEMMA OpensFor ==
  ASSUME TypeInv, NEW d, Opens(d)
  PROVE  \/ \E h \in handlers : FailRequest(h) /\ h.sid = d.by.sid
         \/ Contains(d.by.sid) /\ AtWork(d.by.sid)
<1>1. CASE \E w \in workers : d.by = w.job /\ Contains(d.by.sid)
  BY <1>1 DEF AtWork, Outside
<1>2. CASE /\ FailAnalysis \/ RaiseAnalysis \/ FailNetwork
           /\ d.by.sid = Cur.sid /\ Contains(d.by.sid)
  <2>1. Cur \in Range(disp.hand)
    BY <1>2, CurType, RangeTail DEF FailAnalysis, RaiseAnalysis, FailNetwork, Cur
  <2> QED
    BY <1>2, <2>1 DEF AtWork, Outside
<1> QED
  BY <1>1, <1>2 DEF Opens

(* What the steps of each kind of thread leave alone.                       *)
LEMMA WorkerLeaves ==
  ASSUME TypeInv, NEW w \in workers, WorkerStep(w)
  PROVE  /\ backups' = backups /\ reports' = reports /\ trials' = trials
         /\ custom' = custom /\ accepted' = accepted /\ saPassed' = saPassed
         /\ \A s \in Sids : dirs'[s] = dirs[s] \/ (dirs[s] = NoDir /\ dirs'[s] = EmptyDir)
<1>1. /\ backups' = backups /\ reports' = reports /\ trials' = trials
      /\ custom' = custom /\ accepted' = accepted /\ saPassed' = saPassed
      /\ dirs' = dirs \/ dirs' = [dirs EXCEPT ![w.job.sid] = CommonDir(w.job.sid)]
  BY DEF WorkerStep, StartCompile, FinishCompile, StartBuild, FinishBuild, FailBuild,
     ClearJobs, PutBack, MarkBuildFailed, PrepareCase, NoTeacher, RunCase, EndRun,
     FetchLock, RecordCase, RaiseInTool, files, ghost
<1>2. \A s \in Sids : dirs'[s] = dirs[s] \/ dirs'[s] = CommonDir(s)
  BY <1>1 DEF TypeInv, TypeOK
<1> QED
  BY <1>1, <1>2 DEF CommonDir

(* What a step of the dispatcher leaves alone,                              *)
LEMMA DispatcherLeaves ==
  ASSUME DispatcherStep
  PROVE  /\ backups' = backups /\ reports' = reports /\ trials' = trials
         /\ custom' = custom /\ accepted' = accepted /\ dirs' = dirs
         /\ saPassed' = saPassed \/ PassAnalysis
BY DEF DispatcherStep, TakeJob, DropTimedOut, DeferTrial, LoseDispatcher,
   StartAnalysis, StartNetwork, StartBuildThread, StartCompileThread,
   StartCaseThread, Requeue, PutJob, FailAnalysis, RaiseAnalysis, PassAnalysis,
   FinishNetwork, FailNetwork, others, files

(* what one of a handler does,                                              *)
LEMMA HandlerLeaves ==
  ASSUME NEW h \in handlers, HandlerStep(h)
  PROVE  /\ backups' = backups /\ reports' = reports /\ saPassed' = saPassed
         /\ dirs' = dirs \/ WipeLeftover(h) \/ CreateAgain(h)
         /\ trials' = trials \/ MarkTrial(h)
         /\ custom' = custom \/ WipeLeftover(h) \/ UnwindRequest(h) \/ CheckRequest(h)
         /\ accepted' = accepted \/ Enqueue(h)
BY DEF HandlerStep, ForgetLeftover, WipeLeftover, CreateAgain, MarkTrial, CheckRequest,
   FailRequest, Register, PlanTasks, Enqueue, RejectFull, UnwindRequest, files, ghost

(* what one of a completion does,                                           *)
LEMMA CompletionLeaves ==
  ASSUME NEW c \in completing, CompletionStep(c)
  PROVE  /\ accepted' = accepted /\ saPassed' = saPassed /\ handlers' = handlers
         /\ dirs' = dirs \/ CleanData(c) \/ BackupData(c)
         /\ backups' = backups \/ BackupData(c)
         /\ reports' = reports \/ CountReport(c)
         /\ trials' = trials \/ ReleaseContext(c)
         /\ custom' = custom \/ ReleaseCustom(c)
BY DEF CompletionStep, PutResult, CleanData, BackupData, ReleaseContext, ReleaseCustom,
   files, ghost

(* and what the other steps do.                                             *)
LEMMA RestLeaves ==
  ASSUME Request \/ Clock \/ Idle \/ UNCHANGED vars
  PROVE  /\ backups' = backups /\ reports' = reports /\ trials' = trials
         /\ custom' = custom /\ accepted' = accepted /\ saPassed' = saPassed
         /\ dirs' = dirs \/ \E s \in Sids : CreateDir(s)
BY DEF Request, Clock, CreateDir, FindLeftover, Expire, Idle, vars, files, ghost

(* The directory of an id.                                                  *)
LEMMA DirsChange ==
  ASSUME TypeInv, [Next]_vars, NEW s \in Sids
  PROVE  \/ dirs'[s] = dirs[s]
         \/ CreateDir(s)
         \/ \E h \in handlers : h.sid = s /\ WipeLeftover(h)
         \/ \E h \in handlers : h.sid = s /\ CreateAgain(h) /\ dirs[s] = NoDir
         \/ dirs[s] = NoDir /\ dirs'[s] = EmptyDir
         \/ \E c \in completing : c.by.sid = s /\ (CleanData(c) \/ BackupData(c))
<1>1. dirs \in [Sids -> DirVals]
  BY DEF TypeInv, TypeOK
<1>2. CASE WorkersStep
  BY <1>2, WorkerLeaves DEF WorkersStep
<1>3. CASE DispatcherStep
  BY <1>3, DispatcherLeaves
<1>4. CASE HandlersStep
  <2>1. PICK h \in handlers : HandlerStep(h)
    BY <1>4 DEF HandlersStep
  <2>2. CASE WipeLeftover(h)
    BY <1>1, <2>2 DEF WipeLeftover
  <2>3. CASE CreateAgain(h)
    BY <1>1, <2>3 DEF CreateAgain
  <2> QED
    BY <2>1, <2>2, <2>3, HandlerLeaves
<1>5. CASE CompletionsStep
  <2>1. PICK c \in completing : CompletionStep(c)
    BY <1>5 DEF CompletionsStep
  <2>2. CASE CleanData(c)
    BY <1>1, <2>2 DEF CleanData
  <2>3. CASE BackupData(c)
    BY <1>1, <2>3 DEF BackupData
  <2> QED
    BY <2>1, <2>2, <2>3, CompletionLeaves
<1>6. CASE Request \/ Clock \/ Idle \/ UNCHANGED vars
  <2>1. dirs' = dirs \/ \E t \in Sids : CreateDir(t)
    BY <1>6, RestLeaves
  <2>2. \A t \in Sids : CreateDir(t) => t = s \/ dirs'[s] = dirs[s]
    BY <1>1 DEF CreateDir
  <2> QED
    BY <2>1, <2>2
<1> QED
  BY <1>2, <1>3, <1>4, <1>5, <1>6 DEF Next

(* The history of an id: what was accepted, analysed, delivered, backed up. *)
LEMMA HistoryChange ==
  ASSUME TypeInv, [Next]_vars, NEW s \in Sids
  PROVE  /\ reports[s][1] > 0 => reports'[s][1] > 0
         /\ Over(s) => Over(s)'
         /\ saPassed \subseteq saPassed' /\ accepted \subseteq accepted'
         /\ <<s, 1>> \in accepted' =>
              <<s, 1>> \in accepted \/ \E h \in handlers : h.sid = s /\ Enqueue(h)
         /\ \A f : <<s, f>> \in saPassed' =>
              <<s, f>> \in saPassed \/ (PassAnalysis /\ Cur.sid = s /\ f = CommonDir(s))
<1>1. CASE WorkersStep
  <2>1. /\ backups' = backups /\ reports' = reports
        /\ accepted' = accepted /\ saPassed' = saPassed
    BY <1>1, WorkerLeaves DEF WorkersStep
  <2> QED
    BY <2>1 DEF Over
<1>2. CASE DispatcherStep
  <2>1. /\ backups' = backups /\ reports' = reports /\ accepted' = accepted
        /\ saPassed' = saPassed \/ PassAnalysis
    BY <1>2, DispatcherLeaves
  <2>2. /\ saPassed \subseteq saPassed'
        /\ \A f : <<s, f>> \in saPassed' =>
             <<s, f>> \in saPassed \/ (PassAnalysis /\ Cur.sid = s /\ f = CommonDir(s))
    BY <2>1 DEF PassAnalysis
  <2> QED
    BY <2>1, <2>2 DEF Over
<1>3. CASE HandlersStep
  <2>1. PICK h \in handlers : HandlerStep(h)
    BY <1>3 DEF HandlersStep
  <2>2. /\ backups' = backups /\ reports' = reports /\ saPassed' = saPassed
        /\ accepted' = accepted \/ Enqueue(h)
    BY <2>1, HandlerLeaves
  <2>3. /\ accepted \subseteq accepted'
        /\ <<s, 1>> \in accepted' => <<s, 1>> \in accepted \/ (h.sid = s /\ Enqueue(h))
    BY <2>2 DEF Enqueue
  <2> QED
    BY <2>2, <2>3 DEF Over
<1>4. CASE CompletionsStep
  <2>1. PICK c \in completing : CompletionStep(c)
    BY <1>4 DEF CompletionsStep
  <2>2. /\ accepted' = accepted /\ saPassed' = saPassed
        /\ backups' = backups \/ BackupData(c)
        /\ reports' = reports \/ CountReport(c)
    BY <2>1, CompletionLeaves
  <2>3. backups \subseteq backups'
    BY <2>2 DEF BackupData
  <2>4. CASE CountReport(c)
    <3>1. c.by.sid \in Sids /\ c.att \in Attempts /\ 1 \in Attempts
      BY Numbers DEF TypeInv, TypeOK, Completion, Owner
    <3>2. reports \in [Sids -> [Attempts -> 0..2]]
      BY DEF TypeInv, TypeOK
    <3>3. reports[s][1] > 0 => reports'[s][1] > 0
      BY <2>4, <3>1, <3>2 DEF CountReport
    <3> QED
      BY <2>2, <2>3, <3>3 DEF Over
  <2> QED
    BY <2>2, <2>3, <2>4 DEF Over
<1>5. CASE Request \/ Clock \/ Idle \/ UNCHANGED vars
  <2>1. /\ backups' = backups /\ reports' = reports
        /\ accepted' = accepted /\ saPassed' = saPassed
    BY <1>5, RestLeaves
  <2> QED
    BY <2>1 DEF Over
<1> QED
  BY <1>1, <1>2, <1>3, <1>4, <1>5 DEF Next

(* The marks of an id.                                                      *)
LEMMA MarksChange ==
  ASSUME TypeInv, [Next]_vars, NEW s \in Sids
  PROVE  /\ s \in trials' => s \in trials \/ \E h \in handlers : h.sid = s /\ MarkTrial(h)
         /\ s \in trials => \/ s \in trials'
                            \/ \E c \in completing : c.by.sid = s /\ ReleaseContext(c)
         /\ s \in custom =>
              \/ s \in custom'
              \/ \E h \in handlers : /\ h.sid = s
                                     /\ WipeLeftover(h) \/ UnwindRequest(h) \/ CheckRequest(h)
              \/ \E c \in completing : c.by.sid = s /\ ReleaseCustom(c)
<1>1. CASE WorkersStep
  BY <1>1, WorkerLeaves DEF WorkersStep
<1>2. CASE DispatcherStep
  BY <1>2, DispatcherLeaves
<1>3. CASE HandlersStep
  <2>1. PICK h \in handlers : HandlerStep(h)
    BY <1>3 DEF HandlersStep
  <2>2. /\ trials' = trials \/ MarkTrial(h)
        /\ custom' = custom \/ WipeLeftover(h) \/ UnwindRequest(h) \/ CheckRequest(h)
    BY <2>1, HandlerLeaves
  <2>3. /\ s \in trials' => s \in trials \/ (h.sid = s /\ MarkTrial(h))
        /\ s \in trials => s \in trials'
    BY <2>2 DEF MarkTrial
  <2>4. s \in custom => s \in custom' \/ h.sid = s
    BY <2>2 DEF WipeLeftover, UnwindRequest, CheckRequest, ForgetCustom
  <2> QED
    BY <2>2, <2>3, <2>4
<1>4. CASE CompletionsStep
  <2>1. PICK c \in completing : CompletionStep(c)
    BY <1>4 DEF CompletionsStep
  <2>2. /\ trials' = trials \/ ReleaseContext(c)
        /\ custom' = custom \/ ReleaseCustom(c)
    BY <2>1, CompletionLeaves
  <2>3. /\ s \in trials' => s \in trials
        /\ s \in trials => s \in trials' \/ (c.by.sid = s /\ ReleaseContext(c))
    BY <2>2 DEF ReleaseContext
  <2>4. s \in custom => s \in custom' \/ (c.by.sid = s /\ ReleaseCustom(c))
    BY <2>2 DEF ReleaseCustom, ForgetCustom
  <2> QED
    BY <2>2, <2>3, <2>4
<1>5. CASE Request \/ Clock \/ Idle \/ UNCHANGED vars
  BY <1>5, RestLeaves
<1> QED
  BY <1>1, <1>2, <1>3, <1>4, <1>5 DEF Next

-----------------------------------------------------------------------------
(* The invariants, one by one.                                              *)

(* The job in the dispatcher's hand is at work.                             *)
LEMMA CurAtWork ==
  ASSUME TypeInv, disp.pc \notin {"loop", "dead"}
  PROVE  Cur.sid \in Sids /\ AtWork(Cur.sid)
<1>1. Cur.sid \in Sids /\ Cur \in Range(disp.hand)
  BY CurType, RangeTail DEF Cur
<1> QED
  BY <1>1 DEF AtWork, Outside

(* A handler that ends was the only one of its id.                          *)
LEMMA LastHandler ==
  ASSUME TypeInv, HandlersApart, Once, [Next]_vars,
         NEW h \in handlers, Enqueue(h) \/ FailRequest(h)
  PROVE  requests'[h.sid] # 0 /\ ~Serving(h.sid, HandlerPC)'
<1>1. handlers' = handlers \ {h}
  BY DEF Enqueue, FailRequest, Leave
<1>2. \A g \in handlers : g.sid = h.sid => g = h
  BY OneHandler
<1>3. h.sid \in Sids /\ requests[h.sid] = 1
  BY OneHandler
<1>4. requests'[h.sid] >= 1
  BY <1>3, RequestsGrow
<1> QED
  BY <1>1, <1>2, <1>4 DEF Serving

(* Every step keeps a request that is still served alone.                   *)
LEMMA AloneStep ==
  ASSUME CaseInv, Alone, Once', [Next]_vars
  PROVE  Alone'
<1>1. TypeInv /\ HandlersApart /\ PendingOwn /\ HandHolds
  BY DEF CaseInv, ScreenInv, JobsApart
<1>2. Once
  BY <1>1, RequestsGrow
<1> SUFFICES ASSUME NEW s \in Sids, requests'[s] = 0 \/ Serving(s, HandlerPC)'
             PROVE  /\ ~AtWork(s)' /\ ~Closing(s)' /\ ~Known(s)'
                    /\ <<s, 1>> \notin accepted'
  BY DEF Alone
<1>3. requests[s] \in Nat /\ requests'[s] \in Nat /\ requests[s] <= requests'[s]
  BY <1>1, RequestsGrow
<1>4. requests[s] = 0 \/ Serving(s, HandlerPC)
  <2>1. CASE requests'[s] = 0
    BY <1>3, <2>1
  <2>2. CASE Serving(s, HandlerPC)'
    <3>1. PICK f \in handlers' : f.sid = s
      BY <2>2 DEF Serving
    <3>2. CASE \E h \in handlers : h.sid = f.sid
      BY <1>1, <3>1, <3>2 DEF Serving, TypeInv, TypeOK, Handler
    <3>3. CASE \E t \in Sids : Arrives(t, f)
      <4>1. requests' = [requests EXCEPT ![s] = @ + 1]
        BY <3>1, <3>3 DEF Arrives
      <4>2. requests'[s] = requests[s] + 1
        BY <1>1, <4>1 DEF TypeInv, TypeOK
      <4>3. requests'[s] <= 1
        BY DEF Once
      <4> QED
        BY <1>3, <4>2, <4>3
    <3> QED
      BY <1>1, <3>2, <3>3, HandlerOrigin
  <2> QED
    BY <2>1, <2>2
<1>5. ~AtWork(s) /\ ~Closing(s) /\ ~Known(s) /\ <<s, 1>> \notin accepted
  BY <1>4 DEF Alone
<1>6. ~\E h \in handlers : h.sid = s /\ (Enqueue(h) \/ FailRequest(h))
  BY <1>1, <1>2, LastHandler
<1>7. ~AtWork(s)'
  BY <1>1, <1>5, <1>6, JobOrigin
<1>8. ~Closing(s)'
  <2> SUFFICES ASSUME NEW d \in completing', d.by.sid = s PROVE FALSE
    BY DEF Closing
  <2>1. CASE d \in completing
    BY <1>5, <2>1 DEF Closing
  <2>2. CASE \E c \in completing : Continues(c, d)
    BY <1>5, <2>2 DEF Closing, Continues
  <2>3. CASE Opens(d)
    BY <1>1, <1>5, <1>6, <2>3, OpensFor
  <2> QED
    BY <1>1, <2>1, <2>2, <2>3, CloserOrigin
<1>9. ~Known(s)'
  <2> SUFFICES ASSUME NEW f \in DirVals, <<s, f>> \in saPassed' PROVE FALSE
    BY DEF Known
  <2>1. CASE <<s, f>> \in saPassed
    BY <1>5, <2>1 DEF Known
  <2>2. CASE PassAnalysis /\ Cur.sid = s
    BY <1>1, <1>5, <2>2, CurAtWork DEF PassAnalysis
  <2> QED
    BY <1>1, <2>1, <2>2, HistoryChange
<1>10. <<s, 1>> \notin accepted'
  BY <1>1, <1>5, <1>6, HistoryChange
<1> QED
  BY <1>7, <1>8, <1>9, <1>10

(* Whoever completes a submission, no handler serves it.                    *)
LEMMA ClosersAlone ==
  ASSUME TypeInv, Alone, NEW c \in completing, NEW h \in handlers
  PROVE  h.sid # c.by.sid
BY DEF Alone, Serving, Closing, TypeInv, TypeOK, Handler

(* Marks are set in time and removed when the entry is.                     *)
LEMMA MarkedStep ==
  ASSUME CaseInv, Alone, Marked, Once', [Next]_vars
  PROVE  Marked'
<1>1. TypeInv /\ HandlersApart /\ WorkersHold
  BY DEF CaseInv, ScreenInv, JobsApart
<1>2. prof' = prof /\ Once
  BY <1>1, ProfStays, RequestsGrow
<1>3. ASSUME NEW f \in handlers'
      PROVE  /\ f.pc = "handle" => prof[f.sid].trial
             /\ f.pc \in {"check", "register", "plan", "enqueue"} /\ prof[f.sid].trial
                  => f.sid \in trials'
  <2>0. f.sid \in Sids
    <3>1. TypeInv'
      BY <1>1, NextTyping
    <3> QED
      BY <3>1 DEF TypeInv, TypeOK, Handler
  <2>1. CASE f \in handlers
    <3>1. \A c \in completing : ~(c.by.sid = f.sid /\ ReleaseContext(c))
      BY <1>1, <2>1, ClosersAlone
    <3>2. f.sid \in trials => f.sid \in trials'
      BY <1>1, <2>0, <3>1, MarksChange
    <3>3. /\ f.pc = "handle" => prof[f.sid].trial
          /\ f.pc \in {"check", "register", "plan", "enqueue"} /\ prof[f.sid].trial
               => f.sid \in trials
      BY <2>0, <2>1 DEF Marked, Serving
    <3> QED
      BY <3>2, <3>3
  <2>2. CASE \E h \in handlers : HandlerStep(h) /\ f.sid = h.sid /\ Onward(h, f)
    <3>1. PICK h \in handlers : HandlerStep(h) /\ f.sid = h.sid /\ Onward(h, f)
      BY <2>2
    <3>2. f.sid \in trials => f.sid \in trials'
      BY <1>1, <2>0, <3>1, ClosersAlone, MarksChange
    <3>3. CASE CreateAgain(h) /\ f.pc = FirstPC(h.sid)
      BY <3>1, <3>3 DEF FirstPC
    <3>4. CASE MarkTrial(h) /\ f.pc = "check"
      BY <3>1, <3>4 DEF MarkTrial
    <3>5. CASE /\ CheckRequest(h) \/ Register(h) \/ PlanTasks(h)
               /\ f.pc \in {"register", "plan", "enqueue"}
      <4>1. h.pc \in {"check", "register", "plan"}
        BY <3>5 DEF CheckRequest, Register, PlanTasks
      <4>2. prof[h.sid].trial => h.sid \in trials
        BY <2>0, <3>1, <4>1 DEF Marked, Serving
      <4> QED
        BY <3>1, <3>2, <3>5, <4>2
    <3>6. CASE f.pc \in {"wipe", "again", "unwind"}
      BY <3>6
    <3> QED
      BY <3>1, <3>3, <3>4, <3>5, <3>6 DEF Onward
  <2>3. CASE \E s \in Sids : Arrives(s, f)
    BY <2>3 DEF Arrives, FirstPC
  <2> QED
    BY <1>1, <2>1, <2>2, <2>3, HandlerOrigin
<1>4. \A s \in trials' : prof[s].trial
  <2> SUFFICES ASSUME NEW s \in trials' PROVE prof[s].trial
    OBVIOUS
  <2>1. s \in Sids
    BY NextTyping, <1>1 DEF TypeInv, TypeOK
  <2>2. CASE s \in trials
    BY <2>2 DEF Marked
  <2>3. CASE \E h \in handlers : h.sid = s /\ MarkTrial(h)
    BY <2>3 DEF Marked, MarkTrial
  <2> QED
    BY <1>1, <2>1, <2>2, <2>3, MarksChange
<1>5. ASSUME NEW s \in Sids, prof[s].trial, Contains(s)' PROVE s \in trials'
  <2>1. s \in trials
    <3>1. CASE Contains(s)
      BY <1>5, <3>1 DEF Marked
    <3>2. CASE \E h \in handlers : h.sid = s /\ (FailRequest(h) \/ Register(h))
      BY <1>5, <3>2 DEF Marked, Serving, FailRequest, Register
    <3> QED
      BY <1>1, <1>5, <3>1, <3>2, EntryOrigin
  <2>2. ASSUME NEW c \in completing, c.by.sid = s, ReleaseContext(c) PROVE FALSE
    <3>1. ctx'[s] = NoContext
      BY <1>1, <2>2, ForgetEffect DEF ReleaseContext, TypeInv
    <3> QED
      BY <1>5, <3>1 DEF Contains, NoContext
  <2> QED
    BY <1>1, <2>1, <2>2, MarksChange
<1>6. ASSUME NEW d \in completing', d.pc = "put" PROVE d.trial = prof[d.by.sid].trial
  <2>0. d.trial \in BOOLEAN /\ d.by.sid \in Sids /\ prof[d.by.sid].trial \in BOOLEAN
    <3>1. d \in Completion
      BY <1>1, NextTyping DEF TypeInv, TypeOK
    <3>2. d.trial \in BOOLEAN /\ d.by.sid \in Sids
      BY <3>1 DEF Completion, Owner
    <3>3. prof[d.by.sid] \in Profile
      BY <1>1, <3>2, ConstantsAssumption DEF TypeInv, TypeOK
    <3> QED
      BY <3>2, <3>3 DEF Profile
  <2>1. CASE d \in completing
    BY <1>6, <2>1 DEF Marked, EndpointMatches
  <2>2. CASE \E c \in completing : Continues(c, d)
    BY <1>6, <2>2 DEF Continues
  <2>3. CASE Opens(d)
    <3>1. d.trial <=> d.by.sid \in trials
      BY <2>3 DEF Opens
    <3>2. d.by.sid \in trials => prof[d.by.sid].trial
      BY DEF Marked
    <3>3. Contains(d.by.sid) \/ \E h \in handlers : FailRequest(h) /\ h.sid = d.by.sid
      BY <1>1, <2>3, OpensFor
    <3>4. prof[d.by.sid].trial => d.by.sid \in trials
      BY <2>0, <3>3 DEF Marked, Serving, FailRequest
    <3> QED
      BY <2>0, <3>1, <3>2, <3>4
  <2> QED
    BY <1>1, <2>1, <2>2, <2>3, CloserOrigin
<1>7. EndpointMatches'
  BY <1>2, <1>6 DEF EndpointMatches
<1>8. \A h \in handlers' : h.pc = "handle" => prof'[h.sid].trial
  BY <1>2, <1>3
<1>9. \A s \in Sids :
        /\ prof'[s].trial
        /\ Contains(s)' \/ Serving(s, {"check", "register", "plan", "enqueue"})'
        => s \in trials'
  BY <1>2, <1>3, <1>5 DEF Serving
<1> QED
  BY <1>2, <1>4, <1>7, <1>8, <1>9 DEF Marked

(* A checker stays from handle()'s checks until the entry has gone.         *)
LEMMA PreparedStep ==
  ASSUME CaseInv, Alone, Prepared, Once', [Next]_vars
  PROVE  Prepared'
<1>1. TypeInv /\ HandlersApart /\ WorkersHold /\ OwnEntry
  BY DEF CaseInv, ScreenInv, JobsApart
<1>2. prof' = prof /\ Once
  BY <1>1, ProfStays, RequestsGrow
<1>3. ASSUME NEW s \in Sids, Contains(s)', ~Contains(s)
      PROVE  /\ \E h \in handlers : h.sid = s /\ h.pc \in {"register", "plan"}
             /\ \A c \in completing : c.by.sid # s
  <2>1. PICK h \in handlers : h.sid = s /\ (FailRequest(h) \/ Register(h))
    BY <1>1, <1>3, EntryOrigin
  <2>2. h.pc \in {"register", "plan"}
    BY <2>1 DEF FailRequest, Register
  <2> QED
    BY <1>1, <2>1, <2>2, ClosersAlone
<1>4. ASSUME NEW d \in completing', d.pc \in {"cleanup", "cleanupx"}
      PROVE  ~Contains(d.by.sid)'
  <2>1. CASE d \in completing
    <3>1. ~Contains(d.by.sid) /\ d.by.sid \in Sids
      BY <1>1, <1>4, <2>1 DEF Prepared, TypeInv, TypeOK, Completion, Owner
    <3> QED
      BY <1>3, <2>1, <3>1
  <2>2. CASE \E c \in completing : Continues(c, d)
    <3>1. PICK c \in completing : Continues(c, d)
      BY <2>2
    <3>2. ForgetContext(c.by.sid) /\ d.by = c.by /\ c.by.sid \in Sids
      BY <1>1, <1>4, <3>1
         DEF Continues, ReleaseContext, TypeInv, TypeOK, Completion, Owner
    <3>3. ctx'[d.by.sid] = NoContext
      BY <1>1, <3>2, ForgetEffect DEF TypeInv
    <3> QED
      BY <3>3 DEF Contains, NoContext
  <2>3. CASE Opens(d)
    BY <1>4, <2>3 DEF Opens
  <2> QED
    BY <1>1, <2>1, <2>2, <2>3, CloserOrigin
<1>5. ASSUME NEW f \in handlers', f.pc = "unwind"
      PROVE  ~Contains(f.sid)'
  <2>1. CASE f \in handlers
    <3>1. ~Contains(f.sid) /\ f.sid \in Sids
      BY <1>1, <1>5, <2>1 DEF Prepared, TypeInv, TypeOK, Handler
    <3>2. \A h \in handlers : h.sid = f.sid => h = f
      BY <1>1, <1>2, <2>1, OneHandler
    <3> QED
      BY <1>3, <1>5, <3>1, <3>2
  <2>2. CASE \E h \in handlers : HandlerStep(h) /\ f.sid = h.sid /\ Onward(h, f)
    <3>1. PICK h \in handlers : HandlerStep(h) /\ f.sid = h.sid /\ Onward(h, f)
      BY <2>2
    <3>2. ForgetContext(f.sid) /\ f.sid \in Sids
      BY <1>1, <1>5, <3>1 DEF Onward, FirstPC, RejectFull, TypeInv, TypeOK, Handler
    <3>3. ctx'[f.sid] = NoContext
      BY <1>1, <3>2, ForgetEffect DEF TypeInv
    <3> QED
      BY <3>3 DEF Contains, NoContext
  <2>3. CASE \E s \in Sids : Arrives(s, f)
    BY <1>5, <2>3 DEF Arrives, FirstPC
  <2> QED
    BY <1>1, <2>1, <2>2, <2>3, HandlerOrigin
<1>6. ASSUME NEW s \in Sids, prof[s].custom, s \in custom,
             NEW h \in handlers, h.sid = s, h.pc \in {"register", "plan", "enqueue"}
      PROVE  s \in custom'
  <2>1. \A g \in handlers : g.sid = s => g = h
    BY <1>1, <1>2, <1>6, OneHandler
  <2>2. ~\E g \in handlers : /\ g.sid = s
                             /\ WipeLeftover(g) \/ UnwindRequest(g) \/ CheckRequest(g)
    BY <1>6, <2>1 DEF WipeLeftover, UnwindRequest, CheckRequest
  <2>3. ~\E c \in completing : c.by.sid = s
    BY <1>1, <1>6, ClosersAlone
  <2> QED
    BY <1>1, <1>6, <2>2, <2>3, MarksChange
<1>7. ASSUME NEW s \in Sids, prof[s].custom, Contains(s)'
      PROVE  s \in custom'
  <2>1. CASE Contains(s)
    <3>1. s \in custom
      BY <1>7, <2>1 DEF Prepared
    <3>2. ASSUME NEW h \in handlers, h.sid = s, WipeLeftover(h) \/ CheckRequest(h)
          PROVE  FALSE
      <4>1. h.pc \in Early
        BY <3>2 DEF WipeLeftover, CheckRequest, Early, HandlerPC
      <4> QED
        BY <1>1, <1>2, <2>1, <3>2, <4>1, NoEntryYet
    <3>3. ~\E h \in handlers : h.sid = s /\ UnwindRequest(h)
      BY <2>1 DEF Prepared, UnwindRequest
    <3>4. ~\E c \in completing : c.by.sid = s /\ ReleaseCustom(c)
      BY <2>1 DEF Prepared, ReleaseCustom
    <3> QED
      BY <1>1, <3>1, <3>2, <3>3, <3>4, MarksChange
  <2>2. CASE ~Contains(s)
    <3>1. PICK h \in handlers : h.sid = s /\ h.pc \in {"register", "plan"}
      BY <1>3, <1>7, <2>2
    <3>2. s \in custom
      BY <1>7, <3>1 DEF Prepared, Serving
    <3> QED
      BY <1>6, <1>7, <3>1, <3>2
  <2> QED
    BY <2>1, <2>2
<1>8. ASSUME NEW f \in handlers', f.pc \in {"register", "plan", "enqueue"},
             f.sid \in Sids, prof[f.sid].custom
      PROVE  f.sid \in custom'
  <2>1. CASE f \in handlers
    <3>1. f.sid \in custom
      BY <1>8, <2>1 DEF Prepared, Serving
    <3> QED
      BY <1>6, <1>8, <2>1, <3>1
  <2>2. CASE \E h \in handlers : HandlerStep(h) /\ f.sid = h.sid /\ Onward(h, f)
    <3>1. PICK h \in handlers : HandlerStep(h) /\ f.sid = h.sid /\ Onward(h, f)
      BY <2>2
    <3>2. CASE CheckRequest(h) /\ dirs[h.sid] \in Attempts /\ ~Contains(h.sid)
      <4>1. custom' = custom \cup {h.sid}
        BY <1>8, <3>1, <3>2 DEF CheckRequest
      <4> QED
        BY <3>1, <4>1
    <3>3. CASE Register(h) \/ PlanTasks(h)
      <4>1. h.pc \in {"register", "plan"}
        BY <3>3 DEF Register, PlanTasks
      <4>2. f.sid \in custom
        BY <1>8, <3>1, <4>1 DEF Prepared, Serving
      <4> QED
        BY <1>6, <1>8, <3>1, <4>1, <4>2
    <3> QED
      BY <1>8, <3>1, <3>2, <3>3 DEF Onward, FirstPC
  <2>3. CASE \E s \in Sids : Arrives(s, f)
    BY <1>8, <2>3 DEF Arrives, FirstPC
  <2> QED
    BY <1>1, <2>1, <2>2, <2>3, HandlerOrigin
<1>9. \A s \in Sids :
        /\ prof'[s].custom
        /\ Contains(s)' \/ Serving(s, {"register", "plan", "enqueue"})'
        => s \in custom'
  BY <1>2, <1>7, <1>8 DEF Serving
<1> QED
  BY <1>4, <1>5, <1>9 DEF Prepared

(* The files are numbered by a request that was made.                       *)
LEMMA DirsOwnStep ==
  ASSUME TypeInv, HandlersApart, DirsOwn, [Next]_vars
  PROVE  DirsOwn'
<1> SUFFICES ASSUME NEW s \in Sids, dirs'[s] \in Attempts PROVE dirs'[s] <= requests'[s]
  BY DEF DirsOwn
<1>0. /\ MaxRequests \in Nat /\ requests \in [Sids -> 0..MaxRequests]
      /\ dirs \in [Sids -> DirVals]
  BY ConstantsAssumption DEF TypeInv, TypeOK
<1>1. /\ requests[s] \in Nat /\ requests'[s] \in Nat /\ requests[s] <= requests'[s]
      /\ dirs[s] \in Nat /\ dirs \in [Sids -> DirVals]
  <2>1. requests[s] \in Nat /\ requests'[s] \in Nat /\ requests[s] <= requests'[s]
    BY <1>0, RequestsGrow
  <2>2. dirs[s] \in Nat
    BY <1>0 DEF DirVals
  <2> QED
    BY <1>0, <2>1, <2>2
<1>2. NoDir \notin Attempts /\ EmptyDir \notin Attempts
  BY ConstantsAssumption DEF NoDir, EmptyDir, Attempts
<1>3. CASE dirs'[s] = dirs[s]
  BY <1>1, <1>3 DEF DirsOwn
<1>4. CASE CreateDir(s)
  <2>1. dirs'[s] = requests'[s]
    BY <1>1, <1>4 DEF CreateDir
  <2> QED
    BY <1>1, <2>1
<1>5. CASE \E h \in handlers : h.sid = s /\ WipeLeftover(h)
  BY <1>1, <1>2, <1>5 DEF WipeLeftover
<1>6. CASE \E h \in handlers : h.sid = s /\ CreateAgain(h) /\ dirs[s] = NoDir
  <2>1. PICK h \in handlers : h.sid = s /\ CreateAgain(h) /\ dirs[s] = NoDir
    BY <1>6
  <2>2. dirs'[s] = h.att
    BY <1>1, <2>1 DEF CreateAgain
  <2>3. h.att <= requests[s] /\ h.att \in Nat
    BY <2>1, ConstantsAssumption DEF HandlersApart, TypeInv, TypeOK, Handler, Attempts
  <2> QED
    BY <1>1, <2>2, <2>3
<1>7. CASE \E c \in completing : c.by.sid = s /\ (CleanData(c) \/ BackupData(c))
  BY <1>1, <1>2, <1>7 DEF CleanData, BackupData
<1> QED
  BY <1>2, <1>3, <1>4, <1>5, <1>6, <1>7, DirsChange

(* A thread was there, or goes on, or is one the dispatcher has started.    *)
LEMMA WorkerOrigin ==
  ASSUME TypeInv, [Next]_vars, NEW v \in workers'
  PROVE  \/ v \in workers
         \/ \E w \in workers : /\ WorkerStep(w) /\ v.job = w.job /\ GoesOn(w, v)
                               /\ workers' = (workers \ {w}) \cup {v}
         \/ /\ StartBuildThread \/ StartCompileThread \/ StartCaseThread
            /\ v = MkWorker(Cur)
<1>1. CASE WorkersStep
  <2>1. PICK w \in workers : WorkerStep(w)
    BY <1>1 DEF WorkersStep
  <2>2. CASE workers' = workers \ {w}
    BY <2>2
  <2>3. CASE \E u : workers' = (workers \ {w}) \cup {u} /\ u.job = w.job /\ GoesOn(w, u)
    BY <2>1, <2>3
  <2> QED
    BY <2>1, <2>2, <2>3, WorkerMove
<1>2. CASE DispatcherStep
  <2>1. \/ workers' = workers
        \/ /\ StartBuildThread \/ StartCompileThread \/ StartCaseThread
           /\ workers' = workers \cup {MkWorker(Cur)}
    BY <1>2 DEF DispatcherStep, TakeJob, DropTimedOut, DeferTrial, LoseDispatcher,
       StartAnalysis, StartNetwork, StartBuildThread, StartCompileThread, Spawn,
       StartCaseThread, Requeue, PutJob, FailAnalysis, RaiseAnalysis, PassAnalysis,
       FinishNetwork, FailNetwork
  <2> QED
    BY <2>1
<1>3. CASE HandlersStep
  <2>1. PICK h \in handlers : HandlerStep(h)
    BY <1>3 DEF HandlersStep
  <2>2. workers' = workers
    BY <2>1 DEF HandlerStep, ForgetLeftover, WipeLeftover, CreateAgain, MarkTrial,
       CheckRequest, FailRequest, Register, PlanTasks, Enqueue, RejectFull, UnwindRequest
  <2> QED
    BY <2>2
<1>4. CASE CompletionsStep
  BY <1>4 DEF CompletionsStep, CompletionStep, PutResult, CleanData, BackupData,
              ReleaseContext, ReleaseCustom
<1>5. CASE Request \/ Clock \/ Idle \/ UNCHANGED vars
  BY <1>5 DEF Request, Clock, CreateDir, FindLeftover, Expire, Idle, vars
<1> QED
  BY <1>1, <1>2, <1>3, <1>4, <1>5 DEF Next

(* What runs was analysed.                                                  *)
LEMMA AnalysedStep ==
  ASSUME CaseInv, Alone, Analysed, Once', [Next]_vars
  PROVE  Analysed'
<1>1. TypeInv /\ HandlersApart /\ OnlyScreened
  BY DEF CaseInv, ScreenInv, JobsApart
<1>2. NoDir \notin Attempts /\ EmptyDir \notin Attempts
  BY ConstantsAssumption DEF NoDir, EmptyDir, Attempts
<1>3. \A s \in Sids : CommonDir(s) \in Attempts => dirs[s] = CommonDir(s)
  BY <1>2 DEF CommonDir
<1>4. \A s \in Sids : dirs[s] \in Attempts => dirs[s] = CommonDir(s)
  BY <1>2 DEF CommonDir
<1>5. \A s \in Sids : saPassed \subseteq saPassed'
  BY <1>1, HistoryChange
<1>6. ASSUME NEW s \in Sids, dirs'[s] \in Attempts, Known(s)'
      PROVE  <<s, dirs'[s]>> \in saPassed'
  <2>1. CASE dirs'[s] = dirs[s]
    <3>1. CASE Known(s)
      BY <1>5, <1>6, <2>1, <3>1 DEF Analysed
    <3>2. CASE ~Known(s)
      <4>1. PICK f \in DirVals : <<s, f>> \in saPassed' /\ <<s, f>> \notin saPassed
        BY <1>6, <3>2 DEF Known
      <4>2. f = CommonDir(s)
        BY <1>1, <4>1, HistoryChange
      <4> QED
        BY <1>4, <1>6, <2>1, <4>1, <4>2
    <3> QED
      BY <3>1, <3>2
  <2>2. CASE \/ CreateDir(s)
             \/ \E h \in handlers : h.sid = s /\ CreateAgain(h)
    <3>1. requests[s] = 0 \/ Serving(s, HandlerPC)
      <4>1. CASE CreateDir(s)
        <5>1. requests'[s] = requests[s] + 1 /\ requests'[s] <= 1
          BY <1>1, <4>1 DEF CreateDir, TypeInv, TypeOK, Once
        <5>2. requests[s] \in Nat
          BY <1>1, RequestsGrow
        <5> QED
          BY <5>1, <5>2
      <4>2. CASE \E h \in handlers : h.sid = s
        BY <1>1, <4>2 DEF Serving, TypeInv, TypeOK, Handler
      <4> QED
        BY <2>2, <4>1, <4>2
    <3>2. ~Known(s)
      BY <3>1 DEF Alone
    <3>3. saPassed' = saPassed
      BY <2>2 DEF CreateDir, CreateAgain, ghost
    <3> QED
      BY <1>6, <3>2, <3>3 DEF Known
  <2>3. CASE dirs'[s] \in {NoDir, EmptyDir}
    BY <1>2, <1>6, <2>3
  <2>4. ASSUME \/ \E h \in handlers : h.sid = s /\ WipeLeftover(h)
               \/ \E c \in completing : c.by.sid = s /\ (CleanData(c) \/ BackupData(c))
        PROVE  dirs'[s] = NoDir
    BY <1>1, <2>4 DEF WipeLeftover, CleanData, BackupData, TypeInv, TypeOK
  <2> QED
    BY <1>1, <2>1, <2>2, <2>3, <2>4, DirsChange
<1>7. ASSUME NEW v \in workers', v.src \in Attempts
      PROVE  <<v.job.sid, v.src>> \in saPassed'
  <2>0. \A w \in workers : w.job.sid \in Sids
    BY <1>1 DEF TypeInv, TypeOK, Worker, Job
  <2>1. CASE v \in workers
    BY <1>5, <1>7, <2>0, <2>1 DEF Analysed, ScreenedBeforeRun
  <2>2. CASE \E w \in workers : v.job = w.job /\ GoesOn(w, v)
    <3>1. PICK w \in workers : v.job = w.job /\ GoesOn(w, v)
      BY <2>2
    <3>2. CASE v.src = w.src
      BY <1>5, <1>7, <2>0, <3>1, <3>2 DEF Analysed, ScreenedBeforeRun
    <3>3. CASE v.src = CommonDir(w.job.sid)
      <4>1. w.job.sid \in Sids
        BY <1>1 DEF TypeInv, TypeOK, Worker, Job
      <4>2. Known(w.job.sid)
        BY <1>1 DEF OnlyScreened, Screened, Known
      <4>3. dirs[w.job.sid] = v.src
        BY <1>3, <1>7, <3>3, <4>1
      <4> QED
        BY <1>5, <1>7, <3>1, <4>1, <4>2, <4>3 DEF Analysed
    <3> QED
      BY <3>1, <3>2, <3>3 DEF GoesOn
  <2>3. CASE v = MkWorker(Cur)
    BY <1>2, <1>7, <2>3 DEF MkWorker
  <2> QED
    BY <1>1, <2>1, <2>2, <2>3, WorkerOrigin
<1> QED
  BY <1>6, <1>7 DEF Analysed, ScreenedBeforeRun

(* The files stay until the result is delivered or they are backed up.      *)
LEMMA FilesSafeStep ==
  ASSUME CaseInv, Alone, DirsOwn, FilesSafe, OwnEntry', Once', [Next]_vars
  PROVE  FilesSafe'
<1>1. TypeInv /\ HandlersApart /\ WorkersHold /\ OwnEntry /\ TypeInv'
  BY NextTyping DEF CaseInv, ScreenInv, JobsApart
<1>2. Once
  BY <1>1, RequestsGrow
<1>3. \A c \in completing : Kept(c.by.sid) /\ c.by.sid \in Sids
  BY <1>1 DEF FilesSafe, Needed, Closing, TypeInv, TypeOK, Completion, Owner
<1>4. \A s \in Sids : Over(s) => Over(s)'
  BY <1>1, HistoryChange
<1>5. \A s \in Sids : reports[s][1] > 0 => reports'[s][1] > 0
  BY <1>1, HistoryChange
<1>6. ASSUME NEW d \in completing'
      PROVE  /\ d.att = 1
             /\ d.pc = "clean" => reports'[d.by.sid][1] > 0
             /\ d.pc \in {"drop", "cleanup"} => Over(d.by.sid)'
  <2>1. CASE d \in completing
    BY <1>3, <1>4, <1>5, <2>1 DEF FilesSafe
  <2>2. CASE \E c \in completing : Continues(c, d)
    <3>1. PICK c \in completing : Continues(c, d)
      BY <2>2
    <3>2. d.att = 1 /\ c.att = 1 /\ d.by.sid = c.by.sid /\ c.by.sid \in Sids
      BY <1>3, <3>1 DEF FilesSafe, Continues
    <3>3. CASE d.pc = "clean" /\ CountReport(c)
      <4>1. reports \in [Sids -> [Attempts -> 0..2]] /\ 1 \in Attempts
        BY <1>1, Numbers DEF TypeInv, TypeOK
      <4>2. reports'[c.by.sid][1] > 0
        BY <3>2, <3>3, <4>1 DEF CountReport
      <4> QED
        BY <3>2, <3>3, <4>2
    <3>4. CASE CleanData(c) /\ d.pc \in {"raise", "drop"}
      <4>1. reports[c.by.sid][1] > 0
        BY <3>4 DEF CleanData, FilesSafe
      <4>2. Over(d.by.sid)'
        BY <1>4, <3>2, <4>1 DEF Over
      <4> QED
        BY <3>2, <3>4, <4>2
    <3>5. CASE /\ BackupData(c) /\ d.pc = "drop"
               /\ backups' = backups \cup {<<c.by.sid, dirs[c.by.sid]>>}
      <4>1. Kept(c.by.sid)
        BY <1>3
      <4>2. Over(c.by.sid)'
        <5>1. CASE Over(c.by.sid)
          BY <1>4, <3>2, <5>1
        <5>2. CASE dirs[c.by.sid] = 1
          BY <3>5, <5>2 DEF Over
        <5> QED
          BY <4>1, <5>1, <5>2 DEF Kept
      <4> QED
        BY <3>2, <3>5, <4>2
    <3>6. CASE ReleaseContext(c) /\ c.pc = "drop" /\ d.pc = "cleanup"
      <4>1. Over(c.by.sid)
        BY <3>6 DEF FilesSafe
      <4> QED
        BY <1>4, <3>2, <3>6, <4>1
    <3>7. CASE d.pc \in {"backup", "raise", "cleanupx"}
      BY <3>2, <3>7
    <3> QED
      BY <3>1, <3>3, <3>4, <3>5, <3>6, <3>7 DEF Continues
  <2>3. CASE Opens(d)
    <3>1. d.att = ctx'[d.by.sid].att /\ d.by.sid \in Sids /\ d.pc = "put"
      BY <2>3 DEF Opens
    <3>2. d.att \in Attempts
      BY <1>1 DEF TypeInv, TypeOK, Completion
    <3>3. d.att <= requests'[d.by.sid] /\ requests'[d.by.sid] <= 1
      BY <3>1 DEF OwnEntry, Once
    <3>4. requests'[d.by.sid] \in Nat
      BY <1>1, <3>1, RequestsGrow
    <3>5. d.att = 1
      BY <3>2, <3>3, <3>4, ConstantsAssumption DEF Attempts
    <3> QED
      BY <3>1, <3>5
  <2> QED
    BY <1>1, <2>1, <2>2, <2>3, CloserOrigin
<1>7. ASSUME NEW s \in Sids, Needed(s)'
      PROVE  Kept(s)
  <2>1. ASSUME NEW h \in handlers, h.sid = s, h.pc \in {"register", "plan", "enqueue"}
        PROVE  Kept(s)
    BY <2>1 DEF FilesSafe, Needed, Serving
  <2>2. CASE Contains(s)'
    <3>1. CASE Contains(s)
      BY <3>1 DEF FilesSafe, Needed
    <3>2. CASE \E h \in handlers : h.sid = s /\ (FailRequest(h) \/ Register(h))
      BY <2>1, <3>2 DEF FailRequest, Register
    <3> QED
      BY <1>1, <2>2, <3>1, <3>2, EntryOrigin
  <2>3. CASE Serving(s, {"register", "plan", "enqueue"})'
    <3>1. PICK f \in handlers' : f.sid = s /\ f.pc \in {"register", "plan", "enqueue"}
      BY <2>3 DEF Serving
    <3>2. CASE f \in handlers
      BY <2>1, <3>1, <3>2
    <3>3. CASE \E h \in handlers : HandlerStep(h) /\ f.sid = h.sid /\ Onward(h, f)
      <4>1. PICK h \in handlers : HandlerStep(h) /\ f.sid = h.sid /\ Onward(h, f)
        BY <3>3
      <4>2. CASE dirs[h.sid] \in Attempts
        <5>1. /\ dirs[s] \in Attempts /\ dirs[s] <= requests[s] /\ requests[s] <= 1
              /\ requests[s] \in Nat
          BY <1>1, <1>2, <3>1, <4>1, <4>2, RequestsGrow DEF DirsOwn, Once
        <5>2. dirs[s] = 1
          BY <5>1, ConstantsAssumption DEF Attempts
        <5> QED
          BY <5>2 DEF Kept
      <4>3. CASE Register(h) \/ PlanTasks(h)
        BY <2>1, <3>1, <4>1, <4>3 DEF Register, PlanTasks
      <4> QED
        BY <3>1, <4>1, <4>2, <4>3 DEF Onward, FirstPC
    <3>4. CASE \E t \in Sids : Arrives(t, f)
      BY <3>1, <3>4 DEF Arrives, FirstPC
    <3> QED
      BY <1>1, <3>2, <3>3, <3>4, HandlerOrigin
  <2>4. CASE <<s, 1>> \in accepted'
    <3>1. CASE <<s, 1>> \in accepted
      BY <3>1 DEF FilesSafe, Needed
    <3>2. CASE \E h \in handlers : h.sid = s /\ Enqueue(h)
      BY <2>1, <3>2 DEF Enqueue
    <3> QED
      BY <1>1, <2>4, <3>1, <3>2, HistoryChange
  <2>5. CASE Closing(s)'
    <3>1. PICK d \in completing' : d.by.sid = s
      BY <2>5 DEF Closing
    <3>2. CASE d \in completing
      BY <1>3, <3>1, <3>2
    <3>3. CASE \E c \in completing : Continues(c, d)
      BY <1>3, <3>1, <3>3 DEF Continues
    <3>4. CASE Opens(d)
      <4>1. CASE Contains(s)
        BY <4>1 DEF FilesSafe, Needed
      <4>2. CASE \E h \in handlers : FailRequest(h) /\ h.sid = s
        BY <2>1, <4>2 DEF FailRequest
      <4> QED
        BY <1>1, <3>1, <3>4, <4>1, <4>2, OpensFor
    <3> QED
      BY <1>1, <3>2, <3>3, <3>4, CloserOrigin
  <2> QED
    BY <1>7, <2>2, <2>3, <2>4, <2>5 DEF Needed
<1>8. ASSUME NEW s \in Sids, Needed(s)', Kept(s), ~Over(s)
      PROVE  Kept(s)'
  <2>1. dirs[s] = 1 /\ dirs[s] # NoDir
    BY <1>8 DEF Kept, NoDir
  <2>2. CASE dirs'[s] = dirs[s]
    BY <2>1, <2>2 DEF Kept
  <2>3. CASE CreateDir(s)
    BY <2>1, <2>3 DEF CreateDir
  <2>4. CASE \E h \in handlers : h.sid = s /\ WipeLeftover(h)
    <3>1. PICK h \in handlers : h.sid = s /\ WipeLeftover(h)
      BY <2>4
    <3>2. /\ ctx' = ctx /\ completing' = completing /\ accepted' = accepted
          /\ h.pc = "wipe" /\ Goto(h, "again")
      BY <2>1, <3>1 DEF WipeLeftover, ghost
    <3>3. ~Contains(s)
      BY <1>1, <1>2, <3>1, <3>2, NoEntryYet DEF Early, HandlerPC
    <3>4. Serving(s, HandlerPC)
      BY <3>1, <3>2 DEF Serving, HandlerPC
    <3>5. ~Closing(s) /\ <<s, 1>> \notin accepted
      BY <3>4 DEF Alone
    <3>6. ~Serving(s, {"register", "plan", "enqueue"})'
      <4>1. \A g \in handlers : g.sid = s => g = h
        BY <1>1, <1>2, <3>1, OneHandler
      <4>2. h \in Handler
        BY <1>1 DEF TypeInv, TypeOK
      <4>3. PICK g : g = [h EXCEPT !.pc = "again"]
        OBVIOUS
      <4>4. g.pc = "again"
        BY <4>2, <4>3 DEF Handler
      <4>5. handlers' = (handlers \ {h}) \cup {g}
        BY <3>2, <4>3 DEF Goto
      <4> QED
        BY <4>1, <4>4, <4>5 DEF Serving
    <3> QED
      BY <1>8, <3>2, <3>3, <3>5, <3>6 DEF Needed, Contains, Closing
  <2>5. CASE \E c \in completing : c.by.sid = s /\ CleanData(c)
    BY <1>8, <2>5 DEF CleanData, FilesSafe, Over
  <2>6. CASE \E c \in completing : c.by.sid = s /\ BackupData(c)
    <3>1. <<s, 1>> \in backups'
      BY <2>1, <2>6 DEF BackupData
    <3> QED
      BY <3>1 DEF Kept, Over
  <2> QED
    BY <1>1, <2>1, <2>2, <2>3, <2>4, <2>5, <2>6, DirsChange
<1>9. \A s \in Sids : Needed(s)' => Kept(s)'
  BY <1>4, <1>7, <1>8 DEF Kept
<1> QED
  BY <1>6, <1>9 DEF FilesSafe

-----------------------------------------------------------------------------
(* The theorems.                                                            *)
LEMMA InitOnce == Init => DirsOwn /\ OnceInv
<1> SUFFICES ASSUME Init PROVE DirsOwn /\ OnceInv
  OBVIOUS
<1>1. NoDir \notin Attempts /\ EmptyDir \notin Attempts
  BY ConstantsAssumption DEF NoDir, EmptyDir, Attempts
<1>2. \A s \in Sids : /\ dirs[s] \notin Attempts /\ ~Contains(s)
                      /\ ~AtWork(s) /\ ~Closing(s) /\ ~Known(s)
  BY <1>1, RangeFew DEF Init, NoContext, Contains, AtWork, Outside, Closing, Known
<1>3. handlers = {} /\ completing = {} /\ workers = {} /\ trials = {} /\ accepted = {}
  BY DEF Init
<1>4. DirsOwn
  BY <1>2 DEF DirsOwn
<1>5. Alone
  BY <1>2, <1>3 DEF Alone
<1>6. Marked
  BY <1>2, <1>3 DEF Marked, EndpointMatches, Serving
<1>7. Prepared
  BY <1>2, <1>3 DEF Prepared, Serving
<1>8. Analysed
  BY <1>2, <1>3 DEF Analysed, ScreenedBeforeRun
<1>9. FilesSafe
  BY <1>2, <1>3 DEF FilesSafe, Needed, Serving
<1> QED
  BY <1>4, <1>5, <1>6, <1>7, <1>8, <1>9 DEF OnceInv

(* Every step keeps the invariant of ids requested once.                    *)
LEMMA OnceStep ==
  ASSUME CaseInv, OwnEntry', DirsOwn, Once => OnceInv, [Next]_vars
  PROVE  DirsOwn' /\ (Once' => OnceInv')
<1>1. TypeInv /\ HandlersApart
  BY DEF CaseInv, ScreenInv, JobsApart
<1>2. DirsOwn'
  BY <1>1, DirsOwnStep
<1>3. ASSUME Once' PROVE OnceInv'
  <2>1. OnceInv
    BY <1>1, <1>3, RequestsGrow
  <2>2. Alone /\ Marked /\ Prepared /\ Analysed /\ FilesSafe
    BY <2>1 DEF OnceInv
  <2>3. Alone'
    BY <1>3, <2>2, AloneStep
  <2>4. Marked'
    BY <1>3, <2>2, MarkedStep
  <2>5. Prepared'
    BY <1>3, <2>2, PreparedStep
  <2>6. Analysed'
    BY <1>3, <2>2, AnalysedStep
  <2>7. FilesSafe'
    BY <1>3, <2>2, FilesSafeStep
  <2> QED
    BY <2>3, <2>4, <2>5, <2>6, <2>7 DEF OnceInv
<1> QED
  BY <1>2, <1>3

OnceHolds == CaseInv /\ DirsOwn /\ (Once => OnceInv)

(* It holds in every reachable state.                                       *)
LEMMA OnceHolding == Spec => []OnceHolds
<1>1. Init => OnceHolds
  BY InitCases, InitOnce DEF OnceHolds
<1>2. OnceHolds /\ [Next]_vars => OnceHolds'
  <2> SUFFICES ASSUME OnceHolds, [Next]_vars PROVE OnceHolds'
    OBVIOUS
  <2>1. CaseInv' /\ OwnEntry'
    BY CaseStep DEF OnceHolds, CaseInv
  <2>2. DirsOwn' /\ (Once' => OnceInv')
    BY <2>1, OnceStep DEF OnceHolds
  <2> QED
    BY <2>1, <2>2 DEF OnceHolds
<1> QED
  BY <1>1, <1>2, PTL DEF Spec

(* The result of an id that was requested once goes to the endpoint of its  *)
(* kind of submission, whatever times out, dies or overlaps, for any number *)
(* of other ids: the mark of a trial is set before its entry is made and    *)
(* removed with it.                                                         *)
THEOREM EndpointRight == Spec => [](Once => EndpointMatches)
<1>1. OnceHolds => (Once => EndpointMatches)
  BY DEF OnceHolds, OnceInv, Marked
<1> QED
  BY <1>1, OnceHolding, PTL

(* An id that was requested once has the checker and scorer handle()        *)
(* prepared as long as it has an entry: release() forgets the entry first.  *)
THEOREM CheckerStays == Spec => [](Once => CustomKept)
<1>1. OnceHolds => (Once => CustomKept)
  BY DEF OnceHolds, OnceInv, Prepared, CustomKept
<1> QED
  BY <1>1, OnceHolding, PTL

(* The files of an id that was requested once reach the compiler, make or a *)
(* container only after the analysis has accepted these very files,         *)
(* although _common_dir() makes a new tree where there is none and the      *)
(* analysis and the threads look at the directory at different times.       *)
THEOREM ScreenedFirst == Spec => [](Once => ScreenedBeforeRun)
<1>1. OnceHolds => (Once => ScreenedBeforeRun)
  BY DEF OnceHolds, OnceInv, Analysed
<1> QED
  BY <1>1, OnceHolding, PTL

(* When an id that was requested once is released without an exception, the *)
(* backend has its result or the backup its files, although any number of   *)
(* threads may complete it and the directory be gone for one of them.       *)
THEOREM ResultOrBackup == Spec => [](Once => NothingLost)
<1>1. OnceHolds => (Once => NothingLost)
  <2> SUFFICES ASSUME OnceHolds, Once,
                      NEW c \in completing, c.pc \in {"drop", "cleanup"}
               PROVE  reports[c.by.sid][c.att] > 0 \/ <<c.by.sid, c.att>> \in backups
    BY DEF NothingLost
  <2>1. c.att = 1 /\ Over(c.by.sid)
    BY DEF OnceHolds, OnceInv, FilesSafe
  <2> QED
    BY <2>1 DEF Over
<1> QED
  BY <1>1, OnceHolding, PTL

(* As long as no id is requested twice, the files of an accepted submission *)
(* leave its directory only after the backend has its result, or into the   *)
(* backup.                                                                  *)
THEOREM FilesStay == Spec /\ []Once => FilesKept
<1> DEFINE Keeps == \A s \in Sids :
             (<<s, dirs[s]>> \in accepted /\ dirs'[s] # dirs[s])
               => reports[s][dirs[s]] > 0 \/ <<s, dirs[s]>> \in backups'
<1>1. OnceHolds /\ Once /\ [Next]_vars => [Keeps]_dirs
  <2> SUFFICES ASSUME OnceHolds, Once, [Next]_vars, NEW s \in Sids,
                      <<s, dirs[s]>> \in accepted, dirs'[s] # dirs[s]
               PROVE  reports[s][dirs[s]] > 0 \/ <<s, dirs[s]>> \in backups'
    OBVIOUS
  <2>1. TypeInv /\ Alone /\ DirsOwn /\ FilesSafe
    BY DEF OnceHolds, OnceInv, CaseInv, ScreenInv
  <2>2. dirs[s] \in Attempts
    BY <2>1 DEF TypeInv, TypeOK
  <2>3. dirs[s] = 1 /\ dirs[s] # NoDir
    <3>1. dirs[s] <= requests[s] /\ requests[s] <= 1 /\ requests[s] \in 0..MaxRequests
      BY <2>1, <2>2 DEF DirsOwn, Once, TypeInv, TypeOK
    <3> QED
      BY <2>2, <3>1, ConstantsAssumption DEF Attempts, NoDir
  <2>4. ~\E h \in handlers : h.sid = s
    BY <2>1, <2>3 DEF Alone, Serving, TypeInv, TypeOK, Handler
  <2>5. ~CreateDir(s)
    BY <2>3 DEF CreateDir
  <2>6. CASE \E c \in completing : c.by.sid = s /\ CleanData(c)
    BY <2>1, <2>3, <2>6 DEF CleanData, FilesSafe
  <2>7. CASE \E c \in completing : c.by.sid = s /\ BackupData(c)
    BY <2>3, <2>7 DEF BackupData
  <2> QED
    BY <2>1, <2>3, <2>4, <2>5, <2>6, <2>7, DirsChange
<1>2. Spec /\ []Once => [][Keeps]_dirs
  <2> HIDE DEF Keeps
  <2> QED
    BY <1>1, OnceHolding, PTL DEF Spec
<1> QED
  BY <1>2 DEF FilesKept

=============================================================================
