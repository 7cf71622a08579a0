---------------------------- MODULE DispatchLoop ----------------------------
(***************************************************************************)
(* Dispatcher.run, the one thread that takes jobs from the queue.  What it *)
(* does before it can wait is one step: taking a job and finding its id in *)
(* self.result; looking at the job again and branching on its kind; the    *)
(* outcome of a static analysis or a network set-up; each blocking put.    *)
(*                                                                         *)
(* hand holds the job the thread works on (pc in check, sa, saexc, net,    *)
(* report) or the jobs it still has to put (pc = put).  fatal says that an *)
(* exception out of on_submission_complete would leave run().              *)
(***************************************************************************)
EXTENDS CaseWorkers

Cur == Head(disp.hand)
Loop == disp' = [pc |-> "loop", hand |-> <<>>, fatal |-> FALSE]
At(pc, hand) == disp' = [disp EXCEPT !.pc = pc, !.hand = hand]

(* What run() itself never changes, on_submission_complete apart.           *)
others == <<trials, custom, containers, files, handlers, prof, requests,
            accepted, reports>>

(* A job is taken while there is room for a container; when its id is not   *)
(* in self.result it is discarded.                                          *)
TakeJob ==
  /\ disp.pc = "loop"
  /\ queue # <<>>
  /\ containers < MaxContainers
  /\ queue' = Tail(queue)
  /\ IF Contains(Head(queue).sid) THEN At("check", <<Head(queue)>>) ELSE Loop
  /\ UNCHANGED <<others, ctx, workers, completing, saPassed>>

(* is_timed_out: True needs an entry in self.result.                        *)
TimedOut(s) == Contains(s) /\ ctx[s].expired

(* A job of a timed out submission is dropped.                              *)
DropTimedOut ==
  /\ disp.pc = "check"
  /\ TimedOut(Cur.sid)
  /\ Loop
  /\ UNCHANGED <<others, queue, ctx, workers, completing, saPassed>>

(* _has_pending_normal_jobs: some result of a normal submission is None.    *)
HasPendingNormalJobs ==
  \E s \in Sids \ trials : \E c \in ctx[s].cases : ctx[s].rec[c] = 0

(* created_at has an entry, or is not looked at; and the job is in time.    *)
Due(s) == ~TimedOut(s) /\ (Contains(s) => ctx[s].lock # 0)

Deferred(s) == s \in trials /\ HasPendingNormalJobs

(* Mutant of DeferTrial: a deferred trial is not deferred again.            *)
PromoteTrial ==
  /\ disp.pc = "check"
  /\ Due(Cur.sid) /\ Deferred(Cur.sid)
  /\ At("put", disp.hand)
  /\ trials' = trials \ {Cur.sid}
  /\ UNCHANGED <<custom, containers, files, handlers, ghost, queue, ctx, workers,
                 completing>>

(* A job of a trial goes to the end of the queue while normal jobs pend.    *)
DeferTrial ==
  /\ disp.pc = "check"
  /\ Due(Cur.sid) /\ Deferred(Cur.sid)
  /\ At("put", disp.hand)
  /\ UNCHANGED <<others, queue, ctx, workers, completing, saPassed>>

(* The id was released since the job was taken, or never got a created_at:  *)
(* a KeyError nobody catches ends the dispatcher thread.                    *)
LoseDispatcher ==
  /\ disp.pc = "check"
  /\ \/ ~Contains(Cur.sid) /\ ~Deferred(Cur.sid)
     \/ Contains(Cur.sid) /\ ctx[Cur.sid].lock = 0
  /\ At("dead", <<>>)
  /\ UNCHANGED <<others, queue, ctx, workers, completing, saPassed>>

(* The job is to be run now.                                                *)
Ready(kinds) ==
  /\ disp.pc = "check"
  /\ Contains(Cur.sid) /\ Due(Cur.sid) /\ ~Deferred(Cur.sid)
  /\ Cur.kind \in kinds

StartAnalysis ==
  /\ Ready({"sa"})
  /\ At("sa", disp.hand)
  /\ UNCHANGED <<others, queue, ctx, workers, completing, saPassed>>

StartNetwork ==
  /\ Ready({"net"})
  /\ At("net", disp.hand)
  /\ UNCHANGED <<others, queue, ctx, workers, completing, saPassed>>

Spawn(j) == workers' = workers \cup {MkWorker(j)}

StartBuildThread ==
  /\ Ready({"build"})
  /\ Spawn(Cur)
  /\ Loop
  /\ UNCHANGED <<others, queue, ctx, completing, saPassed>>

BuildPending(s) == ctx[s].plan # 0

StartCompileThread ==
  /\ Ready({"compile"})
  /\ ~BuildPending(Cur.sid)
  /\ Spawn(Cur)
  /\ Loop
  /\ UNCHANGED <<others, queue, ctx, completing, saPassed>>

(* Mutant of AwaitsCompile: compile_need is inverted.                       *)
AwaitsInterpreted(s) ==
  ~ctx[s].prebuilt /\ ~prof[s].compiled /\ ctx[s].compiled = "none"

(* The program of the case is not compiled yet.                             *)
AwaitsCompile(s) ==
  ~ctx[s].prebuilt /\ prof[s].compiled /\ ctx[s].compiled = "none"

StartCaseThread ==
  /\ Ready({"exec"})
  /\ ~BuildPending(Cur.sid)
  /\ ~AwaitsCompile(Cur.sid)
  /\ Spawn(Cur)
  /\ Loop
  /\ UNCHANGED <<others, queue, ctx, completing, saPassed>>

(* Back to the end of the queue while the build or the compile is pending.  *)
Requeue ==
  /\ Ready({"compile", "exec"})
  /\ BuildPending(Cur.sid) \/ (Cur.kind = "exec" /\ AwaitsCompile(Cur.sid))
  /\ At("put", disp.hand)
  /\ UNCHANGED <<others, queue, ctx, workers, completing, saPassed>>

(* queue.put waits while the queue is full.                                 *)
PutJob ==
  /\ disp.pc = "put" /\ disp.hand # <<>>
  /\ Len(queue) < QueueSize
  /\ queue' = Append(queue, Cur)
  /\ IF Tail(disp.hand) = <<>> THEN Loop ELSE At("put", Tail(disp.hand))
  /\ UNCHANGED <<others, ctx, workers, completing, saPassed>>

-----------------------------------------------------------------------------
(* The dispatcher thread itself completes a submission that failed.         *)
FailSubmission(label, fatal) ==
  LET s == Cur.sid
  IN IF Contains(s)
       THEN /\ FailAll(s, ctx[s].att, label)
            /\ Complete(DispThread(s), 0)
            /\ disp' = [disp EXCEPT !.pc = "report", !.fatal = fatal]
       ELSE Loop /\ UNCHANGED <<ctx, completing>>

(* run_static_analysis accepts the files that are there; the next job is    *)
(* the network set-up, the submission's other jobs stay in pending_tasks.   *)
PassAnalysis ==
  /\ disp.pc = "sa"
  /\ saPassed' = saPassed \cup {<<Cur.sid, CommonDir(Cur.sid)>>}
  /\ At("put", <<[Cur EXCEPT !.kind = "net"]>>)
  /\ UNCHANGED <<others, queue, ctx, workers, completing>>

FailAnalysis ==
  /\ disp.pc = "sa"
  /\ FailSubmission(CommonDir(Cur.sid), FALSE)
  /\ UNCHANGED <<others, queue, workers, saPassed>>

(* The except clause: an exception during the analysis or the report of its *)
(* failure marks the submission failed (again).                             *)
RaiseAnalysis ==
  /\ disp.pc \in {"sa", "saexc"}
  /\ FailSubmission(CommonDir(Cur.sid), TRUE)
  /\ UNCHANGED <<others, queue, workers, saPassed>>

(* Mutant of FinishNetwork: the pending tasks are read, not popped.         *)
KeepPending ==
  /\ disp.pc = "net"
  /\ IF ctx[Cur.sid].pending = <<>> THEN Loop ELSE At("put", ctx[Cur.sid].pending)
  /\ UNCHANGED <<others, queue, ctx, workers, completing, saPassed>>

(* provision_network succeeds: the pending tasks are released.              *)
FinishNetwork ==
  LET pending == ctx[Cur.sid].pending
  IN /\ disp.pc = "net"
     /\ ctx' = [ctx EXCEPT ![Cur.sid].pending = <<>>]
     /\ IF pending = <<>> THEN Loop ELSE At("put", pending)
     /\ UNCHANGED <<others, queue, workers, completing, saPassed>>

FailNetwork ==
  /\ disp.pc = "net"
  /\ FailSubmission(ctx[Cur.sid].att, TRUE)
  /\ UNCHANGED <<others, queue, workers, saPassed>>

DispatcherStep ==
  \/ TakeJob \/ DropTimedOut \/ DeferTrial \/ LoseDispatcher
  \/ StartAnalysis \/ StartNetwork \/ StartBuildThread \/ StartCompileThread
  \/ StartCaseThread \/ Requeue \/ PutJob
  \/ PassAnalysis \/ FailAnalysis \/ RaiseAnalysis
  \/ FinishNetwork \/ FailNetwork
=============================================================================
