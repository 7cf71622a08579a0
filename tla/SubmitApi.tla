----------------------------- MODULE SubmitApi -----------------------------
(***************************************************************************)
(* The HTTP side: submit() of app.py, Dispatcher.prepare_submission_dir    *)
(* and Dispatcher.handle.  A handler is one gunicorn thread serving one    *)
(* request.  Its steps are the stretches of code between the points where  *)
(* the thread may wait (downloads, the teacher's build, Docker calls,      *)
(* directory trees) and where another thread's work on the same submission *)
(* id makes a difference.                                                  *)
(*                                                                         *)
(* Test data and meta are at hand when a handler starts: their download    *)
(* precedes everything modelled here and changes none of this state.       *)
(***************************************************************************)
EXTENDS JudgeState

(* HTTP threads that are busy, the ones inside on_submission_complete too.  *)
BusyHttp == Cardinality(handlers)
              + Cardinality({c \in completing : c.by.kind = "http"})

Goto(h, pc) == handlers' = (handlers \ {h}) \cup {[h EXCEPT !.pc = pc]}
Leave(h)    == handlers' = handlers \ {h}
Arrive(s, pc) ==
  handlers' = handlers \cup {[sid |-> s, att |-> requests'[s], pc |-> pc]}

(* handle() marks a trial before anything else; others start at its checks. *)
FirstPC(s) == IF prof[s].trial THEN "handle" ELSE "check"

(* A request for s: extract() wins the mkdir and unpacks the source.  When  *)
(* the source is malformed it raises ValueError, the answer is 400 and the  *)
(* directory stays behind.                                                  *)
CreateDir(s) ==
  /\ requests[s] < MaxRequests /\ BusyHttp < HttpThreads
  /\ dirs[s] = NoDir
  /\ requests' = [requests EXCEPT ![s] = @ + 1]
  /\ dirs' = [dirs EXCEPT ![s] = requests'[s]]
  /\ \/ Arrive(s, FirstPC(s))
     \/ UNCHANGED handlers
  /\ UNCHANGED <<queue, ctx, trials, custom, containers, backups, disp, workers,
                 completing, prof, accepted, saPassed, reports>>

(* Mutant of IsLeftover: any existing directory is taken for a leftover.    *)
AnyLeftover(s) == TRUE

(* A directory whose id is unknown or timed out is left over from an        *)
(* earlier request.  (created_at without entry is a KeyError.)              *)
IsLeftover(s) == ~Contains(s) \/ (ctx[s].lock # 0 /\ ctx[s].expired)

(* The directory exists: the request is refused with 409 and nothing        *)
(* changes, unless it is a leftover.  Only the latter is a step.            *)
FindLeftover(s) ==
  /\ requests[s] < MaxRequests /\ BusyHttp < HttpThreads
  /\ dirs[s] # NoDir
  /\ IsLeftover(s)
  /\ requests' = [requests EXCEPT ![s] = @ + 1]
  /\ Arrive(s, "forget")
  /\ UNCHANGED <<queue, ctx, trials, custom, containers, files, disp, workers,
                 completing, prof, accepted, saPassed, reports>>

(* prepare_submission_dir: self.release(submission_id) ...                  *)
ForgetLeftover(h) ==
  /\ h.pc = "forget"
  /\ ForgetContext(h.sid)
  /\ Goto(h, "wipe")
  /\ UNCHANGED <<queue, trials, custom, containers, files, disp, workers,
                 completing, ghost>>

(* ... its end, and shutil.rmtree, which raises when the directory is gone  *)
WipeLeftover(h) ==
  /\ h.pc = "wipe"
  /\ ForgetCustom(h.sid)
  /\ dirs' = [dirs EXCEPT ![h.sid] = NoDir]
  /\ IF dirs[h.sid] = NoDir THEN Leave(h) ELSE Goto(h, "again")
  /\ UNCHANGED <<queue, ctx, trials, containers, backups, disp, workers,
                 completing, ghost>>

(* ... and the second create(), refused when another request came first.    *)
CreateAgain(h) ==
  /\ h.pc = "again"
  /\ IF dirs[h.sid] = NoDir
       THEN /\ dirs' = [dirs EXCEPT ![h.sid] = h.att]
            /\ Goto(h, FirstPC(h.sid)) \/ Leave(h)
       ELSE Leave(h) /\ UNCHANGED dirs
  /\ UNCHANGED <<queue, ctx, trials, custom, containers, backups, disp, workers,
                 completing, ghost>>

-----------------------------------------------------------------------------
(* handle() *)

(* A trial is entered in trial_submissions before the checks.               *)
MarkTrial(h) ==
  /\ h.pc = "handle"
  /\ trials' = trials \cup {h.sid}
  /\ Goto(h, "check")
  /\ UNCHANGED <<queue, ctx, custom, containers, files, disp, workers,
                 completing, ghost>>

(* The checks; when they pass, the custom checker and scorer are prepared.  *)
(* A tree that _common_dir() has made meanwhile has no meta.json to read.   *)
CheckRequest(h) ==
  /\ h.pc = "check"
  /\ IF dirs[h.sid] \notin Attempts \/ Contains(h.sid)
       THEN Leave(h) /\ UNCHANGED custom
       ELSE /\ Goto(h, "register")
            /\ custom' = IF prof[h.sid].custom THEN custom \cup {h.sid}
                                               ELSE custom \ {h.sid}
  /\ UNCHANGED <<queue, ctx, trials, containers, files, disp, workers,
                 completing, ghost>>

(* The resource data or, later, the build plan cannot be prepared: the      *)
(* handler gives every case the same verdict and reports at once.  Before   *)
(* Register neither locks nor created_at are set.                           *)
FailRequest(h) ==
  /\ h.pc \in {"register", "plan"}
  /\ FailAll(h.sid, h.att, h.att)
  /\ Complete(HttpThread(h), 0)
  /\ Leave(h)
  /\ UNCHANGED <<queue, trials, custom, containers, files, disp, workers, ghost>>

(* The submission's context is created, its cases still unknown.            *)
Register(h) ==
  /\ h.pc = "register"
  /\ ctx' = [ctx EXCEPT ![h.sid].att = h.att, ![h.sid].cases = {},
               ![h.sid].rec = Blank, ![h.sid].lock = h.att,
               ![h.sid].expired = FALSE]
  /\ Goto(h, "plan")
  /\ UNCHANGED <<queue, trials, custom, containers, files, disp, workers,
                 completing, ghost>>

(* The jobs of an attempt in the order they are appended to tasks_to_run.   *)
TasksToRun(s, a) ==
  (IF prof[s].make THEN <<MkJob("build", s, 0, a)>>
   ELSE IF prof[s].compiled THEN <<MkJob("compile", s, 0, a)>> ELSE <<>>)
    \o [c \in AllCases(s) |-> MkJob("exec", s, c, a)]

(* The build plan, the pending tasks, and the cases in task_content, which  *)
(* is the dictionary in self.result unless another handler replaced it.     *)
PlanTasks(h) ==
  LET s == h.sid
      p == prof[s]
  IN /\ h.pc = "plan"
     /\ ctx' = [ctx EXCEPT
          ![s].plan     = IF p.make THEN h.att ELSE @,
          ![s].prebuilt = @ \/ (~p.make /\ ~p.compiled),
          ![s].cases    = IF ctx[s].att = h.att THEN AllCases(s) ELSE @,
          ![s].pending  = TasksToRun(s, h.att)]
     /\ Goto(h, "enqueue")
     /\ UNCHANGED <<queue, trials, custom, containers, files, disp, workers,
                    completing, ghost>>

(* Mutants of FirstJob: no static analysis of a known id, or none at all.   *)
FirstUnlessKnown(h) ==
  LET known == \E f \in DirVals : <<h.sid, f>> \in saPassed
  IN MkJob(IF known THEN "net" ELSE "sa", h.sid, 0, h.att)
FirstUnscreened(h) == MkJob("net", h.sid, 0, h.att)

FirstJob(h) == MkJob("sa", h.sid, 0, h.att)

(* put_nowait of the StaticAnalysis job.                                    *)
Enqueue(h) ==
  /\ h.pc = "enqueue"
  /\ Len(queue) < QueueSize
  /\ queue' = Append(queue, FirstJob(h))
  /\ accepted' = accepted \cup {<<h.sid, h.att>>}
  /\ Leave(h)
  /\ UNCHANGED <<ctx, trials, custom, containers, files, disp, workers,
                 completing, prof, requests, saPassed, reports>>

(* queue.Full: release, then 500 "re-send the submission"; the directory    *)
(* and the trial mark stay.                                                 *)
RejectFull(h) ==
  /\ h.pc = "enqueue"
  /\ Len(queue) >= QueueSize
  /\ ForgetContext(h.sid)
  /\ Goto(h, "unwind")
  /\ UNCHANGED <<queue, trials, custom, containers, files, disp, workers,
                 completing, ghost>>

UnwindRequest(h) ==
  /\ h.pc = "unwind"
  /\ ForgetCustom(h.sid)
  /\ Leave(h)
  /\ UNCHANGED <<queue, ctx, trials, containers, files, disp, workers,
                 completing, ghost>>

HandlerStep(h) ==
  \/ ForgetLeftover(h) \/ WipeLeftover(h) \/ CreateAgain(h)
  \/ MarkTrial(h) \/ CheckRequest(h) \/ FailRequest(h) \/ Register(h)
  \/ PlanTasks(h) \/ Enqueue(h) \/ RejectFull(h) \/ UnwindRequest(h)

(* The submission timeout: 300 s after created_at.                          *)
Expire(s) ==
  /\ MayExpire
  /\ Contains(s) /\ ctx[s].lock # 0 /\ ~ctx[s].expired
  /\ ctx' = [ctx EXCEPT ![s].expired = TRUE]
  /\ UNCHANGED <<queue, trials, custom, containers, files, handlers, disp,
                 workers, completing, ghost>>
=============================================================================
