---------------------------- MODULE CaseWorkers ----------------------------
(***************************************************************************)
(* The threads the dispatcher starts: Dispatcher.build, .compile and       *)
(* .create_container with .on_case_complete.  A worker is a thread of the  *)
(* Python process; its job says what it does, src whose files it works on, *)
(* lk the lock object it holds or waits for (0: none).                     *)
(*                                                                         *)
(* MayRaise lets a call into Docker or the file system raise: none of      *)
(* these threads catches what the runners let through, so it is gone.      *)
(***************************************************************************)
EXTENDS Reporting

Step(w, v) == workers' = (workers \ {w}) \cup {v}
Die(w)     == workers' = workers \ {w}

Is(w, kind, pc) == w.job.kind = kind /\ w.pc = pc

(* A lock object of s is held: by the thread that builds or compiles ...    *)
LockedBy(kind, s, lk) ==
  \E w \in workers : Is(w, kind, "busy") /\ w.job.sid = s /\ w.lk = lk

(* ... and a case lock by the case thread that completes the submission.    *)
CaseLocked(s, lk) ==
  \E c \in completing : c.by.kind = "exec" /\ c.by.sid = s /\ c.lk = lk

(* _mark_submission_failed: nothing when the id is gone; otherwise all      *)
(* cases fail and this thread completes the submission, whatever the other  *)
(* threads of the submission are doing.                                     *)
MarkFailed(w, label) ==
  LET s == w.job.sid
  IN /\ Die(w)
     /\ IF Contains(s) THEN FailAll(s, ctx[s].att, label) /\ Complete(w.job, w.lk)
                       ELSE UNCHANGED <<ctx, completing>>

-----------------------------------------------------------------------------
(* compile() *)

(* A compile that finds no lock raises KeyError, one that finds it held     *)
(* returns; otherwise the thread takes the lock and compiles what is there. *)
StartCompile(w) ==
  LET s  == w.job.sid
      lk == ctx[s].lock
  IN /\ Is(w, "compile", "start")
     /\ IF lk = 0 \/ LockedBy("compile", s, lk)
          THEN Die(w) /\ UNCHANGED dirs
          ELSE /\ dirs' = [dirs EXCEPT ![s] = CommonDir(s)]
               /\ Step(w, [w EXCEPT !.pc = "busy", !.lk = lk, !.src = CommonDir(s)])
     /\ UNCHANGED <<queue, ctx, trials, custom, containers, backups, handlers,
                    disp, completing, ghost>>

(* The result is stored under the id, whoever the id belongs to by then.    *)
FinishCompile(w) ==
  /\ Is(w, "compile", "busy")
  /\ \E status \in {"AC", "CE"} : ctx' = [ctx EXCEPT ![w.job.sid].compiled = status]
  /\ Die(w)
  /\ UNCHANGED <<queue, trials, custom, containers, files, handlers, disp,
                 completing, ghost>>

-----------------------------------------------------------------------------
(* build() *)

StartBuild(w) ==
  LET s    == w.job.sid
      plan == ctx[s].plan
  IN /\ Is(w, "build", "start")
     /\ IF plan = 0 \/ LockedBy("build", s, plan)
          THEN Die(w) /\ UNCHANGED dirs
          ELSE /\ dirs' = [dirs EXCEPT ![s] = CommonDir(s)]
               /\ Step(w, [w EXCEPT !.pc = "busy", !.lk = plan, !.src = CommonDir(s)])
     /\ UNCHANGED <<queue, ctx, trials, custom, containers, backups, handlers,
                    disp, completing, ghost>>

(* Mutant of EndPlan: the plan stays in build_plans.                        *)
KeepPlan(s, built) == ctx' = [ctx EXCEPT ![s].prebuilt = built]

EndPlan(s, built) ==
  ctx' = [ctx EXCEPT ![s].prebuilt = built, ![s].plan = 0]

(* make and the plan's finalize() succeed ...                               *)
FinishBuild(w) ==
  /\ Is(w, "build", "busy")
  /\ EndPlan(w.job.sid, TRUE)
  /\ Die(w)
  /\ UNCHANGED <<queue, trials, custom, containers, files, handlers, disp,
                 completing, ghost>>

(* ... or one of them fails.  _handle_build_failure drops the plan first,   *)
FailBuild(w) ==
  /\ Is(w, "build", "busy")
  /\ EndPlan(w.job.sid, FALSE)
  /\ Step(w, [w EXCEPT !.pc = "clear"])
  /\ UNCHANGED <<queue, trials, custom, containers, files, handlers, disp,
                 completing, ghost>>

(* Mutant of ClearJobs: the jobs to put back are copied, not taken.         *)
CopyJobs(w) ==
  /\ Is(w, "build", "clear")
  /\ Step(w, [w EXCEPT !.pc = "fail", !.back = queue])
  /\ UNCHANGED <<queue, ctx, trials, custom, containers, files, handlers, disp,
                 completing, ghost>>

(* _clear_submission_jobs then empties the queue ...                        *)
ClearJobs(w) ==
  /\ Is(w, "build", "clear")
  /\ queue' = <<>>
  /\ Step(w, [w EXCEPT !.pc = "fail", !.back = queue])
  /\ UNCHANGED <<ctx, trials, custom, containers, files, handlers, disp,
                 completing, ghost>>

(* Mutant of OthersJobs: no job is kept.                                    *)
NobodysJobs(w) == {}

(* ... and puts back the jobs of other submissions one by one, waiting      *)
(* while the queue is full,                                                 *)
OthersJobs(w) == {i \in 1..Len(w.back) : w.back[i].sid # w.job.sid}

PutBack(w) ==
  /\ Is(w, "build", "fail")
  /\ Len(queue) < QueueSize
  /\ \E i \in OthersJobs(w) :
       /\ \A k \in OthersJobs(w) : i <= k
       /\ queue' = Append(queue, w.back[i])
       /\ Step(w, [w EXCEPT !.back = SubSeq(@, i + 1, Len(@))])
  /\ UNCHANGED <<ctx, trials, custom, containers, files, handlers, disp,
                 completing, ghost>>

(* and only then the submission is marked CE.                               *)
MarkBuildFailed(w) ==
  /\ Is(w, "build", "fail")
  /\ OthersJobs(w) = {}
  /\ MarkFailed(w, w.src)
  /\ UNCHANGED <<queue, trials, custom, containers, files, handlers, disp, ghost>>

-----------------------------------------------------------------------------
(* create_container() *)

(* The case directory is made from the common directory; a submission whose *)
(* directory is gone gets an empty one.  When the case directory or its     *)
(* resources cannot be made the verdict is JE, recorded under the lock if   *)
(* there is one.                                                            *)
PrepareCase(w) ==
  LET s == w.job.sid
  IN /\ Is(w, "exec", "start")
     /\ dirs' = [dirs EXCEPT ![s] = CommonDir(s)]
     /\ \/ Step(w, [w EXCEPT !.pc = "busy", !.src = CommonDir(s)])
        \/ Step(w, [w EXCEPT !.pc = "record", !.src = CommonDir(s),
                             !.lk = ctx[s].lock])
     /\ UNCHANGED <<queue, ctx, trials, custom, containers, backups, handlers,
                    disp, completing, ghost>>

(* An interactive case looks up teacherLang in the meta, which it gets from *)
(* self.result: an id without entry has none.                               *)
LacksTeacher(s) ==
  \/ prof[s].mode = "noTeacher"
  \/ prof[s].mode = "interactive" /\ ~Contains(s)

(* Without teacherLang this thread marks the whole submission JE.           *)
NoTeacher(w) ==
  /\ Is(w, "exec", "busy")
  /\ LacksTeacher(w.job.sid)
  /\ MarkFailed(w, ctx[w.job.sid].att)
  /\ UNCHANGED <<queue, trials, custom, containers, files, handlers, disp, ghost>>

(* extract_compile_result: a missing result counts as CE for a compiled     *)
(* language, unless the submission is prebuilt.                             *)
CompileStatus(s) ==
  IF ctx[s].compiled # "none" THEN ctx[s].compiled
  ELSE IF ctx[s].prebuilt \/ ~prof[s].compiled THEN "AC" ELSE "CE"

(* inc_container and the run of the case in its container, or no run at all *)
(* after a compile error.                                                   *)
RunCase(w) ==
  LET s == w.job.sid
  IN /\ Is(w, "exec", "busy")
     /\ ~LacksTeacher(s)
     /\ IF CompileStatus(s) = "CE"
          THEN Step(w, [w EXCEPT !.pc = "lock"]) /\ UNCHANGED containers
          ELSE Step(w, [w EXCEPT !.pc = "run"]) /\ containers' = containers + 1
     /\ UNCHANGED <<queue, ctx, trials, custom, files, handlers, disp,
                    completing, ghost>>

(* Mutant of EndRun: no finally clause.                                     *)
EndRunUncounted(w) ==
  /\ Is(w, "exec", "run")
  /\ \/ Step(w, [w EXCEPT !.pc = "lock"]) /\ containers' = containers - 1
     \/ MayRaise /\ Die(w) /\ UNCHANGED containers
  /\ UNCHANGED <<queue, ctx, trials, custom, files, handlers, disp, completing,
                 ghost>>

(* The container ends, or the runner raises; dec_container runs either way. *)
EndRun(w) ==
  /\ Is(w, "exec", "run")
  /\ containers' = containers - 1
  /\ Step(w, [w EXCEPT !.pc = "lock"]) \/ (MayRaise /\ Die(w))
  /\ UNCHANGED <<queue, ctx, trials, custom, files, handlers, disp, completing,
                 ghost>>

(* self.locks[submission_id], a KeyError when the id was released.          *)
FetchLock(w) ==
  LET lk == ctx[w.job.sid].lock
  IN /\ Is(w, "exec", "lock")
     /\ IF lk = 0 THEN Die(w) ELSE Step(w, [w EXCEPT !.pc = "record", !.lk = lk])
     /\ UNCHANGED <<queue, ctx, trials, custom, containers, files, handlers, disp,
                    completing, ghost>>

(* Mutant of AllRecorded: any() in place of all().                          *)
AnyRecorded(s, rec) == \E c \in ctx[s].cases : rec[c] # 0

AllRecorded(s, rec) == \A c \in ctx[s].cases : rec[c] # 0

(* on_case_complete, under the lock that was fetched: the verdict goes into *)
(* the results the id has now; an unknown id or case raises.  The thread    *)
(* that finds no result missing completes the submission.                   *)
RecordCase(w) ==
  LET s   == w.job.sid
      rec == [ctx[s].rec EXCEPT ![w.job.case] = w.src]
  IN /\ Is(w, "exec", "record")
     /\ w.lk = 0 \/ ~CaseLocked(s, w.lk)
     /\ Die(w)
     /\ IF Contains(s) /\ w.job.case \in ctx[s].cases
          THEN /\ ctx' = [ctx EXCEPT ![s].rec = rec]
               /\ IF AllRecorded(s, rec) THEN Complete(w.job, w.lk)
                                         ELSE UNCHANGED completing
          ELSE UNCHANGED <<ctx, completing>>
     /\ UNCHANGED <<queue, trials, custom, containers, files, handlers, disp, ghost>>

-----------------------------------------------------------------------------
(* The compiler, make or the preparation of a teacher's directory raises:   *)
(* the thread is gone, its lock is free, and nothing else changed.          *)
RaiseInTool(w) ==
  /\ MayRaise
  /\ w.pc = "busy"
  /\ Die(w)
  /\ UNCHANGED <<queue, ctx, trials, custom, containers, files, handlers, disp,
                 completing, ghost>>

WorkerStep(w) ==
  \/ StartCompile(w) \/ FinishCompile(w)
  \/ StartBuild(w) \/ FinishBuild(w) \/ FailBuild(w)
  \/ ClearJobs(w) \/ PutBack(w) \/ MarkBuildFailed(w)
  \/ PrepareCase(w) \/ NoTeacher(w) \/ RunCase(w) \/ EndRun(w)
  \/ FetchLock(w) \/ RecordCase(w)
  \/ RaiseInTool(w)
=============================================================================
