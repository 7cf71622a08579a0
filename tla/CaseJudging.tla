----------------------------- MODULE CaseJudging -----------------------------
(***************************************************************************)
(* The case threads: Dispatcher.create_container with the runner it calls, *)
(* SubmissionRunner.run and Sandbox.run or InteractiveRunner.run, the      *)
(* custom checker of custom_checker.py and custom_checker_runner.py, and   *)
(* on_case_complete.                                                       *)
(*                                                                         *)
(* A thread keeps what it read and found out: the program of its case      *)
(* directory and the attempt it is from, whether a custom checker is in    *)
(* use, what the run and the checker showed, whether a call it made to     *)
(* Docker or the file system failed, and its verdict.                      *)
(***************************************************************************)
EXTENDS Orchestrator

NewCase(n) ==
  [att |-> att, id |-> n, pc |-> "prepare", prog |-> "none", of |-> 0,
   use |-> "none", ran |-> "none", said |-> "none", left |-> FALSE,
   fault |-> FALSE, v |-> "none"]

Move(t, u)   == cases' = (cases \ {t}) \cup {u}
Keep(t, v)   == [t EXCEPT !.pc = "keep", !.v = v]
Faulty(t)    == [t EXCEPT !.pc = "keep", !.v = "JE", !.fault = TRUE]
Mine(t, kind) == Box(kind, t.att, t.id)

Judging == UNCHANGED <<problem, att, stage, results, info, disk, built, analysis,
                       tools, orch, store, closing, overlap>>
Unrefused == UNCHANGED <<boxes, refused, died>>

(* The containers the thread could not get rid of.                          *)
Gone(t, left) ==
  /\ boxes' = (boxes \ {b \in boxes : b[2] = t.att /\ b[3] = t.id}) \cup left
  /\ refused' = refused \cup left

(* An exception nobody catches ends the thread; its case has no result.     *)
Dies(t, left) ==
  /\ cases' = cases \ {t}
  /\ died' = TRUE
  /\ Gone(t, left)

-----------------------------------------------------------------------------
(* The case directory is made anew and gets a copy of src/common, then the  *)
(* resource files of the case, then the snapshot.  The thread reads whether *)
(* a custom checker is in use.                                              *)
Executable == IF problem.py THEN src.entry ELSE src.main

PrepareCase(t) ==
  /\ t.pc = "prepare"
  /\ Move(t, [t EXCEPT !.pc = "start", !.prog = Executable, !.of = home,
                       !.left = problem.keep, !.use = info])
  /\ IF problem.keep THEN Snapshot(t.id) /\ UNCHANGED uploads ELSE UNCHANGED store
  /\ UNCHANGED <<problem, att, stage, results, info, disk, built, analysis, tools,
                 orch, closing, overlap>>
  /\ Unrefused

(* Making the directory or finding the resources fails: JE at once, and     *)
(* neither artifacts nor the checker.                                       *)
PrepareCaseFails(t) ==
  /\ t.pc = "prepare"
  /\ Move(t, [Faulty(t) EXCEPT !.pc = "record", !.ran = "unprepared"])
  /\ Judging /\ Unrefused

(* extract_compile_result.                                                  *)
CompileStatus ==
  IF compiled # "none" THEN compiled
  ELSE IF prebuilt \/ problem.py THEN "AC" ELSE "CE"

Cleaned(t) == [t EXCEPT !.left = FALSE]

(* A compile error is the verdict of every case.  The interactive branch    *)
(* leaves the resource files in the case directory.                         *)
NotCompiled(t) ==
  /\ t.pc = "start" /\ CompileStatus = "CE"
  /\ Move(t, IF Interactive THEN Keep(t, "CE") ELSE Cleaned(Keep(t, "CE")))
  /\ Judging /\ Unrefused

(* run() finds the input or the output of the case missing.                 *)
TestcaseMissing(t) ==
  /\ t.pc = "start" /\ CompileStatus # "CE" /\ ~Interactive
  /\ Move(t, Cleaned([Faulty(t) EXCEPT !.pc = "check"]))
  /\ Judging /\ Unrefused

StartRun(t) ==
  /\ t.pc = "start" /\ CompileStatus # "CE"
  /\ Move(t, [t EXCEPT !.pc = IF Interactive THEN "talk" ELSE "run"])
  /\ boxes' = boxes \cup {Mine(t, "run")}
  /\ orch' = IF Interactive THEN [orch EXCEPT ![t.id] = [NoOrch EXCEPT !.pc = "setup"]]
                            ELSE orch
  /\ UNCHANGED <<problem, att, stage, results, info, disk, built, analysis, tools,
                 store, closing, overlap, refused, died>>

(* Docker refuses: create_container has no handler around it, and Sandbox   *)
(* none around the start either; InteractiveRunner removes its container,   *)
(* but prepare_teacher_for_case may raise.                                  *)
StartRefused(t) ==
  /\ t.pc = "start" /\ CompileStatus # "CE"
  /\ Dies(t, {}) \/ (~Interactive /\ Dies(t, {Mine(t, "run")}))
  /\ Judging

-----------------------------------------------------------------------------
(* The verdict of a run without a custom checker.                           *)
Marks == {"TLE", "RE"}
Judged(t, ran) ==
  IF ran \in Marks THEN ran ELSE IF t.use # "none" \/ ran = "match" THEN "AC" ELSE "WA"

(* Mutant of Removed: the container stays when the wait failed.             *)
RemovedAfter(t, answered) == IF answered THEN boxes \ {Mine(t, "run")} ELSE boxes
Removed(t, answered) == boxes \ {Mine(t, "run")}

(* 5 * time_limit // 1000 seconds, which is no time at all for a limit of   *)
(* less than 200 ms: the HTTP client then refuses to wait.                  *)
WaitSuffices == ~problem.short

(* The run ended, the container's files were read and it is gone.  Without  *)
(* a program there is nothing that could print the expected output.         *)
EndRun(t) ==
  /\ t.pc = "run" /\ WaitSuffices
  /\ \E ran \in {"match", "differ"} \cup Marks :
       /\ t.prog = "none" => ran \in {"differ", "RE"}
       /\ Move(t, Cleaned([t EXCEPT !.pc = "check", !.ran = ran,
                                    !.v = Judged(t, ran)]))
  /\ boxes' = Removed(t, TRUE)
  /\ Judging /\ UNCHANGED <<refused, died>>

(* The wait or the transfer of the result fails, or the answer file is not  *)
(* there: JE.                                                               *)
RunFails(t) ==
  /\ t.pc = "run"
  /\ Move(t, Cleaned([Faulty(t) EXCEPT !.pc = "check"]))
  /\ boxes' = Removed(t, FALSE)
  /\ Judging /\ UNCHANGED <<refused, died>>

(* The container cannot be removed.                                         *)
RunRefused(t) ==
  /\ t.pc = "run"
  /\ Dies(t, {Mine(t, "run")})
  /\ Judging

(* InteractiveRunner removes its container, and goes on when it cannot.     *)
Talked(t) == Gone(t, {}) \/ Gone(t, {Mine(t, "run")})

(* The orchestrator prints its verdict as the last line of its output.      *)
EndTalk(t) ==
  /\ t.pc = "talk" /\ orch[t.id].pc = "done"
  /\ Move(t, Cleaned(Keep([t EXCEPT !.ran = "talked"], orch[t.id].verdict)))
  /\ Talked(t)
  /\ Judging /\ UNCHANGED died

(* Its container ended before that, and what it printed is no JSON; or      *)
(* Docker fails the wait, which has no time limit.                          *)
CutTalk(t) ==
  /\ t.pc = "talk"
  /\ \/ Move(t, Cleaned(Faulty(t))) /\ Talked(t) /\ UNCHANGED died
     \/ Dies(t, {}) \/ Dies(t, {Mine(t, "run")})
  /\ orch' = [orch EXCEPT ![t.id] = NoOrch]
  /\ UNCHANGED <<problem, att, stage, results, info, disk, built, analysis, tools,
                 store, closing, overlap>>

-----------------------------------------------------------------------------
(* The statuses the checker cannot change.                                  *)
Final == {"CE", "RE", "TLE", "JE"}

(* No checker is in use, or it could not be prepared, or the verdict is     *)
(* final, or the information on it is gone by now.                          *)
NoCheck(t) ==
  /\ t.pc = "check"
  /\ \/ t.use = "none" /\ Move(t, Keep(t, t.v))
     \/ t.use = "error" /\ Move(t, Faulty(t))
     \/ t.use = "ready" /\ (t.v \in Final \/ info # "ready") /\ Move(t, Keep(t, t.v))
  /\ Judging /\ Unrefused

Checkable(t) ==
  t.pc = "check" /\ t.use = "ready" /\ t.v \notin Final /\ info = "ready"

(* Only an AI checker has a network, and a router for it.                   *)
Router(t) == IF problem.checker = "ai" THEN {Mine(t, "router")} ELSE {}

(* The checker's input is missing, or the router of an AI checker cannot be *)
(* created or started; only a started one is removed.                          *)
CheckerUnready(t) ==
  /\ Checkable(t)
  /\ Move(t, Faulty(t))
  /\ \E left \in SUBSET Router(t) : Gone(t, left)
  /\ Judging /\ UNCHANGED died

StartChecker(t) ==
  /\ Checkable(t)
  /\ Move(t, [t EXCEPT !.pc = "checking"])
  /\ boxes' = boxes \cup {Mine(t, "check")} \cup Router(t)
  /\ Judging /\ UNCHANGED <<refused, died>>

(* create_container of the checker is outside the try: its router stays.    *)
CheckerRefused(t) ==
  /\ Checkable(t)
  /\ Dies(t, Router(t))
  /\ Judging

(* Its containers are removed when Docker does so.                          *)
CheckersGone(t) ==
  \E left \in SUBSET ({Mine(t, "check")} \cup Router(t)) : Gone(t, left)

(* JE unless it exited normally and printed STATUS: AC or WA.               *)
Spoken(said, exited) == IF said \in {"AC", "WA"} /\ exited THEN said ELSE "JE"

EndChecker(t) ==
  /\ t.pc = "checking"
  /\ \E said \in {"AC", "WA", "other"}, exited \in BOOLEAN :
       Move(t, [Keep(t, Spoken(said, exited)) EXCEPT
                  !.said = IF exited THEN said ELSE "crash"])
  /\ CheckersGone(t)
  /\ Judging /\ UNCHANGED died

(* start, wait, which has a time limit, or logs fail: JE; and when the      *)
(* removal that follows fails too, that exception ends the thread.          *)
CheckerFails(t) ==
  /\ t.pc = "checking"
  /\ \/ Move(t, Faulty(t)) /\ CheckersGone(t) /\ UNCHANGED died
     \/ \E left \in SUBSET Router(t) : Dies(t, {Mine(t, "check")} \cup left)
  /\ Judging

-----------------------------------------------------------------------------
(* The artifact, when the problem asks for it.                              *)
KeepArtifact(t) ==
  /\ t.pc = "keep"
  /\ Move(t, [t EXCEPT !.pc = "record"])
  /\ IF problem.keep
       THEN \E written \in BOOLEAN :
              /\ t.ran = "none" => ~written
              /\ RecordArtifact(t.att, t.id, t.left, written)
              /\ UNCHANGED uploads
       ELSE UNCHANGED store
  /\ UNCHANGED <<problem, att, stage, results, info, disk, built, analysis, tools,
                 orch, closing, overlap>>
  /\ Unrefused

(* on_case_complete under the lock: the last case completes the submission, *)
(* in this thread.  The id is registered as long as a case has no result.   *)
RecordCase(t) ==
  /\ t.pc = "record" /\ Registered
  /\ results' = [results EXCEPT ![t.id] = t.v]
  /\ IF \A n \in CaseIds : results'[n] # "none"
       THEN /\ stage' = "closing"
            /\ closing' = closing \cup {Closer(att)}
            /\ Move(t, [t EXCEPT !.pc = "closing"])
       ELSE Move(t, [t EXCEPT !.pc = "sweep"]) /\ UNCHANGED <<stage, closing>>
  /\ UNCHANGED <<problem, att, info, disk, built, analysis, tools, orch, store,
                 overlap>>
  /\ Unrefused

(* The case directory is removed, also the one another attempt has made     *)
(* under the same name by now.                                              *)
Sweep(t) ==
  /\ t.pc = "sweep" \/ (t.pc = "closing" /\ \A c \in closing : c.att # t.att)
  /\ cases' = {[c EXCEPT !.prog = IF c.id = t.id /\ t.ran # "unprepared"
                                     THEN "none" ELSE @] : c \in cases \ {t}}
  /\ Judging
  /\ Unrefused

CaseStep(t) ==
  \/ PrepareCase(t) \/ PrepareCaseFails(t)
  \/ NotCompiled(t) \/ TestcaseMissing(t) \/ StartRun(t) \/ StartRefused(t)
  \/ EndRun(t) \/ RunFails(t) \/ RunRefused(t) \/ EndTalk(t)
  \/ NoCheck(t) \/ CheckerUnready(t) \/ StartChecker(t) \/ CheckerRefused(t)
  \/ EndChecker(t) \/ CheckerFails(t)
  \/ KeepArtifact(t) \/ RecordCase(t) \/ Sweep(t)
=============================================================================
