---------------------------- MODULE Orchestrator ----------------------------
(***************************************************************************)
(* runner/interactive_orchestrator.py, which runs inside the container of  *)
(* an interactive case: it starts the student's and the teacher's program, *)
(* joined by two pipes, waits for both until a deadline, and makes one     *)
(* verdict of their two result files and of the file Check_Result that the *)
(* teacher's program may have written.                                     *)
(*                                                                         *)
(* A program runs, waits for input or has exited; its sandbox_interactive  *)
(* then left a result file, or none when it was killed.  Both programs     *)
(* inherit every end of both pipes, so neither ever reads an end of file.  *)
(***************************************************************************)
EXTENDS SourceAnalysis

Running(p) == p.st \in {"run", "wait"}
Started    == [st |-> "run", res |-> "none"]
Killed(p)  == IF Running(p) THEN [st |-> "exit", res |-> "none"] ELSE p

Conduct(n, o) == orch' = [orch EXCEPT ![n] = o]

(* orchestrate() raised.  main() calls it twice, with "devfd" and "fifo",   *)
(* which it takes for "devfd"; whatever the first call left in the          *)
(* teacher's directory is there for the second.                             *)
Raised(o) ==
  IF o.try = 1 THEN [NoOrch EXCEPT !.pc = "setup", !.try = 2, !.check = o.check]
               ELSE [o EXCEPT !.pc = "done", !.verdict = "CE"]

Playing == UNCHANGED <<reg, disk, built, analysis, tools, cases, boxes, store,
                       closing, hist>>

(* Permissions, executables, the temporary directory, the pipes.            *)
Setup(n, hasProgram) ==
  /\ orch[n].pc = "setup"
  /\ hasProgram /\ teacher
  /\ Conduct(n, [orch[n] EXCEPT !.pc = "first"])
  /\ Playing

SetupRaises(n) ==
  /\ orch[n].pc = "setup"
  /\ Conduct(n, Raised(orch[n]))
  /\ Playing

(* The teacher's program is started first when the problem says so, and 50  *)
(* ms later the other one.                                                  *)
StartFirst(n) ==
  /\ orch[n].pc = "first"
  /\ Conduct(n, [orch[n] EXCEPT !.pc = "second",
                   ![IF problem.teacherFirst THEN "tea" ELSE "stu"] = Started])
  /\ Playing

(* From here on the orchestrator keeps one writing end of the pipe to the   *)
(* teacher's program.                                                       *)
StartSecond(n) ==
  /\ orch[n].pc = "second"
  /\ Conduct(n, [orch[n] EXCEPT !.pc = "poll", !.kick = TRUE,
                   ![IF problem.teacherFirst THEN "stu" ELSE "tea"] = Started])
  /\ Playing

(* A program that cannot be started; the other one is killed.               *)
StartRaises(n) ==
  /\ orch[n].pc \in {"first", "second"}
  /\ Conduct(n, Raised(orch[n]))
  /\ Playing

(* One pass of the loop.  A teacher's program that still runs after the     *)
(* student's exited gets a newline, once.                                   *)
Poll(n) ==
  LET o == orch[n]
  IN /\ o.pc = "poll"
     /\ ~Running(o.stu)
     /\ Conduct(n, IF ~Running(o.tea) THEN [o EXCEPT !.pc = "read"]
                   ELSE [o EXCEPT !.toTea = @ \/ o.kick, !.kick = FALSE])
     /\ ~Running(o.tea) \/ o.kick
     /\ Playing

(* Mutant of Deadline: the teacher's program is waited for.                 *)
StudentDeadline(n) ==
  LET o == orch[n]
  IN /\ o.pc = "poll" /\ ~Running(o.tea)
     /\ Conduct(n, [o EXCEPT !.pc = "read", !.stu = Killed(@)])
     /\ Playing

(* The loop ends two seconds after the time limit; what still runs is       *)
(* killed.                                                                  *)
Deadline(n) ==
  LET o == orch[n]
  IN /\ o.pc = "poll"
     /\ Conduct(n, [o EXCEPT !.pc = "read", !.stu = Killed(@), !.tea = Killed(@)])
     /\ Playing

(* _read_result: a missing, empty or unknown result counts as CE.           *)
Status(p) == IF p.res \in {"AC", "TLE", "RE"} THEN p.res ELSE "CE"

(* Mutant of Combine: Check_Result decides whenever there is one.           *)
CheckFirst(o) ==
  IF o.check \in {"AC", "WA"} THEN o.check
  ELSE IF Status(o.stu) # "AC" THEN Status(o.stu)
  ELSE IF Status(o.tea) # "AC" THEN Status(o.tea)
  ELSE "CE"

(* The student's status comes first, then the teacher's, and Check_Result   *)
(* only when both exited normally.                                          *)
Combine(o) ==
  IF Status(o.stu) # "AC" THEN Status(o.stu)
  ELSE IF Status(o.tea) # "AC" THEN Status(o.tea)
  ELSE IF o.check \in {"AC", "WA"} THEN o.check
  ELSE "CE"

(* An AC is taken back when the teacher's program left too many files.      *)
Read(n) ==
  /\ orch[n].pc = "read"
  /\ \E tooMany \in BOOLEAN :
       Conduct(n, [orch[n] EXCEPT !.pc = "done",
                     !.verdict = IF Combine(orch[n]) = "AC" /\ tooMany
                                   THEN "CE" ELSE Combine(orch[n])])
  /\ Playing

Conductor(n, hasProgram) ==
  Setup(n, hasProgram) \/ SetupRaises(n) \/ StartFirst(n) \/ StartSecond(n)
    \/ StartRaises(n) \/ Poll(n) \/ Deadline(n) \/ Read(n)

-----------------------------------------------------------------------------
(* The programs.  p is "stu" or "tea", in and out are its pipes.            *)
Inbox(p)  == IF p = "stu" THEN "toStu" ELSE "toTea"
Outbox(p) == IF p = "stu" THEN "toTea" ELSE "toStu"

Write(n, p) ==
  /\ orch[n][p].st = "run"
  /\ Conduct(n, [orch[n] EXCEPT ![Outbox(p)] = TRUE])
  /\ Playing

AwaitInput(n, p) ==
  /\ orch[n][p].st = "run"
  /\ Conduct(n, [orch[n] EXCEPT ![p].st = "wait"])
  /\ Playing

ReadInput(n, p) ==
  /\ orch[n][p].st = "wait" /\ orch[n][Inbox(p)]
  /\ Conduct(n, [orch[n] EXCEPT ![p].st = "run", ![Inbox(p)] = FALSE])
  /\ Playing

(* sandbox_interactive ends with its program, or ends it: at any time for   *)
(* the time limit, and with a result the orchestrator does not know.        *)
Exit(n, p) ==
  /\ Running(orch[n][p])
  /\ \E res \in {"AC", "RE", "TLE", "odd"} :
       /\ orch[n][p].st = "wait" => res = "TLE"
       /\ Conduct(n, [orch[n] EXCEPT ![p] = [st |-> "exit", res |-> res]])
  /\ Playing

WriteCheck(n) ==
  /\ orch[n].tea.st = "run"
  /\ \E check \in {"AC", "WA", "odd"} :
       Conduct(n, [orch[n] EXCEPT !.check = check])
  /\ Playing

Program(n) ==
  \/ \E p \in {"stu", "tea"} :
       Write(n, p) \/ AwaitInput(n, p) \/ ReadInput(n, p) \/ Exit(n, p)
  \/ WriteCheck(n)
=============================================================================
