----------------------------- MODULE Reporting -----------------------------
(***************************************************************************)
(* Dispatcher.on_submission_complete after it has read the results: one    *)
(* PUT to the backend, the submission directory removed or moved to the    *)
(* backup, and release().  Any thread may be the one that runs it; it then *)
(* is an element of completing, and by says which thread it is.  A case    *)
(* thread holds the submission's lock (lk) all the while.                  *)
(***************************************************************************)
EXTENDS SubmitApi

CompletionPC == {"put", "clean", "backup", "drop", "raise", "cleanup", "cleanupx"}
Owner == [kind : JobKinds \cup {"http", "disp"}, sid : Sids,
          case : 0..MaxCases, att : Attempts]
Completion ==
  [by : Owner, lk : 0..MaxRequests, att : Attempts, cases : SUBSET Cases,
   rec : [Cases -> DirVals], trial : BOOLEAN, pc : CompletionPC]

Move(c, pc) == completing' = (completing \ {c}) \cup {[c EXCEPT !.pc = pc]}

(* A result reaches the backend; a third one would show nothing new.        *)
CountReport(c) ==
  reports' = [reports EXCEPT ![c.by.sid][c.att] = IF @ < 2 THEN @ + 1 ELSE 2]

(* Mutant of PutResult: the response is not looked at.                      *)
IgnoreResponse(c) ==
  /\ c.pc = "put"
  /\ Move(c, "clean")
  /\ CountReport(c) \/ UNCHANGED reports
  /\ UNCHANGED <<queue, ctx, trials, custom, containers, files, handlers, disp,
                 workers, prof, requests, accepted, saPassed>>

(* requests.put, once and without a timeout: the backend answers 2xx; or it *)
(* gets the result and its answer is an error or is lost; or it never gets  *)
(* the result.                                                              *)
PutResult(c) ==
  /\ c.pc = "put"
  /\ \/ Move(c, "clean") /\ CountReport(c)
     \/ Move(c, "backup") /\ CountReport(c)
     \/ Move(c, "backup") /\ UNCHANGED reports
  /\ UNCHANGED <<queue, ctx, trials, custom, containers, files, handlers, disp,
                 workers, prof, requests, accepted, saPassed>>

(* clean_data removes the directory.  If it is missing, rmtree raises, the  *)
(* except clause calls backup_data, which raises as well.                   *)
CleanData(c) ==
  /\ c.pc = "clean"
  /\ dirs' = [dirs EXCEPT ![c.by.sid] = NoDir]
  /\ Move(c, IF dirs[c.by.sid] = NoDir THEN "raise" ELSE "drop")
  /\ UNCHANGED <<queue, ctx, trials, custom, containers, backups, handlers, disp,
                 workers, ghost>>

(* backup_data moves what is there to SUBMISSION_BACKUP_DIR.                *)
BackupData(c) ==
  /\ c.pc = "backup"
  /\ dirs' = [dirs EXCEPT ![c.by.sid] = NoDir]
  /\ IF dirs[c.by.sid] = NoDir
       THEN Move(c, "raise") /\ UNCHANGED backups
       ELSE Move(c, "drop") /\ backups' = backups \cup {<<c.by.sid, dirs[c.by.sid]>>}
  /\ UNCHANGED <<queue, ctx, trials, custom, containers, handlers, disp, workers,
                 ghost>>

(* The finally clause: the trial mark goes, then release() starts.          *)
ReleaseContext(c) ==
  /\ c.pc \in {"drop", "raise"}
  /\ trials' = trials \ {c.by.sid}
  /\ ForgetContext(c.by.sid)
  /\ Move(c, IF c.pc = "raise" THEN "cleanupx" ELSE "cleanup")
  /\ UNCHANGED <<queue, custom, containers, files, handlers, disp, workers, ghost>>

(* release() ends after the network clean-up, and so does the thread,       *)
(* except the dispatcher thread, which goes on.  An exception of            *)
(* clean_data/backup_data reaches it now: inside the try of the             *)
(* StaticAnalysis branch it is caught, inside an except clause it is not.   *)
AfterCompletion(raised) ==
  IF ~raised THEN [pc |-> "loop", hand |-> <<>>, fatal |-> FALSE]
  ELSE IF disp.fatal THEN [disp EXCEPT !.pc = "dead", !.hand = <<>>]
  ELSE [disp EXCEPT !.pc = "saexc"]

ReleaseCustom(c) ==
  /\ c.pc \in {"cleanup", "cleanupx"}
  /\ ForgetCustom(c.by.sid)
  /\ completing' = completing \ {c}
  /\ disp' = IF c.by.kind = "disp" THEN AfterCompletion(c.pc = "cleanupx") ELSE disp
  /\ UNCHANGED <<queue, ctx, trials, containers, files, handlers, workers, ghost>>

CompletionStep(c) ==
  PutResult(c) \/ CleanData(c) \/ BackupData(c) \/ ReleaseContext(c)
    \/ ReleaseCustom(c)
=============================================================================
