------------------------------- MODULE Service -------------------------------
(***************************************************************************)
(* The program, as module Sandbox describes it, seen through the promises  *)
(* of module JudgeService.  A request is a submission id with an attempt.  *)
(***************************************************************************)
EXTENDS Sandbox

(* Labels of directories that are no attempt stand for no request.          *)
Requested(pairs) == pairs \cap (Sids \X Attempts)

Judge == INSTANCE JudgeService WITH
  Ids       <- Sids,
  Requests  <- Attempts,
  held      <- Requested({<<s, dirs[s]>> : s \in Sids}),
  promised  <- accepted,
  screened  <- Requested(saPassed),
  executing <- Requested({<<w.job.sid, w.src>> : w \in workers}),
  delivered <- {r \in Sids \X Attempts : reports[r[1]][r[2]] > 0},
  archive   <- Requested(backups)

(* The service keeps its promises: every step of its threads is one of the  *)
(* steps JudgeService allows, or none (app.py 60-127, dispatcher.py 577-924 *)
(* and 1417-1560).                                                          *)
KeepsPromises == Judge!Spec
=============================================================================
