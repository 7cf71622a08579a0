-------------------------- MODULE SubmissionIntake --------------------------
(***************************************************************************)
(* A request on its way through the caches: app.py ensures the test data   *)
(* of its kind and copies it into the submission directory, handle()       *)
(* copies the custom checker and the resource data.  The copies are made   *)
(* after the locks are given back.                                         *)
(*                                                                         *)
(* The problem explored is not interactive; its custom trials belong to    *)
(* different submissions, one per thread, each of which may be submitted   *)
(* again.                                                                  *)
(***************************************************************************)
EXTENDS AssetCache

Init ==
  /\ backend = [i \in Items |-> 1]
  /\ redis = [c \in Archives |-> NoKey]
  /\ locks = [c \in Caches |-> Nobody]
  /\ dir = [c \in Archives |-> Nothing]
  /\ file = [a \in Assets |-> Absent]
  /\ folders = {} /\ meta = Absent
  /\ trial = [t \in Threads |-> [in |-> {}, out |-> Nothing]]
  /\ th = [t \in Threads |-> Asleep]
  /\ prob \in Problems
  /\ served = 0 /\ faults = 0 /\ overrun = {} /\ cut = {}

Begin(t, k) ==
  LET r == [Asleep EXCEPT !.kind = k]
  IN CASE k = "normal" -> Ensure(r, "testdata", "acquire")
       [] k = "public" -> Ensure(r, "public", "acquire")
       [] k = "custom" -> [r EXCEPT !.pc = "meta", !.stage = "trial"]

(* The route /submit is called.                                             *)
Submit(t) ==
  /\ Is(t, "idle") /\ served < prob.requests
  /\ \E k \in prob.kinds : th' = [th EXCEPT ![t] = Begin(t, k)]
  /\ served' = served + 1
  /\ UNCHANGED <<backend, prob, redis, locks, disk, overrun, cut, faults>>

(* Where a thread goes on after the with-block of a lock, which it left     *)
(* with a path ("ok"), with None, or with an exception.  A missing checker  *)
(* is noted and becomes a judge error of every case; without its resource   *)
(* data the submission is judged as if the problem had none.                *)
After(r, out) ==
  CASE r.at \in {"testdata", "public"} ->
         IF out = "ok" THEN [r EXCEPT !.pc = "meta"] ELSE Failed
    [] r.at = "accode" -> IF out = "ok" THEN [r EXCEPT !.pc = "compile"] ELSE Failed
    [] r.at = "checker" /\ r.stage = "trial" -> [r EXCEPT !.pc = "meta", !.stage = "data"]
    [] r.at = "checker" /\ r.stage # "trial" ->
         [r EXCEPT !.pc = IF out = "ok" THEN "take" ELSE "taken", !.data = Absent]
    [] r.at = "resource" ->
         IF out = "ok" THEN Ensure(r, "extracted", "acquire")
         ELSE IF out = "none" THEN [r EXCEPT !.pc = "done"] ELSE Failed
    [] r.at = "extracted" ->
         IF out = "raise" THEN Failed
         ELSE [r EXCEPT !.pc = IF out = "ok" THEN "listres" ELSE "done"]

(* Mutant of Outcome: a lost lock is not noticed.                           *)
AnyOutcome(t) ==
  IF Is(t, "unwind") THEN "raise" ELSE IF Is(t, "none") THEN "none" ELSE "ok"

(* The end of a with-block.  A lock that is no longer the thread's own      *)
(* cannot be released: LockNotOwnedError, whatever the block returned.      *)
Outcome(t) ==
  IF locks[At(t)] # t \/ Is(t, "unwind") THEN "raise"
  ELSE IF Is(t, "none") THEN "none" ELSE "ok"

Leave(t) ==
  /\ th[t].pc \in {"release", "none", "unwind"}
  /\ locks' = IF locks[At(t)] = t THEN [locks EXCEPT ![At(t)] = Nobody] ELSE locks
  /\ th' = [th EXCEPT ![t] = After(@, Outcome(t))]
  /\ UNCHANGED <<world, redis, disk, overrun, cut, faults>>

-----------------------------------------------------------------------------
(* get_problem_meta: the file, which is fetched only if there is none.      *)
GetMeta(t) ==
  /\ Is(t, "meta")
  /\ meta' = IF meta = Absent THEN backend["testdata"] ELSE meta
  /\ Step(t, IF th[t].stage = "trial" THEN "tlist" ELSE "list")
  /\ UNCHANGED <<world, redis, locks, dir, file, folders,
                 trial, overrun, cut, faults>>

NoMeta(t) ==
  /\ Is(t, "meta") /\ meta = Absent /\ Fault
  /\ th' = [th EXCEPT ![t] = Failed]
  /\ UNCHANGED <<world, redis, locks, disk, overrun, cut>>

(* What the submission's test cases are copied from.                        *)
Source(t) ==
  CASE th[t].kind = "normal" -> dir["testdata"]
    [] th[t].kind = "public" -> dir["public"]
    [] th[t].kind = "custom" -> trial[t].out
Cases(t) == IF th[t].kind = "custom" THEN trial[t].in
            ELSE {p \in Parts : Source(t)[p] # Absent}

(* The files in the source directory: a trial makes its tasks of them       *)
(* (scan_and_generate_tasks), and copytree lists them.                      *)
ListCases(t) ==
  /\ Is(t, "list")
  /\ th' = [th EXCEPT ![t].todo = Cases(t), ![t].pc = "copy"]
  /\ UNCHANGED <<world, redis, locks, disk, overrun, cut, faults>>

(* extract(): copytree without any lock.  A file that has gone since makes  *)
(* it raise.                                                                *)
CopyCase(t) ==
  /\ Is(t, "copy")
  /\ \E p \in th[t].todo :
       IF p \notin Cases(t) THEN th' = [th EXCEPT ![t] = Failed]
       ELSE th' = [th EXCEPT ![t].todo = @ \ {p}, ![t].copy[p] = Source(t)[p]]
  /\ UNCHANGED <<world, redis, locks, disk, overrun, cut, faults>>

CasesCopied(t) ==
  /\ Is(t, "copy") /\ th[t].todo = {}
  /\ Step(t, "copied")
  /\ UNCHANGED <<world, redis, locks, disk, overrun, cut, faults>>

-----------------------------------------------------------------------------
(* prepare_custom_testdata: input files that are there already mean a       *)
(* rejudge, and only the outputs are made again.                            *)
FindInputs(t) ==
  /\ Is(t, "tlist")
  /\ IF trial[t].in = {}
     THEN Step(t, "tdown") /\ UNCHANGED trial
     ELSE /\ trial' = [trial EXCEPT ![t].out = Nothing]
          /\ th' = [th EXCEPT ![t] = Ensure(@, "accode", "acquire")]
  /\ UNCHANGED <<world, redis, locks, dir, file, folders,
                 meta, overrun, cut, faults>>

(* download_custom_testcases, into a temporary directory.                   *)
DownloadCases(t) ==
  /\ Is(t, "tdown")
  /\ \/ /\ th' = [th EXCEPT ![t].pc = "tcopy", ![t].todo = Parts]
        /\ UNCHANGED faults
     \/ Fault /\ th' = [th EXCEPT ![t] = Failed]
  /\ UNCHANGED <<world, redis, locks, disk, overrun, cut>>

(* convert_custom_testcase_filenames: one file after the other.             *)
CopyInput(t) ==
  /\ Is(t, "tcopy")
  /\ \E p \in th[t].todo :
       /\ trial' = [trial EXCEPT ![t].in = @ \cup {p}]
       /\ th' = IF th[t].todo = {p} THEN [th EXCEPT ![t] = Ensure(@, "accode", "acquire")]
                ELSE [th EXCEPT ![t].todo = @ \ {p}]
  /\ UNCHANGED <<world, redis, locks, dir, file, folders,
                 meta, overrun, cut, faults>>

WholeAC == \E v \in Versions : dir["accode"] = Whole(v)

(* get_ac_runner: a C or C++ solution is compiled where it lies; one that   *)
(* is not whole does not compile, a Python one is only found out later.     *)
CompileAC(t) ==
  /\ Is(t, "compile")
  /\ \/ /\ th' = [th EXCEPT ![t].pc = "outputs", ![t].todo = trial[t].in]
        /\ UNCHANGED faults
     \/ WholeAC /\ Fault /\ th' = [th EXCEPT ![t] = Failed]
     \/ ~WholeAC /\ th' = [th EXCEPT ![t] = Failed] /\ UNCHANGED faults
  /\ UNCHANGED <<world, redis, locks, disk, overrun, cut>>

(* generate_ac_outputs, one input after the other: what the AC code prints, *)
(* or the text of its error.                                                *)
WriteOutput(t) ==
  /\ Is(t, "outputs")
  /\ \E p \in th[t].todo :
       /\ \E v \in Versions \cup {Torn} :
            /\ v # Torn => dir["accode"] = Whole(v)
            /\ IF v = Torn /\ WholeAC THEN Fault ELSE UNCHANGED faults
            /\ trial' = [trial EXCEPT ![t].out[p] = IF @ = Absent THEN v ELSE @]
       /\ th' = [th EXCEPT ![t].todo = @ \ {p}]
  /\ UNCHANGED <<world, redis, locks, dir, file, folders, meta, overrun, cut>>

(* copy_checker_to_testdata: its copy is not used, extract() skips it.      *)
OutputsWritten(t) ==
  /\ Is(t, "outputs") /\ th[t].todo = {}
  /\ th' = [th EXCEPT ![t] = IF "checker" \in prob.assets THEN Ensure(@, "checker", "mkdir")
                             ELSE [@ EXCEPT !.pc = "meta", !.stage = "data"]]
  /\ UNCHANGED <<world, redis, locks, disk, overrun, cut, faults>>

(* cleanup_custom_testdata, when the trial has been judged.                 *)
EndTrial(t) ==
  /\ Is(t, "idle") /\ trial[t].in # {}
  /\ trial' = [trial EXCEPT ![t] = [in |-> {}, out |-> Nothing]]
  /\ UNCHANGED <<world, redis, locks, dir, file, folders,
                 meta, th, overrun, cut, faults>>

-----------------------------------------------------------------------------
(* handle(): the checker first, then the resource data, if the problem has  *)
(* them.                                                                    *)
Resource(r) == IF "resource" \in prob.assets THEN Ensure(r, "resource", "mkdir")
               ELSE [r EXCEPT !.pc = "done", !.copy = Nothing]

Handle(t) ==
  /\ Is(t, "copied")
  /\ th' = [th EXCEPT ![t] =
              IF "checker" \in prob.assets
              THEN [Ensure(@, "checker", "mkdir") EXCEPT !.stage = "handle"]
              ELSE Resource(@)]
  /\ UNCHANGED <<world, redis, locks, disk, overrun, cut, faults>>

(* copyfile of the cached checker; Absent stands for the error that makes   *)
(* every case a judge error.                                                *)
TakeChecker(t) ==
  /\ Is(t, "take")
  /\ th' = [th EXCEPT ![t].data = file["checker"], ![t].pc = "taken"]
  /\ UNCHANGED <<world, redis, locks, disk, overrun, cut, faults>>

PrepareResource(t) ==
  /\ Is(t, "taken")
  /\ th' = [th EXCEPT ![t] = Resource(@)]
  /\ UNCHANGED <<world, redis, locks, disk, overrun, cut, faults>>

(* _copy_from_extracted, without a lock again.                              *)
ListResource(t) ==
  /\ Is(t, "listres")
  /\ th' = [th EXCEPT ![t].todo = Present("extracted"), ![t].pc = "copyres"]
  /\ UNCHANGED <<world, redis, locks, disk, overrun, cut, faults>>

CopyResource(t) ==
  /\ Is(t, "copyres")
  /\ \E p \in th[t].todo :
       IF dir["extracted"][p] = Absent THEN th' = [th EXCEPT ![t] = Failed]
       ELSE th' = [th EXCEPT ![t].todo = @ \ {p}, ![t].copy[p] = dir["extracted"][p]]
  /\ UNCHANGED <<world, redis, locks, disk, overrun, cut, faults>>

ResourceCopied(t) ==
  /\ Is(t, "copyres") /\ th[t].todo = {}
  /\ Step(t, "done")
  /\ UNCHANGED <<world, redis, locks, disk, overrun, cut, faults>>

(* The request is answered.                                                 *)
Answer(t) ==
  /\ th[t].pc \in {"done", "failed"}
  /\ th' = [th EXCEPT ![t] = Asleep]
  /\ UNCHANGED <<world, redis, locks, disk, overrun, cut, faults>>

-----------------------------------------------------------------------------
Refresh(t) ==
  \/ Acquire(t) \/ Leave(t)
  \/ GetKey(t) \/ Compare(t) \/ CannotCompare(t) \/ Fetch(t)
  \/ ClearPart(t) \/ ClearExtracted(t) \/ ClearFolder(t) \/ ClearRaises(t)
  \/ ExtractPart(t) \/ FetchMeta(t) \/ Store(t) \/ Raise(t)
  \/ MakeFolder(t) \/ CompareFile(t) \/ NotConfigured(t)
  \/ Download(t) \/ OpenFile(t) \/ FillFile(t)
  \/ SumZip(t) \/ RemoveExtracted(t) \/ OpenZip(t)
  \/ UnzipPart(t) \/ UnzipFails(t) \/ StoreExtracted(t)

Use(t) ==
  \/ GetMeta(t) \/ NoMeta(t) \/ ListCases(t) \/ CopyCase(t) \/ CasesCopied(t)
  \/ FindInputs(t) \/ DownloadCases(t) \/ CopyInput(t)
  \/ CompileAC(t) \/ WriteOutput(t) \/ OutputsWritten(t)
  \/ Handle(t) \/ TakeChecker(t) \/ PrepareResource(t)
  \/ ListResource(t) \/ CopyResource(t) \/ ResourceCopied(t) \/ Answer(t)

ThreadStep(t) == Refresh(t) \/ Use(t)

Environment ==
  \/ \E t \in Threads : Submit(t) \/ EndTrial(t)
  \/ \E c \in Archives : ExpireKey(c)
  \/ \E c \in Caches : ExpireLost(c) \/ ExpireHeld(c)
  \/ \E i \in Items : Update(i)
  \/ Crash

(* The service waits for requests.                                          *)
Idle == (\A t \in Threads : Is(t, "idle")) /\ UNCHANGED cvars

Next == Environment \/ Idle \/ \E t \in Threads : ThreadStep(t)

Spec == Init /\ [][Next]_cvars

-----------------------------------------------------------------------------
TypeOK ==
  /\ backend \in [Items -> Versions]
  /\ redis \in [Archives -> Key]
  /\ locks \in [Caches -> Threads \cup {Nobody, Lost}]
  /\ dir \in [Archives -> [Parts -> 0..MaxVersion]]
  /\ file \in [Assets -> 0..Torn]
  /\ folders \subseteq Assets
  /\ meta \in 0..MaxVersion
  /\ trial \in [Threads -> [in : SUBSET Parts, out : [Parts -> 0..Torn]]]
  /\ th \in [Threads -> Thread]
  /\ prob \in Problems
  /\ served \in 0..prob.requests /\ faults \in 0..prob.faults
  /\ overrun \subseteq Caches /\ cut \subseteq Archives

FreshWhole(t) == \E v \in Versions : v >= th[t].since /\ th[t].copy = Whole(v)

(* The test cases copied into a submission directory are one whole version  *)
(* of the problem's test data, and no older than the request, whatever      *)
(* crashed or failed before: unless another thread wrote to the directory   *)
(* in the meantime, or a lock ran out under its holder.                     *)
FreshCases ==
  \A t \in Threads :
    (Is(t, "copied") /\ th[t].kind = "normal" /\ th[t].clean /\ "testdata" \notin overrun)
      => FreshWhole(t)

(* The same for the public test data, which moreover may be left half       *)
(* extracted under a checksum that still matches.                           *)
FreshPublic ==
  \A t \in Threads :
    (Is(t, "copied") /\ th[t].kind = "public" /\ th[t].clean
       /\ "public" \notin overrun \cup cut)
      => FreshWhole(t)

(* A request whose lock ran out while it held it is not accepted, whatever  *)
(* it has written meanwhile: releasing the lock raises.                     *)
OvertakenFails ==
  \A t \in Threads :
    th[t].late => \/ th[t].pc \in Section \cup {"failed"}
                  \/ At(t) = "checker" /\ (Is(t, "taken") => th[t].data = Absent)

(* The checker of a submission is the backend's, no older than the request, *)
(* or its absence is noted, unless another thread wrote to it meanwhile.    *)
CheckerCurrent ==
  \A t \in Threads :
    (Is(t, "taken") /\ th[t].clean)
      => th[t].data = Absent \/ th[t].data \in th[t].since..MaxVersion

(* The resource data of an accepted submission are missing altogether or    *)
(* whole and current, under the same conditions.                            *)
ResourceWhole ==
  \A t \in Threads :
    (Is(t, "done") /\ th[t].clean /\ {"resource", "extracted"} \cap overrun = {}
       /\ "extracted" \notin cut)
      => th[t].copy = Nothing \/ FreshWhole(t)

(* Every case of a custom trial that was accepted has an answer: the error  *)
(* text, or what one current version of the AC code prints, the same for    *)
(* all of them unless it was refreshed or cut off meanwhile.                *)
CustomAnswered ==
  \A t \in Threads :
    (Is(t, "copied") /\ th[t].kind = "custom") =>
      /\ \A p \in trial[t].in : th[t].copy[p] # Absent
      /\ (At(t) = "accode" /\ th[t].clean /\ "accode" \notin overrun \cup cut) =>
           \E v \in th[t].since..MaxVersion :
             \A p \in trial[t].in : th[t].copy[p] \in {v, Torn}
=============================================================================
