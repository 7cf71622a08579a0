---------------------------- MODULE ProblemCache ----------------------------
(***************************************************************************)
(* The cache of problem data on the judge's disk (dispatcher/testdata.py): *)
(* the test data, the public test data of trial submissions and the AC     *)
(* (reference) code of one problem.  A cache is a directory, a key in      *)
(* Redis with the checksum of what was downloaded, which expires after     *)
(* 600 s, and a Redis lock with a timeout of its own.                      *)
(*                                                                         *)
(* Everything here survives a crash of the process; the threads that work  *)
(* on it (module SubmissionIntake) do not.  Archives are abstracted to a   *)
(* version of the backend, in several parts (files) that are removed and   *)
(* extracted one after the other.                                          *)
(***************************************************************************)
EXTENDS Naturals, FiniteSets

CONSTANTS
  Threads,      \* HTTP threads of app.py
  Parts,        \* the files of an archive
  MaxVersion,   \* bound: versions of an item the backend goes through
  Problems,     \* the problems explored, and what happens around them
  Nobody, Lost  \* a free lock, and one whose owner died with its process

Versions == 1..MaxVersion

(* The zip archives extracted on disk, and the single files.                *)
Archives == {"testdata", "public", "accode", "extracted"}
Assets   == {"checker", "resource"}
Caches   == Archives \cup Assets
Items    == {"testdata", "public", "accode"} \cup Assets

(* Whether the problem has a custom checker or resource data, the kinds of  *)
(* request made for it, the items one of which the course staff changes,    *)
(* and two bounds: the requests made, and the things that go wrong (failed  *)
(* calls, crashes and locks that expire under a live holder).               *)
Problem == [assets : SUBSET Assets, kinds : SUBSET {"normal", "public", "custom"},
            changing : SUBSET Items, requests : Nat, faults : Nat]

ASSUME CacheAssumption ==
  /\ MaxVersion \in Nat \ {0}
  /\ Problems \subseteq Problem
  /\ Nobody # Lost /\ Nobody \notin Threads /\ Lost \notin Threads

VARIABLES
  backend,  \* backend[i]: the version of item i the backend serves now
  redis,    \* redis[c]: the checksum stored for archive c, as <<data, meta>>
  locks,    \* locks[c]: the owner of the Redis lock of cache c
  dir,      \* dir[c][p]: the version of part p in the directory of archive c
  file,     \* file[a]: the version of the asset file a
  folders,  \* the assets whose folder TESTDATA_ROOT/pid/a exists
  meta,     \* the version of META_DIR/pid.json, 0: no such file
  trial,    \* trial[t]: TRIAL_TESTDATA_DIR/id of the trial id thread t serves
  th,       \* th[t]: where thread t is in its request
  prob,     \* the problem, fixed for the whole run
  served,   \* number of requests so far
  faults,   \* number of faults so far
  overrun,  \* history: caches whose lock has expired under a live holder
  cut       \* history: archives whose last refresh has not ended, was cut
            \* off, or was disturbed by another thread

disk  == <<dir, file, folders, meta, trial>>
world == <<backend, prob, served>>
cvars == <<world, redis, locks, disk, th, faults, overrun, cut>>

(* A part that is not there, an empty directory, and a whole archive.       *)
Absent   == 0
Nothing  == [p \in Parts |-> Absent]
Whole(v) == [p \in Parts |-> v]

(* A file that is half written; the text "[AC Code Error]" in an answer.    *)
Torn == MaxVersion + 1
Key  == (0..MaxVersion) \X (0..MaxVersion)
NoKey == <<0, 0>>

(* The steps inside a with-block of a lock.                                 *)
Section == {"getkey", "compare", "fetch", "clear", "extract", "fmeta", "store",
            "release", "none", "unwind", "checksum", "download", "write", "fill",
            "zipsum", "rmext", "unzip", "storeext"}

Thread == [pc : {"idle", "mkdir", "acquire", "meta", "list", "copy", "copied",
                 "take", "taken", "listres", "copyres", "done", "failed",
                 "tlist", "tdown", "tcopy", "compile", "outputs"} \cup Section,
           kind : {"normal", "public", "custom"},
           stage : {"trial", "data", "handle"},
           at : Caches,
           todo : SUBSET (Caches \cup Parts),
           key : Key, data : 0..Torn,
           since : Versions,
           copy : [Parts -> 0..Torn],
           clean : BOOLEAN, late : BOOLEAN]

(* Where a thread stands:                                                   *)
(*   at     the cache it ensures, or copies from                            *)
(*   stage  "trial" while custom test data is prepared, "data" until the    *)
(*          submission directory is made, "handle" in Dispatcher.handle     *)
(*   key    the checksum it read or will store, data what it downloaded     *)
(*   todo   what it still has to remove, extract or copy                    *)
(* and as history: since, the version of the backend when it began to       *)
(* ensure the cache, clean, whether no other thread has written to what it  *)
(* works on since then, and late, whether its lock expired under it.        *)
Asleep == [pc |-> "idle", kind |-> "normal", stage |-> "data",
           at |-> "testdata", todo |-> {}, key |-> NoKey, data |-> 0,
           since |-> 1, copy |-> Nothing, clean |-> TRUE,
           late |-> FALSE]

(* Mutant of Fault: one more than the bound.                                *)
FaultTooMany == faults <= prob.faults /\ faults' = faults + 1

(* One more thing goes wrong.                                               *)
Fault == faults < prob.faults /\ faults' = faults + 1

(* The request ends with an error.                                          *)
Failed == [Asleep EXCEPT !.pc = "failed"]

Is(t, pc) == th[t].pc = pc
At(t) == th[t].at
Step(t, pc) == th' = [th EXCEPT ![t].pc = pc]

(* The record of a thread that calls ensure_...(c).  The extraction of the  *)
(* resource data goes on from the zip that was ensured just before.         *)
Ensure(r, c, pc) ==
  LET new == [r EXCEPT !.pc = pc, !.at = c, !.todo = {}, !.key = NoKey,
                       !.data = 0, !.copy = Nothing, !.late = FALSE]
  IN IF c = "extracted" THEN new
     ELSE [new EXCEPT !.since = backend[c], !.clean = TRUE]

(* Thread t writes to the caches of C: other threads that rely on one of    *)
(* them are no longer undisturbed.                                          *)
Touch(t, C) ==
  [u \in Threads |->
     IF u # t /\ At(u) \in C
     THEN [th[u] EXCEPT !.clean = FALSE] ELSE th[u]]

-----------------------------------------------------------------------------
(* client.lock(lock_key, timeout): waits until the lock is free.            *)
Acquire(t) ==
  /\ Is(t, "acquire") /\ locks[At(t)] = Nobody
  /\ locks' = [locks EXCEPT ![At(t)] = t]
  /\ Step(t, CASE At(t) = "extracted" -> "zipsum"
               [] At(t) \in Assets    -> "checksum"
               [] OTHER               -> "getkey")
  /\ UNCHANGED <<world, redis, disk, overrun, cut, faults>>

(* client.get(key): nothing cached, or a checksum to compare.               *)
GetKey(t) ==
  /\ Is(t, "getkey")
  /\ th' = [th EXCEPT ![t].key = redis[At(t)],
              ![t].pc = IF redis[At(t)] = NoKey THEN "fetch" ELSE "compare"]
  /\ UNCHANGED <<world, redis, locks, disk, overrun, cut, faults>>

(* Mutant of Compare: whatever was stored last is up to date.               *)
AnyChecksum(t) ==
  /\ Is(t, "compare")
  /\ Step(t, "release")
  /\ UNCHANGED <<world, redis, locks, disk, overrun, cut, faults>>

(* get_checksum: the checksum of the backend's data and meta now.           *)
Compare(t) ==
  /\ Is(t, "compare")
  /\ LET now == backend[At(t)]
     IN Step(t, IF th[t].key = <<now, now>> THEN "release" ELSE "fetch")
  /\ UNCHANGED <<world, redis, locks, disk, overrun, cut, faults>>

(* The checksum cannot be had: ensure_testdata raises, the other two warn   *)
(* and refresh.                                                             *)
CannotCompare(t) ==
  /\ Is(t, "compare") /\ Fault
  /\ Step(t, IF At(t) = "testdata" THEN "unwind" ELSE "fetch")
  /\ UNCHANGED <<world, redis, locks, disk, overrun, cut>>

(* What the clearing of a directory finds there: for the test data          *)
(* everything in the problem's root but "public", the folders of the other  *)
(* caches included; otherwise the archive's own files.                      *)
Present(c) == {p \in Parts : dir[c][p] # Absent}
Children(c) == Present(c) \cup (IF c = "testdata" THEN folders ELSE {})

(* Something is left to remove, or the extraction can begin.                *)
Cleared(r, left) ==
  [r EXCEPT !.todo = IF left = {} THEN Parts ELSE left,
            !.pc = IF left = {} THEN "extract" ELSE "clear"]

(* The download, and the listing of what must go.                           *)
Fetch(t) ==
  /\ Is(t, "fetch")
  /\ LET got == [th[t] EXCEPT !.data = backend[At(t)]]
     IN th' = [th EXCEPT ![t] = Cleared(got, Children(At(t)))]
  /\ cut' = cut \cup {At(t)}
  /\ UNCHANGED <<world, redis, locks, disk, overrun, faults>>

(* iterdir and unlink, or rmtree of a folder: checker and resource_data     *)
(* belong to other caches, with locks of their own.                         *)
ClearPart(t) ==
  /\ Is(t, "clear")
  /\ \E p \in th[t].todo \cap Parts :
       /\ dir[At(t)][p] # Absent
       /\ dir' = [dir EXCEPT ![At(t)][p] = Absent]
       /\ th' = [Touch(t, {At(t)}) EXCEPT ![t] = Cleared(@, @.todo \ {p})]
  /\ UNCHANGED <<world, redis, locks, file, folders, meta,
                 trial, overrun, cut, faults>>

(* resource_data holds the zip and the folder it is extracted to.           *)
ClearExtracted(t) ==
  /\ Is(t, "clear") /\ "resource" \in th[t].todo
  /\ \E p \in Present("extracted") : dir' = [dir EXCEPT !["extracted"][p] = Absent]
  /\ cut' = cut \cup {"extracted"}
  /\ th' = Touch(t, {"extracted"})
  /\ UNCHANGED <<world, redis, locks, file, folders, meta,
                 trial, overrun, faults>>

ClearFolder(t) ==
  /\ Is(t, "clear")
  /\ \E a \in th[t].todo \cap folders :
       /\ a = "resource" => Present("extracted") = {}
       /\ file' = [file EXCEPT ![a] = Absent]
       /\ folders' = folders \ {a}
       /\ th' = [Touch(t, {a, IF a = "resource" THEN "extracted" ELSE a})
                   EXCEPT ![t] = Cleared(@, @.todo \ {a})]
  /\ UNCHANGED <<world, redis, locks, dir, meta, trial, overrun, cut, faults>>

(* Somebody else removed it first, or fills the folder while rmtree empties *)
(* it: FileNotFoundError or "directory not empty".                          *)
ClearRaises(t) ==
  /\ Is(t, "clear")
  /\ \/ \E p \in th[t].todo \cap Parts : dir[At(t)][p] = Absent
     \/ \E a \in th[t].todo \cap Assets :
          \/ a \notin folders
          \/ \E u \in Threads : th[u].pc \in {"rmext", "unzip", "write", "fill"}
  /\ Step(t, "unwind")
  /\ UNCHANGED <<world, redis, locks, disk, overrun, cut, faults>>

(* _safe_extract_zip, one file after the other, once nothing is left to     *)
(* remove.  After the last one ensure_ac_code gives the source its expected *)
(* name and notes the language beside it.                                   *)
ExtractPart(t) ==
  /\ Is(t, "extract")
  /\ \E p \in th[t].todo :
       /\ dir' = [dir EXCEPT ![At(t)][p] = th[t].data]
       /\ th' = [Touch(t, {At(t)}) EXCEPT
                   ![t].todo = @ \ {p},
                   ![t].key  = <<th[t].data, th[t].data>>,
                   ![t].pc   = IF th[t].todo # {p} THEN "extract"
                               ELSE IF At(t) = "testdata" THEN "fmeta" ELSE "store"]
  /\ UNCHANGED <<world, redis, locks, file, folders, meta,
                 trial, overrun, cut, faults>>

(* ensure_testdata fetches the meta after the data; the checksum it will    *)
(* store is that of both.                                                   *)
FetchMeta(t) ==
  /\ Is(t, "fmeta")
  /\ meta' = backend["testdata"]
  /\ th' = [th EXCEPT ![t].key = <<th[t].data, meta'>>, ![t].pc = "store"]
  /\ UNCHANGED <<world, redis, locks, dir, file, folders,
                 trial, overrun, cut, faults>>

(* client.setex(key, 600, checksum)                                         *)
Store(t) ==
  /\ Is(t, "store")
  /\ redis' = [redis EXCEPT ![At(t)] = th[t].key]
  /\ cut' = cut \ {At(t)}
  /\ Step(t, "release")
  /\ UNCHANGED <<world, locks, disk, overrun, faults>>

(* The backend, the archive or the disk lets the thread down: the exception *)
(* leaves the with-block.                                                   *)
Raise(t) ==
  /\ Fault /\ th[t].pc \in {"fetch", "extract", "fmeta", "download"}
  /\ Step(t, "unwind")
  /\ UNCHANGED <<world, redis, locks, disk, overrun, cut>>

-----------------------------------------------------------------------------
(* Redis drops a checksum after 600 s, and a lock after its timeout,        *)
(* whether its owner died or is merely slow.                                *)
ExpireKey(c) ==
  /\ redis[c] # NoKey
  /\ redis' = [redis EXCEPT ![c] = NoKey]
  /\ UNCHANGED <<world, locks, disk, th, overrun, cut, faults>>

ExpireLost(c) ==
  /\ locks[c] = Lost
  /\ locks' = [locks EXCEPT ![c] = Nobody]
  /\ UNCHANGED <<world, redis, disk, th, overrun, cut, faults>>

ExpireHeld(c) ==
  /\ Fault /\ locks[c] \in Threads
  /\ locks' = [locks EXCEPT ![c] = Nobody]
  /\ overrun' = overrun \cup {c}
  /\ th' = [th EXCEPT ![locks[c]].late = TRUE]
  /\ UNCHANGED <<world, redis, disk, cut>>

(* The course staff changes an item of the problem (bound: only one).       *)
Update(i) ==
  /\ i \in prob.changing /\ backend[i] < MaxVersion
  /\ \A j \in Items \ {i} : backend[j] = 1
  /\ backend' = [backend EXCEPT ![i] = @ + 1]
  /\ UNCHANGED <<prob, served, redis, locks, disk, th, overrun, cut, faults>>

(* The process is killed and started again: every thread is gone, what they *)
(* locked stays locked until it expires.                                    *)
Crash ==
  /\ Fault /\ \E t \in Threads : ~Is(t, "idle")
  /\ th' = [t \in Threads |-> Asleep]
  /\ locks' = [c \in Caches |-> IF locks[c] \in Threads THEN Lost ELSE locks[c]]
  /\ UNCHANGED <<world, redis, disk, overrun, cut>>
=============================================================================
