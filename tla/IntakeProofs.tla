---------------------------- MODULE IntakeProofs ----------------------------
(***************************************************************************)
(* Theorems about the caches and the requests that use them, for any       *)
(* number of threads, files, versions, requests and faults.                *)
(***************************************************************************)
EXTENDS SubmissionIntake, TLAPS

(* Where a thread may be in which cache, and what it holds there.           *)
Fetching  == {"getkey", "compare", "fetch", "clear", "extract", "fmeta", "store"}
Comparing == {"mkdir", "checksum", "download", "write", "fill"}
Unpacking == {"zipsum", "rmext", "unzip", "storeext"}

Placed(r) ==
  /\ r.pc \in Fetching => r.at \in Archives \ {"extracted"}
  /\ r.pc \in Comparing => r.at \in Assets
  /\ r.pc \in Unpacking => r.at = "extracted"
  /\ r.pc \in {"clear", "extract", "fmeta", "write", "fill"} => r.data \in Versions
  /\ r.pc = "tcopy" => r.todo \subseteq Parts

Places == \A t \in Threads : Placed(th[t])

TypeInv == TypeOK /\ Places

-----------------------------------------------------------------------------
(* Typing of the helpers.                                                   *)

(* Arithmetic on versions and checksums, from the assumption on MaxVersion. *)
LEMMA Numbers ==
  /\ 0 \in 0..MaxVersion /\ 1 \in Versions /\ Versions \subseteq 0..MaxVersion
  /\ Torn \in 0..Torn /\ 0..MaxVersion \subseteq 0..Torn /\ 0 \in 0..Torn
  /\ \A v \in 0..Torn : v # Torn => v \in 0..MaxVersion
  /\ \A v \in Versions : v # 0 /\ v # Torn
  /\ \A v, w \in 0..MaxVersion : <<v, w>> \in Key
  /\ NoKey \in Key
BY CacheAssumption DEF Versions, Torn, Key, NoKey

(* How the sets of caches contain one another.                              *)
LEMMA Names ==
  /\ Items \subseteq Caches /\ Archives \subseteq Caches /\ Assets \subseteq Items
  /\ Archives \ {"extracted"} \subseteq Items /\ "extracted" \in Archives
  /\ "extracted" \notin Assets
BY DEF Items, Caches, Archives, Assets

(* An idle thread's record is well typed.                                   *)
LEMMA AsleepType == Asleep \in Thread /\ Placed(Asleep)
BY Numbers, Names DEF Asleep, Thread, Placed, Nothing, Absent, Section, Archives, Assets,
   Caches, Fetching, Comparing, Unpacking

(* So is that of a failed request.                                          *)
LEMMA FailedType == Failed \in Thread /\ Placed(Failed)
BY AsleepType DEF Failed, Thread, Placed, Fetching, Comparing, Unpacking

(* Beginning with a cache gives a well-typed record, at a place that cache  *)
(* has.                                                                     *)
LEMMA EnsureType ==
  ASSUME TypeOK, NEW r \in Thread, NEW c \in Caches, NEW pc \in {"mkdir", "acquire"},
         pc = "mkdir" => c \in Assets
  PROVE  Ensure(r, c, pc) \in Thread /\ Placed(Ensure(r, c, pc))
<1>1. c # "extracted" => backend[c] \in Versions
  BY DEF TypeOK, Items, Caches, Archives
<1>2. Nothing \in [Parts -> 0..Torn]
  BY Numbers DEF Nothing, Absent
<1> QED
  BY ZenonT(30), <1>1, <1>2, Numbers DEF Ensure, Thread, Placed, Section, Fetching, Comparing, Unpacking

(* Another thread's record loses at most its cleanness.                     *)
LEMMA TouchType ==
  ASSUME TypeInv, NEW t \in Threads, NEW C
  PROVE  /\ Touch(t, C) \in [Threads -> Thread]
         /\ \A u \in Threads : Placed(Touch(t, C)[u])
         /\ Touch(t, C)[t] = th[t]
<1> DEFINE soiled(u) == [th[u] EXCEPT !.clean = FALSE]
<1>1. \A u \in Threads : th[u] \in Thread /\ Placed(th[u])
  BY DEF TypeInv, TypeOK, Places
<1>2. ASSUME NEW u \in Threads PROVE soiled(u) \in Thread /\ Placed(soiled(u))
  BY ZenonT(30), <1>1 DEF Thread, Placed
<1> DEFINE body(u) == IF u # t /\ At(u) \in C THEN soiled(u) ELSE th[u]
<1>3. Touch(t, C) = [u \in Threads |-> body(u)]
  BY DEF Touch
<1>4. \A u \in Threads : body(u) \in Thread /\ Placed(body(u))
  BY <1>1, <1>2
<1>5. body(t) = th[t]
  OBVIOUS
<1> HIDE DEF body
<1> QED
  BY <1>3, <1>4, <1>5

(* Writing one part of a directory.                                         *)
LEMMA DirType ==
  ASSUME TypeInv, NEW c \in Archives, NEW p, NEW v \in 0..MaxVersion,
         dir' = [dir EXCEPT ![c][p] = v]
  PROVE  dir' \in [Archives -> [Parts -> 0..MaxVersion]]
<1>1. dir \in [Archives -> [Parts -> 0..MaxVersion]]
  BY DEF TypeInv, TypeOK
<1>2. [dir[c] EXCEPT ![p] = v] \in [Parts -> 0..MaxVersion]
  BY <1>1
<1> QED
  BY <1>1, <1>2

(* Writing one asset's file.                                                *)
LEMMA FileType ==
  ASSUME TypeInv, NEW a \in Assets, NEW v \in 0..Torn,
         file' = [file EXCEPT ![a] = v]
  PROVE  file' \in [Assets -> 0..Torn]
BY DEF TypeInv, TypeOK

(* A thread has copied one file.                                            *)
LEMMA CopyType ==
  ASSUME NEW r \in Thread, NEW p, NEW v, p \in Parts => v \in 0..Torn
  PROVE  [r EXCEPT !.todo = @ \ {p}, !.copy[p] = v] \in Thread
<1>1. [r.copy EXCEPT ![p] = v] \in [Parts -> 0..Torn]
  BY DEF Thread
<1> QED
  BY <1>1 DEF Thread

Trial == [in : SUBSET Parts, out : [Parts -> 0..Torn]]

(* Adding an input or an output of a trial submission.                      *)
LEMMA TrialType ==
  ASSUME TypeInv, NEW t \in Threads, NEW p,
         \/ trial' = trial
         \/ trial' = [trial EXCEPT ![t].out = Nothing]
         \/ p \in Parts /\ trial' = [trial EXCEPT ![t].in = @ \cup {p}]
         \/ \E v \in 0..Torn :
              trial' = [trial EXCEPT ![t].out[p] = IF @ = Absent THEN v ELSE @]
  PROVE  trial' \in [Threads -> Trial]
<1>1. trial \in [Threads -> Trial] /\ trial[t] \in Trial
  BY DEF TypeInv, TypeOK, Trial
<1>2. CASE trial' = [trial EXCEPT ![t].out = Nothing]
  <2>1. trial' = [trial EXCEPT ![t] = [trial[t] EXCEPT !.out = Nothing]]
    BY <1>2
  <2>2. [trial[t] EXCEPT !.out = Nothing] \in Trial
    BY <1>1, Numbers DEF Trial, Nothing, Absent
  <2> QED
    BY <1>1, <2>1, <2>2
<1>3. CASE p \in Parts /\ trial' = [trial EXCEPT ![t].in = @ \cup {p}]
  <2>1. trial' = [trial EXCEPT ![t] = [trial[t] EXCEPT !.in = @ \cup {p}]]
    BY <1>1, <1>3 DEF Trial
  <2>2. [trial[t] EXCEPT !.in = @ \cup {p}] \in Trial
    BY <1>1, <1>3 DEF Trial
  <2> QED
    BY <1>1, <2>1, <2>2
<1>4. ASSUME NEW v \in 0..Torn,
             trial' = [trial EXCEPT ![t].out[p] = IF @ = Absent THEN v ELSE @]
      PROVE  trial' \in [Threads -> Trial]
  <2> DEFINE a == IF trial[t].out[p] = Absent THEN v ELSE trial[t].out[p]
  <2>1. trial' = [trial EXCEPT ![t] = [trial[t] EXCEPT !.out = [@ EXCEPT ![p] = a]]]
    BY <1>1, <1>4 DEF Trial
  <2>2. [trial[t].out EXCEPT ![p] = a] \in [Parts -> 0..Torn]
    BY <1>1 DEF Trial
  <2>3. [trial[t] EXCEPT !.out = [@ EXCEPT ![p] = a]] \in Trial
    BY <1>1, <2>2 DEF Trial
  <2> QED
    BY <1>1, <2>1, <2>3
<1> QED
  BY <1>1, <1>2, <1>3, <1>4

(* Thread t moves on with the record r; it may have touched others.         *)
Moves(t, r) ==
  \/ th' = [th EXCEPT ![t] = r]
  \/ \E C \in SUBSET Caches : th' = [Touch(t, C) EXCEPT ![t] = r]

(* Nobody but thread t moves; another may notice that t wrote something.    *)
Kept(t) ==
  \A u \in Threads \ {t} : \/ th'[u] = th[u]
                           \/ th'[u] = [th[u] EXCEPT !.clean = FALSE]

(* A step that gives one thread a well-typed record and touches the others' *)
(* clean only.                                                              *)
LEMMA MoveTypes ==
  ASSUME TypeInv, NEW t \in Threads, NEW r \in Thread, Placed(r), Moves(t, r)
  PROVE  th' \in [Threads -> Thread] /\ Places' /\ Kept(t)
<1>1. th \in [Threads -> Thread] /\ \A u \in Threads : Placed(th[u])
  BY DEF TypeInv, TypeOK, Places
<1>2. CASE th' = [th EXCEPT ![t] = r]
  BY <1>1, <1>2 DEF Places, Kept
<1>3. ASSUME NEW C \in SUBSET Caches, th' = [Touch(t, C) EXCEPT ![t] = r]
      PROVE  th' \in [Threads -> Thread] /\ Places' /\ Kept(t)
  <2>1. th' \in [Threads -> Thread] /\ Places'
    BY <1>1, <1>3, TouchType DEF Places
  <2>2. \A u \in Threads \ {t} : th'[u] = Touch(t, C)[u]
    BY <1>3, TouchType
  <2>3. Kept(t)
    BY <2>2 DEF Kept, Touch
  <2> QED
    BY <2>1, <2>3
<1> QED
  BY <1>2, <1>3 DEF Moves

(* What the invariant says of one thread.                                   *)
LEMMA ThreadTypes ==
  ASSUME TypeInv, NEW t \in Threads
  PROVE  th[t] \in Thread /\ Placed(th[t]) /\ At(t) \in Caches
BY DEF TypeInv, TypeOK, Places, Thread, At

(* Nothing but the threads and the number of faults changes.                *)
LEMMA OnlyThreads ==
  ASSUME TypeInv, th' \in [Threads -> Thread], Places', faults' = faults \/ Fault,
         UNCHANGED <<world, redis, locks, disk, overrun, cut>>
  PROVE  TypeInv'
BY CacheAssumption DEF TypeInv, TypeOK, world, disk, Fault, Problem

(* Leaving a with-block gives a well-typed record.                          *)
LEMMA AfterType ==
  ASSUME TypeInv, NEW r \in Thread, NEW out \in {"ok", "none", "raise"}
  PROVE  After(r, out) \in Thread /\ Placed(After(r, out))
<1>1. CASE r.at \in {"testdata", "public", "accode"}
  BY <1>1, FailedType DEF After, Thread, Placed, Fetching, Comparing, Unpacking
<1>2. CASE r.at = "checker"
  BY ZenonT(30), <1>2, Numbers DEF After, Absent, Thread, Placed, Fetching, Comparing, Unpacking
<1>3. CASE r.at = "resource"
  <2>1. Ensure(r, "extracted", "acquire") \in Thread
        /\ Placed(Ensure(r, "extracted", "acquire"))
    BY EnsureType DEF TypeInv, Caches, Archives
  <2> QED
    BY <1>3, <2>1, FailedType DEF After, Thread, Placed, Fetching, Comparing, Unpacking
<1>4. CASE r.at = "extracted"
  BY <1>4, FailedType DEF After, Thread, Placed, Fetching, Comparing, Unpacking
<1> QED
  BY <1>1, <1>2, <1>3, <1>4 DEF Thread, Caches, Archives, Assets

(* So does the beginning of a submission.                                   *)
LEMMA BeginType ==
  ASSUME TypeInv, NEW t \in Threads, NEW k \in {"normal", "public", "custom"}
  PROVE  Begin(t, k) \in Thread /\ Placed(Begin(t, k))
<1> DEFINE r == [Asleep EXCEPT !.kind = k]
<1>1. r \in Thread
  BY AsleepType DEF Thread
<1>2. [r EXCEPT !.pc = "meta", !.stage = "trial"] \in Thread
      /\ Placed([r EXCEPT !.pc = "meta", !.stage = "trial"])
  BY <1>1 DEF Thread, Placed, Fetching, Comparing, Unpacking
<1>3. \A c \in {"testdata", "public"} :
        Ensure(r, c, "acquire") \in Thread /\ Placed(Ensure(r, c, "acquire"))
  BY <1>1, EnsureType DEF TypeInv, Caches, Archives
<1> QED
  BY <1>2, <1>3 DEF Begin

(* So do the resource data and the checker, on the way to the dispatcher.   *)
LEMMA HandleType ==
  ASSUME TypeInv, NEW r \in Thread
  PROVE  /\ Resource(r) \in Thread /\ Placed(Resource(r))
         /\ [Ensure(r, "checker", "mkdir") EXCEPT !.stage = "handle"] \in Thread
         /\ Placed([Ensure(r, "checker", "mkdir") EXCEPT !.stage = "handle"])
<1>1. \A a \in Assets : Ensure(r, a, "mkdir") \in Thread /\ Placed(Ensure(r, a, "mkdir"))
  BY EnsureType DEF TypeInv, Caches
<1>2. Nothing \in [Parts -> 0..Torn]
  BY Numbers DEF Nothing, Absent
<1>3. [r EXCEPT !.pc = "done", !.copy = Nothing] \in Thread
      /\ Placed([r EXCEPT !.pc = "done", !.copy = Nothing])
  BY <1>2 DEF Thread, Placed, Fetching, Comparing, Unpacking
<1>4. [Ensure(r, "checker", "mkdir") EXCEPT !.stage = "handle"] \in Thread
      /\ Placed([Ensure(r, "checker", "mkdir") EXCEPT !.stage = "handle"])
  BY <1>1 DEF Thread, Placed, Fetching, Comparing, Unpacking, Assets
<1> QED
  BY <1>1, <1>3, <1>4 DEF Resource, Assets

-----------------------------------------------------------------------------
(* The steps of a thread that refreshes an archive keep the types.           *)
LEMMA ArchiveTypes ==
  ASSUME TypeInv, NEW t \in Threads,
         \/ Acquire(t) \/ GetKey(t) \/ Compare(t) \/ CannotCompare(t)
         \/ Fetch(t) \/ ClearPart(t) \/ ClearExtracted(t) \/ ClearFolder(t)
         \/ ClearRaises(t) \/ ExtractPart(t) \/ FetchMeta(t) \/ Store(t)
         \/ Raise(t)
  PROVE  TypeInv' /\ Kept(t)
<1>1. th[t] \in Thread /\ Placed(th[t]) /\ At(t) \in Caches
  BY ThreadTypes
<1>2. CASE Acquire(t)
  <2> DEFINE r == [th[t] EXCEPT !.pc = CASE At(t) = "extracted" -> "zipsum"
                         [] At(t) \in Assets    -> "checksum"
                         [] OTHER               -> "getkey"]
  <2>1. r \in Thread
    BY <1>1, Numbers DEF Thread, Section
  <2>2. Placed(r)
    BY <1>1, <1>2 DEF Acquire, Is, At, Thread, Placed, Fetching, Comparing,
        Unpacking, Caches
  <2>3. Moves(t, r)
    BY <1>1, <1>2 DEF Acquire, Step, Moves, TypeInv, TypeOK
  <2>4. th' \in [Threads -> Thread] /\ Places' /\ Kept(t)
    BY <2>1, <2>2, <2>3, MoveTypes
  <2>5. locks' \in [Caches -> Threads \cup {Nobody, Lost}]
    BY <1>1, <1>2, Numbers, Names DEF Acquire, TypeInv, TypeOK, Is, At
  <2> QED
    BY <1>2, <2>5, <2>4 DEF Acquire, TypeInv, TypeOK, world, disk
<1>3. CASE GetKey(t)
  <2> DEFINE r == [th[t] EXCEPT !.key = redis[At(t)],
                      !.pc = IF redis[At(t)] = NoKey THEN "fetch" ELSE "compare"]
  <2>1. At(t) \in Archives \ {"extracted"}
    BY <1>1, <1>3 DEF GetKey, Is, At, Placed, Fetching, Comparing, Unpacking
  <2>2. redis[At(t)] \in Key
    BY <2>1 DEF TypeInv, TypeOK
  <2>3. r \in Thread
    BY <1>1, <2>1, <2>2, Numbers DEF Thread, Section
  <2>4. Placed(r)
    BY <1>1, <1>3, <2>1, <2>2 DEF GetKey, Is, At, Thread, Placed, Fetching,
        Comparing, Unpacking
  <2>5. Moves(t, r)
    BY <1>1, <1>3 DEF GetKey, Step, Moves, TypeInv, TypeOK
  <2>6. th' \in [Threads -> Thread] /\ Places' /\ Kept(t)
    BY <2>3, <2>4, <2>5, MoveTypes
  <2> QED
    BY <1>3, <2>6, OnlyThreads DEF GetKey
<1>4. CASE Compare(t)
  <2> DEFINE r == [th[t] EXCEPT !.pc = IF th[t].key = <<backend[At(t)], backend[At(t)]>>
                                THEN "release" ELSE "fetch"]
  <2>1. r \in Thread
    BY <1>1, Numbers DEF Thread, Section
  <2>2. Placed(r)
    BY <1>1, <1>4 DEF Compare, Is, At, Thread, Placed, Fetching, Comparing,
        Unpacking
  <2>3. Moves(t, r)
    BY <1>1, <1>4 DEF Compare, Step, Moves, TypeInv, TypeOK
  <2>4. th' \in [Threads -> Thread] /\ Places' /\ Kept(t)
    BY <2>1, <2>2, <2>3, MoveTypes
  <2> QED
    BY <1>4, <2>4, OnlyThreads DEF Compare
<1>5. CASE CannotCompare(t)
  <2> DEFINE r == [th[t] EXCEPT !.pc = IF At(t) = "testdata" THEN "unwind" ELSE "fetch"]
  <2>1. r \in Thread
    BY <1>1, Numbers DEF Thread, Section
  <2>2. Placed(r)
    BY <1>1, <1>5 DEF CannotCompare, Is, At, Thread, Placed, Fetching,
        Comparing, Unpacking
  <2>3. Moves(t, r)
    BY <1>1, <1>5 DEF CannotCompare, Step, Moves, TypeInv, TypeOK
  <2>4. th' \in [Threads -> Thread] /\ Places' /\ Kept(t)
    BY <2>1, <2>2, <2>3, MoveTypes
  <2> QED
    BY <1>5, <2>4, OnlyThreads DEF CannotCompare
<1>6. CASE Fetch(t)
  <2> DEFINE r == Cleared([th[t] EXCEPT !.data = backend[At(t)]], Children(At(t)))
  <2>1. At(t) \in Archives \ {"extracted"}
    BY <1>1, <1>6 DEF Fetch, Is, At, Placed, Fetching, Comparing, Unpacking
  <2>2. backend[At(t)] \in Versions
    BY <2>1, Names DEF TypeInv, TypeOK
  <2>3. Children(At(t)) \in SUBSET (Caches \cup Parts)
    BY Names DEF Children, Present, TypeInv, TypeOK
  <2>4. r \in Thread
    BY <1>1, <2>1, <2>2, <2>3, Numbers DEF Thread, Section, Cleared
  <2>5. Placed(r)
    BY <1>1, <1>6, <2>1, <2>2, <2>3 DEF Fetch, Is, At, Thread, Placed, Fetching,
        Comparing, Unpacking, Cleared
  <2>6. Moves(t, r)
    BY <1>1, <1>6 DEF Fetch, Step, Moves, TypeInv, TypeOK, Cleared
  <2>7. th' \in [Threads -> Thread] /\ Places' /\ Kept(t)
    BY <2>4, <2>5, <2>6, MoveTypes
  <2>8. cut' \in SUBSET Archives
    BY <1>1, <1>6, <2>1, <2>2, <2>3, Numbers, Names DEF Fetch, TypeInv, TypeOK,
        Is, At
  <2> QED
    BY <1>6, <2>8, <2>7 DEF Fetch, TypeInv, TypeOK, world, disk
<1>7. CASE ClearPart(t)
  <2> PICK p \in th[t].todo \cap Parts :
             /\ dir' = [dir EXCEPT ![At(t)][p] = Absent]
             /\ th' = [Touch(t, {At(t)}) EXCEPT ![t] = Cleared(@, @.todo \ {p})]
    BY <1>7 DEF ClearPart
  <2> DEFINE r == Cleared(th[t], th[t].todo \ {p})
  <2>1. At(t) \in Archives \ {"extracted"}
    BY <1>1, <1>7 DEF ClearPart, Is, At, Placed, Fetching, Comparing, Unpacking
  <2>2. r \in Thread
    BY <1>1, <2>1, Numbers DEF Thread, Section, Cleared
  <2>3. Placed(r)
    BY <1>1, <1>7, <2>1 DEF ClearPart, Is, At, Thread, Placed, Fetching,
        Comparing, Unpacking, Cleared
  <2>4. {At(t)} \in SUBSET Caches
    BY <1>1, <2>1, Names DEF Relying, Caches, Assets
  <2>5. /\ Touch(t, {At(t)}) \in [Threads -> Thread]
        /\ Touch(t, {At(t)})[t] = th[t]
    BY TouchType
  <2>6. th' = [Touch(t, {At(t)}) EXCEPT ![t] = r]
    BY <1>1, <1>7, <2>1, <2>5 DEF ClearPart, Thread, Cleared
  <2>7. Moves(t, r)
    BY <2>4, <2>6 DEF Moves
  <2>8. th' \in [Threads -> Thread] /\ Places' /\ Kept(t)
    BY <2>2, <2>3, <2>7, MoveTypes
  <2>9. dir' \in [Archives -> [Parts -> 0..MaxVersion]]
    BY <1>1, <1>7, <2>1, Numbers, Names, DirType DEF Absent, ClearPart, TypeInv,
        TypeOK, Is, At
  <2> QED
    BY <1>7, <2>9, <2>8 DEF ClearPart, TypeInv, TypeOK, world, disk
<1>8. CASE ClearExtracted(t)
  <2> DEFINE r == th[t]
  <2>1. r \in Thread /\ Placed(r)
    BY <1>1, <1>8 DEF ClearExtracted, Is, At, Placed, Fetching, Comparing,
        Unpacking
  <2>2. {"extracted"} \in SUBSET Caches
    BY <1>1, <2>1, Names DEF Relying, Caches, Assets
  <2>3. /\ Touch(t, {"extracted"}) \in [Threads -> Thread]
        /\ Touch(t, {"extracted"})[t] = th[t]
    BY TouchType
  <2>4. th' = [Touch(t, {"extracted"}) EXCEPT ![t] = r]
    BY <1>1, <1>8, <2>1, <2>3 DEF ClearExtracted, Thread
  <2>5. Moves(t, r)
    BY <2>2, <2>4 DEF Moves
  <2>6. th' \in [Threads -> Thread] /\ Places' /\ Kept(t)
    BY <2>1, <2>5, MoveTypes
  <2>7. dir' \in [Archives -> [Parts -> 0..MaxVersion]]
    BY <1>1, <1>8, <2>1, Numbers, Names, DirType DEF Absent, ClearExtracted,
        TypeInv, TypeOK, Is, At
  <2> QED
    BY <1>8, <2>7, <2>6 DEF ClearExtracted, TypeInv, TypeOK, world, disk
<1>9. CASE ClearFolder(t)
  <2> PICK a \in th[t].todo \cap folders :
             /\ file' = [file EXCEPT ![a] = Absent]
             /\ folders' = folders \ {a}
             /\ th' = [Touch(t, {a, IF a = "resource" THEN "extracted" ELSE a})
                         EXCEPT ![t] = Cleared(@, @.todo \ {a})]
    BY <1>9 DEF ClearFolder
  <2> DEFINE r == Cleared(th[t], th[t].todo \ {a})
  <2>1. a \in Assets
    BY DEF TypeInv, TypeOK
  <2>2. At(t) \in Archives \ {"extracted"}
    BY <1>1, <1>9 DEF ClearFolder, Is, At, Placed, Fetching, Comparing,
        Unpacking
  <2>3. r \in Thread
    BY ZenonT(30), <1>1, <2>1, <2>2, Numbers DEF Thread, Section, Cleared
  <2>4. Placed(r)
    BY <1>1, <1>9, <2>1, <2>2 DEF ClearFolder, Is, At, Thread, Placed, Fetching,
        Comparing, Unpacking, Cleared
  <2>5. {a, IF a = "resource" THEN "extracted" ELSE a} \in SUBSET Caches
    BY <1>1, <2>1, <2>2, Names DEF Relying, Caches, Assets
  <2>6. /\ Touch(t, {a, IF a = "resource" THEN "extracted" ELSE a}) \in [Threads -> Thread]
        /\ Touch(t, {a, IF a = "resource" THEN "extracted" ELSE a})[t] = th[t]
    BY TouchType
  <2>7. th' = [Touch(t, {a, IF a = "resource" THEN "extracted" ELSE a}) EXCEPT ![t] = r]
    BY <1>1, <1>9, <2>1, <2>2, <2>6 DEF ClearFolder, Thread, Cleared
  <2>8. Moves(t, r)
    BY <2>5, <2>7 DEF Moves
  <2>9. th' \in [Threads -> Thread] /\ Places' /\ Kept(t)
    BY <2>3, <2>4, <2>8, MoveTypes
  <2>10. file' \in [Assets -> 0..Torn]
    BY <1>1, <1>9, <2>1, <2>2, Numbers, Names, FileType DEF Absent, ClearFolder,
        TypeInv, TypeOK, Is, At
  <2>11. folders' \in SUBSET Assets
    BY <1>1, <1>9, <2>1, <2>2, Numbers, Names DEF ClearFolder, TypeInv, TypeOK,
        Is, At
  <2> QED
    BY <1>9, <2>10, <2>11, <2>9 DEF ClearFolder, TypeInv, TypeOK, world, disk
<1>10. CASE ClearRaises(t)
  <2> DEFINE r == [th[t] EXCEPT !.pc = "unwind"]
  <2>1. r \in Thread
    BY <1>1, Numbers DEF Thread, Section
  <2>2. Placed(r)
    BY <1>1, <1>10 DEF ClearRaises, Is, At, Thread, Placed, Fetching, Comparing,
        Unpacking
  <2>3. Moves(t, r)
    BY <1>1, <1>10 DEF ClearRaises, Step, Moves, TypeInv, TypeOK
  <2>4. th' \in [Threads -> Thread] /\ Places' /\ Kept(t)
    BY <2>1, <2>2, <2>3, MoveTypes
  <2> QED
    BY <1>10, <2>4, OnlyThreads DEF ClearRaises
<1>11. CASE ExtractPart(t)
  <2> PICK p \in th[t].todo :
             /\ dir' = [dir EXCEPT ![At(t)][p] = th[t].data]
             /\ th' = [Touch(t, {At(t)}) EXCEPT
                   ![t].todo = @ \ {p},
                   ![t].key  = <<th[t].data, th[t].data>>,
                   ![t].pc   = IF th[t].todo # {p} THEN "extract"
                               ELSE IF At(t) = "testdata" THEN "fmeta" ELSE "store"]
    BY <1>11 DEF ExtractPart
  <2> DEFINE r == [th[t] EXCEPT
                   !.todo = @ \ {p}, !.key = <<th[t].data, th[t].data>>,
                   !.pc = IF th[t].todo # {p} THEN "extract"
                          ELSE IF At(t) = "testdata" THEN "fmeta" ELSE "store"]
  <2>1. At(t) \in Archives \ {"extracted"} /\ th[t].data \in Versions
    BY <1>1, <1>11 DEF ExtractPart, Is, At, Placed, Fetching, Comparing,
        Unpacking
  <2>2. r \in Thread
    BY ZenonT(30), <1>1, <2>1, Numbers DEF Thread, Section
  <2>3. Placed(r)
    BY <1>1, <1>11, <2>1 DEF ExtractPart, Is, At, Thread, Placed, Fetching,
        Comparing, Unpacking
  <2>4. {At(t)} \in SUBSET Caches
    BY <1>1, <2>1, Names DEF Relying, Caches, Assets
  <2>5. /\ Touch(t, {At(t)}) \in [Threads -> Thread]
        /\ Touch(t, {At(t)})[t] = th[t]
    BY TouchType
  <2>6. th' = [Touch(t, {At(t)}) EXCEPT ![t] = r]
    BY <1>1, <1>11, <2>1, <2>5 DEF ExtractPart, Thread
  <2>7. Moves(t, r)
    BY <2>4, <2>6 DEF Moves
  <2>8. th' \in [Threads -> Thread] /\ Places' /\ Kept(t)
    BY <2>2, <2>3, <2>7, MoveTypes
  <2>9. dir' \in [Archives -> [Parts -> 0..MaxVersion]]
    BY <1>1, <1>11, <2>1, Numbers, Names, DirType DEF Absent, ExtractPart,
        TypeInv, TypeOK, Is, At
  <2> QED
    BY <1>11, <2>9, <2>8 DEF ExtractPart, TypeInv, TypeOK, world, disk
<1>12. CASE FetchMeta(t)
  <2> DEFINE r == [th[t] EXCEPT !.key = <<th[t].data, meta'>>, !.pc = "store"]
  <2>1. At(t) \in Archives \ {"extracted"} /\ th[t].data \in Versions
    BY <1>1, <1>12 DEF FetchMeta, Is, At, Placed, Fetching, Comparing, Unpacking
  <2>2. meta' \in Versions
    BY <1>12 DEF FetchMeta, TypeInv, TypeOK, Items
  <2>3. r \in Thread
    BY <1>1, <2>1, <2>2, Numbers DEF Thread, Section
  <2>4. Placed(r)
    BY <1>1, <1>12, <2>1, <2>2 DEF FetchMeta, Is, At, Thread, Placed, Fetching,
        Comparing, Unpacking
  <2>5. Moves(t, r)
    BY <1>1, <1>12 DEF FetchMeta, Step, Moves, TypeInv, TypeOK
  <2>6. th' \in [Threads -> Thread] /\ Places' /\ Kept(t)
    BY <2>3, <2>4, <2>5, MoveTypes
  <2>7. meta' \in 0..MaxVersion
    BY <1>1, <1>12, <2>1, <2>2, Numbers, Names DEF FetchMeta, TypeInv, TypeOK,
        Is, At
  <2> QED
    BY <1>12, <2>7, <2>6 DEF FetchMeta, TypeInv, TypeOK, world, disk
<1>13. CASE Store(t)
  <2> DEFINE r == [th[t] EXCEPT !.pc = "release"]
  <2>1. At(t) \in Archives \ {"extracted"}
    BY <1>1, <1>13 DEF Store, Is, At, Placed, Fetching, Comparing, Unpacking
  <2>2. th[t].key \in Key
    BY <1>1 DEF Thread
  <2>3. r \in Thread
    BY <1>1, <2>1, <2>2, Numbers DEF Thread, Section
  <2>4. Placed(r)
    BY <1>1, <1>13, <2>1, <2>2 DEF Store, Is, At, Thread, Placed, Fetching,
        Comparing, Unpacking
  <2>5. Moves(t, r)
    BY <1>1, <1>13 DEF Store, Step, Moves, TypeInv, TypeOK
  <2>6. th' \in [Threads -> Thread] /\ Places' /\ Kept(t)
    BY <2>3, <2>4, <2>5, MoveTypes
  <2>7. redis' \in [Archives -> Key]
    BY <1>1, <1>13, <2>1, <2>2, Numbers, Names DEF Store, TypeInv, TypeOK, Is,
        At
  <2>8. cut' \in SUBSET Archives
    BY <1>1, <1>13, <2>1, <2>2, Numbers, Names DEF Store, TypeInv, TypeOK, Is,
        At
  <2> QED
    BY <1>13, <2>7, <2>8, <2>6 DEF Store, TypeInv, TypeOK, world, disk
<1>14. CASE Raise(t)
  <2> DEFINE r == [th[t] EXCEPT !.pc = "unwind"]
  <2>1. r \in Thread
    BY <1>1, Numbers DEF Thread, Section
  <2>2. Placed(r)
    BY <1>1, <1>14 DEF Raise, Is, At, Thread, Placed, Fetching, Comparing,
        Unpacking
  <2>3. Moves(t, r)
    BY <1>1, <1>14 DEF Raise, Step, Moves, TypeInv, TypeOK
  <2>4. th' \in [Threads -> Thread] /\ Places' /\ Kept(t)
    BY <2>1, <2>2, <2>3, MoveTypes
  <2> QED
    BY <1>14, <2>4, OnlyThreads DEF Raise
<1> QED
  BY <1>2, <1>3, <1>4, <1>5, <1>6, <1>7, <1>8, <1>9, <1>10, <1>11, <1>12, <1>13,
      <1>14

(* The steps of a thread that refreshes an asset keep the types.             *)
LEMMA AssetTypes ==
  ASSUME TypeInv, NEW t \in Threads,
         \/ MakeFolder(t) \/ CompareFile(t) \/ NotConfigured(t)
         \/ Download(t) \/ OpenFile(t) \/ FillFile(t) \/ SumZip(t)
         \/ RemoveExtracted(t) \/ OpenZip(t) \/ UnzipPart(t)
         \/ UnzipFails(t) \/ StoreExtracted(t)
  PROVE  TypeInv' /\ Kept(t)
<1>1. th[t] \in Thread /\ Placed(th[t]) /\ At(t) \in Caches
  BY ThreadTypes
<1>2. CASE MakeFolder(t)
  <2> DEFINE r == [th[t] EXCEPT !.pc = "acquire"]
  <2>1. At(t) \in Assets
    BY <1>1, <1>2 DEF MakeFolder, Is, At, Placed, Fetching, Comparing, Unpacking
  <2>2. r \in Thread
    BY <1>1, <2>1, Numbers DEF Thread, Section
  <2>3. Placed(r)
    BY <1>1, <1>2, <2>1 DEF MakeFolder, Is, At, Thread, Placed, Fetching,
        Comparing, Unpacking
  <2>4. Moves(t, r)
    BY <1>1, <1>2 DEF MakeFolder, Step, Moves, TypeInv, TypeOK
  <2>5. th' \in [Threads -> Thread] /\ Places' /\ Kept(t)
    BY <2>2, <2>3, <2>4, MoveTypes
  <2>6. folders' \in SUBSET Assets
    BY <1>1, <1>2, <2>1, Numbers, Names DEF MakeFolder, TypeInv, TypeOK, Is, At
  <2> QED
    BY <1>2, <2>6, <2>5 DEF MakeFolder, TypeInv, TypeOK, world, disk
<1>3. CASE CompareFile(t)
  <2> DEFINE r == [th[t] EXCEPT !.pc = IF file[At(t)] = backend[At(t)] THEN "release" ELSE "download"]
  <2>1. r \in Thread
    BY <1>1, Numbers DEF Thread, Section
  <2>2. Placed(r)
    BY <1>1, <1>3 DEF CompareFile, Is, At, Thread, Placed, Fetching, Comparing,
        Unpacking
  <2>3. Moves(t, r)
    BY <1>1, <1>3 DEF CompareFile, Step, Moves, TypeInv, TypeOK
  <2>4. th' \in [Threads -> Thread] /\ Places' /\ Kept(t)
    BY <2>1, <2>2, <2>3, MoveTypes
  <2> QED
    BY <1>3, <2>4, OnlyThreads DEF CompareFile
<1>4. CASE NotConfigured(t)
  <2> DEFINE r == [th[t] EXCEPT !.pc = "none"]
  <2>1. r \in Thread
    BY <1>1, Numbers DEF Thread, Section
  <2>2. Placed(r)
    BY <1>1, <1>4 DEF NotConfigured, Is, At, Thread, Placed, Fetching,
        Comparing, Unpacking
  <2>3. Moves(t, r)
    BY <1>1, <1>4 DEF NotConfigured, Step, Moves, TypeInv, TypeOK
  <2>4. th' \in [Threads -> Thread] /\ Places' /\ Kept(t)
    BY <2>1, <2>2, <2>3, MoveTypes
  <2> QED
    BY <1>4, <2>4, OnlyThreads DEF NotConfigured
<1>5. CASE Download(t)
  <2> DEFINE r == [th[t] EXCEPT !.data = backend[At(t)], !.pc = "write"]
  <2>1. backend[At(t)] \in Versions
    BY <1>1, <1>5, Names DEF TypeInv, TypeOK, Download, Is, At, Placed,
        Fetching, Comparing, Unpacking
  <2>2. r \in Thread
    BY <1>1, <2>1, Numbers DEF Thread, Section
  <2>3. Placed(r)
    BY <1>1, <1>5, <2>1 DEF Download, Is, At, Thread, Placed, Fetching,
        Comparing, Unpacking
  <2>4. Moves(t, r)
    BY <1>1, <1>5 DEF Download, Step, Moves, TypeInv, TypeOK
  <2>5. th' \in [Threads -> Thread] /\ Places' /\ Kept(t)
    BY <2>2, <2>3, <2>4, MoveTypes
  <2> QED
    BY <1>5, <2>5, OnlyThreads DEF Download
<1>6. CASE OpenFile(t)
  <2> DEFINE r == IF At(t) \in folders THEN [th[t] EXCEPT !.pc = "fill"]
                    ELSE [th[t] EXCEPT !.pc = "unwind"]
  <2>1. At(t) \in Assets
    BY <1>1, <1>6 DEF OpenFile, Is, At, Placed, Fetching, Comparing, Unpacking
  <2>2. r \in Thread
    BY <1>1, <2>1, Numbers DEF Thread, Section
  <2>3. Placed(r)
    BY <1>1, <1>6, <2>1 DEF OpenFile, Is, At, Thread, Placed, Fetching,
        Comparing, Unpacking
  <2>4. Relying(At(t)) \in SUBSET Caches
    BY <1>1, <2>1, Names DEF Relying, Caches, Assets
  <2>5. /\ Touch(t, Relying(At(t))) \in [Threads -> Thread]
        /\ Touch(t, Relying(At(t)))[t] = th[t]
    BY TouchType
  <2>6. th' = [th EXCEPT ![t] = r] \/ th' = [Touch(t, Relying(At(t))) EXCEPT ![t] = r]
    BY <1>1, <1>6, <2>1, <2>5 DEF OpenFile, Thread, Step, TypeInv, TypeOK
  <2>7. Moves(t, r)
    BY <2>4, <2>6 DEF Moves
  <2>8. th' \in [Threads -> Thread] /\ Places' /\ Kept(t)
    BY <2>2, <2>3, <2>7, MoveTypes
  <2>9. file' \in [Assets -> 0..Torn]
    BY <1>1, <1>6, <2>1, Numbers, Names, FileType DEF Absent, OpenFile, TypeInv,
        TypeOK, Is, At
  <2> QED
    BY <1>6, <2>9, <2>8 DEF OpenFile, TypeInv, TypeOK, world, disk
<1>7. CASE FillFile(t)
  <2> DEFINE r == [th[t] EXCEPT !.pc = "release"]
  <2>1. At(t) \in Assets /\ th[t].data \in Versions
    BY <1>1, <1>7 DEF FillFile, Is, At, Placed, Fetching, Comparing, Unpacking
  <2>2. r \in Thread
    BY <1>1, <2>1, Numbers DEF Thread, Section
  <2>3. Placed(r)
    BY <1>1, <1>7, <2>1 DEF FillFile, Is, At, Thread, Placed, Fetching,
        Comparing, Unpacking
  <2>4. Relying(At(t)) \in SUBSET Caches
    BY <1>1, <2>1, Names DEF Relying, Caches, Assets
  <2>5. /\ Touch(t, Relying(At(t))) \in [Threads -> Thread]
        /\ Touch(t, Relying(At(t)))[t] = th[t]
    BY TouchType
  <2>6. th' = [Touch(t, Relying(At(t))) EXCEPT ![t] = r]
    BY <1>1, <1>7, <2>1, <2>5 DEF FillFile, Thread
  <2>7. Moves(t, r)
    BY <2>4, <2>6 DEF Moves
  <2>8. th' \in [Threads -> Thread] /\ Places' /\ Kept(t)
    BY <2>2, <2>3, <2>7, MoveTypes
  <2>9. file' \in [Assets -> 0..Torn]
    BY <1>1, <1>7, <2>1, Numbers, Names, FileType DEF Absent, FillFile, TypeInv,
        TypeOK, Is, At
  <2> QED
    BY <1>7, <2>9, <2>8 DEF FillFile, TypeInv, TypeOK, world, disk
<1>8. CASE SumZip(t)
  <2> DEFINE r == LET zip == file["resource"]
               IN IF zip = Absent THEN [th[t] EXCEPT !.pc = "unwind"]
                  ELSE IF ExtractedHit(zip) THEN [th[t] EXCEPT !.pc = "release"]
                  ELSE [th[t] EXCEPT !.pc = "rmext", !.data = zip, !.todo = Present("extracted")]
  <2>1. file["resource"] \in 0..Torn
    BY DEF TypeInv, TypeOK, Assets
  <2>2. Present("extracted") \in SUBSET (Caches \cup Parts)
    BY DEF Present
  <2>3. At(t) = "extracted"
    BY <1>1, <1>8 DEF SumZip, Is, At, Placed, Fetching, Comparing, Unpacking
  <2>4. r \in Thread
    BY ZenonT(30), <1>1, <2>1, <2>2, <2>3, Numbers DEF Thread, Section
  <2>5. Placed(r)
    BY <1>1, <1>8, <2>1, <2>2, <2>3 DEF SumZip, Is, At, Thread, Placed,
        Fetching, Comparing, Unpacking
  <2>6. Moves(t, r)
    BY <1>1, <1>8 DEF SumZip, Step, Moves, TypeInv, TypeOK
  <2>7. th' \in [Threads -> Thread] /\ Places' /\ Kept(t)
    BY <2>4, <2>5, <2>6, MoveTypes
  <2> QED
    BY <1>8, <2>7 DEF SumZip, TypeInv, TypeOK, world, disk, Archives
<1>9. CASE RemoveExtracted(t)
  <2> PICK p \in th[t].todo :
             IF dir["extracted"][p] = Absent
             THEN Step(t, "unwind") /\ UNCHANGED dir
             ELSE /\ dir' = [dir EXCEPT !["extracted"][p] = Absent]
                  /\ th' = [Touch(t, {"extracted"}) EXCEPT ![t].todo = @ \ {p}]
    BY <1>9 DEF RemoveExtracted
  <2> DEFINE r == IF dir["extracted"][p] = Absent THEN [th[t] EXCEPT !.pc = "unwind"]
                    ELSE [th[t] EXCEPT !.todo = @ \ {p}]
  <2>1. r \in Thread
    BY <1>1, Numbers DEF Thread, Section
  <2>2. Placed(r)
    BY <1>1, <1>9 DEF RemoveExtracted, Is, At, Thread, Placed, Fetching,
        Comparing, Unpacking
  <2>3. {"extracted"} \in SUBSET Caches
    BY <1>1, Names DEF Relying, Caches, Assets
  <2>4. /\ Touch(t, {"extracted"}) \in [Threads -> Thread]
        /\ Touch(t, {"extracted"})[t] = th[t]
    BY TouchType
  <2>5. th' = [th EXCEPT ![t] = r] \/ th' = [Touch(t, {"extracted"}) EXCEPT ![t] = r]
    BY <1>1, <1>9, <2>4 DEF RemoveExtracted, Thread, Step, TypeInv, TypeOK
  <2>6. Moves(t, r)
    BY <2>3, <2>5 DEF Moves
  <2>7. th' \in [Threads -> Thread] /\ Places' /\ Kept(t)
    BY <2>1, <2>2, <2>6, MoveTypes
  <2>8. dir' \in [Archives -> [Parts -> 0..MaxVersion]]
    BY <1>1, <1>9, Numbers, Names, DirType DEF Absent, RemoveExtracted, TypeInv,
        TypeOK, Is, At
  <2> QED
    BY <1>9, <2>8, <2>7 DEF RemoveExtracted, TypeInv, TypeOK, world, disk
<1>10. CASE OpenZip(t)
  <2> DEFINE r == [th[t] EXCEPT !.pc = "unzip", !.todo = Parts,
                      !.key = IF th[t].data = Torn THEN NoKey ELSE <<th[t].data, th[t].data>>,
                      !.data = file["resource"]]
  <2>1. file["resource"] \in 0..Torn
    BY DEF TypeInv, TypeOK, Assets
  <2>2. th[t].data \in 0..Torn
    BY <1>1 DEF Thread
  <2>3. At(t) = "extracted"
    BY <1>1, <1>10 DEF OpenZip, Is, At, Placed, Fetching, Comparing, Unpacking
  <2>4. r \in Thread
    BY <1>1, <2>1, <2>2, <2>3, Numbers DEF Thread, Section
  <2>5. Placed(r)
    BY <1>1, <1>10, <2>1, <2>2, <2>3 DEF OpenZip, Is, At, Thread, Placed,
        Fetching, Comparing, Unpacking
  <2>6. Moves(t, r)
    BY <1>1, <1>10 DEF OpenZip, Step, Moves, TypeInv, TypeOK
  <2>7. th' \in [Threads -> Thread] /\ Places' /\ Kept(t)
    BY <2>4, <2>5, <2>6, MoveTypes
  <2>8. folders' \in SUBSET Assets
    BY <1>1, <1>10, <2>1, <2>2, <2>3, Numbers, Names DEF Assets, OpenZip,
        TypeInv, TypeOK, Is, At
  <2>9. cut' \in SUBSET Archives
    BY <1>1, <1>10, <2>1, <2>2, <2>3, Numbers, Names DEF OpenZip, TypeInv,
        TypeOK, Is, At
  <2> QED
    BY <1>10, <2>8, <2>9, <2>7 DEF OpenZip, TypeInv, TypeOK, world, disk
<1>11. CASE UnzipPart(t)
  <2> PICK p \in th[t].todo :
             /\ dir' = [dir EXCEPT !["extracted"][p] = th[t].data]
             /\ th' = [Touch(t, {"extracted"}) EXCEPT
                         ![t].todo = @ \ {p},
                         ![t].pc = IF th[t].todo = {p} THEN "storeext" ELSE "unzip"]
    BY <1>11 DEF UnzipPart
  <2> DEFINE r == [th[t] EXCEPT !.todo = @ \ {p},
                      !.pc = IF th[t].todo = {p} THEN "storeext" ELSE "unzip"]
  <2>1. At(t) = "extracted"
    BY <1>1, <1>11 DEF UnzipPart, Is, At, Placed, Fetching, Comparing, Unpacking
  <2>2. r \in Thread
    BY ZenonT(30), <1>1, <2>1, Numbers DEF Thread, Section
  <2>3. Placed(r)
    BY <1>1, <1>11, <2>1 DEF UnzipPart, Is, At, Thread, Placed, Fetching,
        Comparing, Unpacking
  <2>4. {"extracted"} \in SUBSET Caches
    BY <1>1, <2>1, Names DEF Relying, Caches, Assets
  <2>5. /\ Touch(t, {"extracted"}) \in [Threads -> Thread]
        /\ Touch(t, {"extracted"})[t] = th[t]
    BY TouchType
  <2>6. th' = [Touch(t, {"extracted"}) EXCEPT ![t] = r]
    BY <1>1, <1>11, <2>1, <2>5 DEF UnzipPart, Thread
  <2>7. Moves(t, r)
    BY <2>4, <2>6 DEF Moves
  <2>8. th' \in [Threads -> Thread] /\ Places' /\ Kept(t)
    BY <2>2, <2>3, <2>7, MoveTypes
  <2>9. dir' \in [Archives -> [Parts -> 0..MaxVersion]]
    BY <1>1, <1>11, <2>1, Numbers, Names, DirType DEF Absent, UnzipPart,
        TypeInv, TypeOK, Is, At
  <2>10. folders' \in SUBSET Assets
    BY <1>1, <1>11, <2>1, Numbers, Names DEF Assets, UnzipPart, TypeInv, TypeOK,
        Is, At
  <2> QED
    BY <1>11, <2>9, <2>10, <2>8 DEF UnzipPart, TypeInv, TypeOK, world, disk
<1>12. CASE UnzipFails(t)
  <2> DEFINE r == [th[t] EXCEPT !.pc = "none"]
  <2>1. r \in Thread
    BY <1>1, Numbers DEF Thread, Section
  <2>2. Placed(r)
    BY <1>1, <1>12 DEF UnzipFails, Is, At, Thread, Placed, Fetching, Comparing,
        Unpacking
  <2>3. Moves(t, r)
    BY <1>1, <1>12 DEF UnzipFails, Step, Moves, TypeInv, TypeOK
  <2>4. th' \in [Threads -> Thread] /\ Places' /\ Kept(t)
    BY <2>1, <2>2, <2>3, MoveTypes
  <2> QED
    BY <1>12, <2>4, OnlyThreads DEF UnzipFails
<1>13. CASE StoreExtracted(t)
  <2> DEFINE r == [th[t] EXCEPT !.pc = "release"]
  <2>1. th[t].key \in Key
    BY <1>1 DEF Thread
  <2>2. r \in Thread
    BY <1>1, <2>1, Numbers DEF Thread, Section
  <2>3. Placed(r)
    BY <1>1, <1>13, <2>1 DEF StoreExtracted, Is, At, Thread, Placed, Fetching,
        Comparing, Unpacking
  <2>4. Moves(t, r)
    BY <1>1, <1>13 DEF StoreExtracted, Step, Moves, TypeInv, TypeOK
  <2>5. th' \in [Threads -> Thread] /\ Places' /\ Kept(t)
    BY <2>2, <2>3, <2>4, MoveTypes
  <2>6. redis' \in [Archives -> Key]
    BY <1>1, <1>13, <2>1, Numbers, Names DEF StoreExtracted, TypeInv, TypeOK,
        Is, At
  <2>7. cut' \in SUBSET Archives
    BY <1>1, <1>13, <2>1, Numbers, Names DEF StoreExtracted, TypeInv, TypeOK,
        Is, At
  <2> QED
    BY <1>13, <2>6, <2>7, <2>5 DEF StoreExtracted, TypeInv, TypeOK, world, disk
<1> QED
  BY <1>2, <1>3, <1>4, <1>5, <1>6, <1>7, <1>8, <1>9, <1>10, <1>11, <1>12, <1>13

(* The steps of a request outside the locks keep the types.                  *)
LEMMA RequestTypes ==
  ASSUME TypeInv, NEW t \in Threads,
         \/ Leave(t) \/ Submit(t) \/ GetMeta(t) \/ NoMeta(t)
         \/ ListCases(t) \/ CopyCase(t) \/ CasesCopied(t) \/ Handle(t)
         \/ TakeChecker(t) \/ PrepareResource(t) \/ ListResource(t)
         \/ CopyResource(t) \/ ResourceCopied(t) \/ Answer(t)
  PROVE  TypeInv' /\ Kept(t)
<1>1. th[t] \in Thread /\ Placed(th[t]) /\ At(t) \in Caches
  BY ThreadTypes
<1>2. CASE Leave(t)
  <2> DEFINE r == After(th[t], Outcome(t))
  <2>1. Outcome(t) \in {"ok", "none", "raise"}
    BY DEF Outcome
  <2>2. r \in Thread /\ Placed(r)
    BY <1>1, <2>1, AfterType
  <2>3. Moves(t, r)
    BY <1>1, <1>2 DEF Leave, Step, Moves, TypeInv, TypeOK
  <2>4. th' \in [Threads -> Thread] /\ Places' /\ Kept(t)
    BY <2>1, <2>2, <2>3, MoveTypes
  <2>5. locks' \in [Caches -> Threads \cup {Nobody, Lost}]
    BY <1>1, <1>2, <2>1, <2>2, Numbers, Names DEF Leave, TypeInv, TypeOK, Is, At
  <2> QED
    BY <1>2, <2>5, <2>4 DEF Leave, TypeInv, TypeOK, world, disk
<1>3. CASE Submit(t)
  <2> PICK k \in prob.kinds : th' = [th EXCEPT ![t] = Begin(t, k)]
    BY <1>3 DEF Submit
  <2> DEFINE r == Begin(t, k)
  <2>1. k \in {"normal", "public", "custom"}
    BY CacheAssumption DEF TypeInv, TypeOK, Problem
  <2>2. r \in Thread /\ Placed(r)
    BY <2>1, BeginType
  <2>3. Moves(t, r)
    BY <1>1, <1>3 DEF Submit, Step, Moves, TypeInv, TypeOK
  <2>4. th' \in [Threads -> Thread] /\ Places' /\ Kept(t)
    BY <2>1, <2>2, <2>3, MoveTypes
  <2>5. served' \in 0..prob.requests
    BY <1>1, <1>3, <2>1, <2>2, Numbers, Names, CacheAssumption DEF Problem,
        Submit, TypeInv, TypeOK, Is, At
  <2> QED
    BY <1>3, <2>5, <2>4 DEF Submit, TypeInv, TypeOK, world, disk
<1>4. CASE GetMeta(t)
  <2> DEFINE r == [th[t] EXCEPT !.pc = IF th[t].stage = "trial" THEN "tlist" ELSE "list"]
  <2>1. r \in Thread
    BY <1>1, Numbers DEF Thread, Section
  <2>2. Placed(r)
    BY <1>1, <1>4 DEF GetMeta, Is, At, Thread, Placed, Fetching, Comparing,
        Unpacking
  <2>3. Moves(t, r)
    BY <1>1, <1>4 DEF GetMeta, Step, Moves, TypeInv, TypeOK
  <2>4. th' \in [Threads -> Thread] /\ Places' /\ Kept(t)
    BY <2>1, <2>2, <2>3, MoveTypes
  <2>5. meta' \in 0..MaxVersion
    BY <1>1, <1>4, Numbers, Names DEF Items, GetMeta, TypeInv, TypeOK, Is, At
  <2> QED
    BY <1>4, <2>5, <2>4 DEF GetMeta, TypeInv, TypeOK, world, disk
<1>5. CASE NoMeta(t)
  <2> DEFINE r == Failed
  <2>1. r \in Thread /\ Placed(r)
    BY FailedType
  <2>2. Moves(t, r)
    BY <1>1, <1>5 DEF NoMeta, Step, Moves, TypeInv, TypeOK
  <2>3. th' \in [Threads -> Thread] /\ Places' /\ Kept(t)
    BY <2>1, <2>2, MoveTypes
  <2> QED
    BY <1>5, <2>3, OnlyThreads DEF NoMeta
<1>6. CASE ListCases(t)
  <2> DEFINE r == [th[t] EXCEPT !.todo = Cases(t), !.pc = "copy"]
  <2>1. Cases(t) \in SUBSET (Caches \cup Parts)
    BY DEF Cases, TypeInv, TypeOK
  <2>2. r \in Thread
    BY <1>1, <2>1, Numbers DEF Thread, Section
  <2>3. Placed(r)
    BY <1>1, <1>6, <2>1 DEF ListCases, Is, At, Thread, Placed, Fetching,
        Comparing, Unpacking
  <2>4. Moves(t, r)
    BY <1>1, <1>6 DEF ListCases, Step, Moves, TypeInv, TypeOK
  <2>5. th' \in [Threads -> Thread] /\ Places' /\ Kept(t)
    BY <2>2, <2>3, <2>4, MoveTypes
  <2> QED
    BY <1>6, <2>5, OnlyThreads DEF ListCases
<1>7. CASE CopyCase(t)
  <2> PICK p \in th[t].todo :
             IF p \notin Cases(t) THEN th' = [th EXCEPT ![t] = Failed]
             ELSE th' = [th EXCEPT ![t].todo = @ \ {p}, ![t].copy[p] = Source(t)[p]]
    BY <1>7 DEF CopyCase
  <2> DEFINE r == IF p \notin Cases(t) THEN Failed
                    ELSE [th[t] EXCEPT !.todo = @ \ {p}, !.copy[p] = Source(t)[p]]
  <2>1. p \in Parts => Source(t)[p] \in 0..Torn
    BY <1>1, Numbers DEF Source, TypeInv, TypeOK, Archives, Thread
  <2>2. [th[t] EXCEPT !.todo = @ \ {p}, !.copy[p] = Source(t)[p]] \in Thread
    BY <1>1, <2>1, CopyType
  <2>3. r \in Thread
    BY <2>2, FailedType
  <2>4. Placed(r)
    BY <1>1, <1>7, <2>3, FailedType DEF Thread, CopyCase, Is, At, Placed,
        Fetching, Comparing, Unpacking
  <2>5. Moves(t, r)
    BY <1>1, <1>7 DEF CopyCase, Step, Moves, TypeInv, TypeOK
  <2>6. th' \in [Threads -> Thread] /\ Places' /\ Kept(t)
    BY <2>1, <2>2, <2>3, <2>4, <2>5, MoveTypes
  <2> QED
    BY <1>7, <2>6, OnlyThreads DEF CopyCase
<1>8. CASE CasesCopied(t)
  <2> DEFINE r == [th[t] EXCEPT !.pc = "copied"]
  <2>1. r \in Thread
    BY <1>1, Numbers DEF Thread, Section
  <2>2. Placed(r)
    BY <1>1, <1>8 DEF CasesCopied, Is, At, Thread, Placed, Fetching, Comparing,
        Unpacking
  <2>3. Moves(t, r)
    BY <1>1, <1>8 DEF CasesCopied, Step, Moves, TypeInv, TypeOK
  <2>4. th' \in [Threads -> Thread] /\ Places' /\ Kept(t)
    BY <2>1, <2>2, <2>3, MoveTypes
  <2> QED
    BY <1>8, <2>4, OnlyThreads DEF CasesCopied
<1>9. CASE Handle(t)
  <2> DEFINE r == IF "checker" \in prob.assets
                    THEN [Ensure(th[t], "checker", "mkdir") EXCEPT !.stage = "handle"]
                    ELSE Resource(th[t])
  <2>1. r \in Thread /\ Placed(r)
    BY <1>1, HandleType
  <2>2. Moves(t, r)
    BY <1>1, <1>9 DEF Handle, Step, Moves, TypeInv, TypeOK
  <2>3. th' \in [Threads -> Thread] /\ Places' /\ Kept(t)
    BY <2>1, <2>2, MoveTypes
  <2> QED
    BY <1>9, <2>3, OnlyThreads DEF Handle
<1>10. CASE TakeChecker(t)
  <2> DEFINE r == [th[t] EXCEPT !.data = file["checker"], !.pc = "taken"]
  <2>1. file["checker"] \in 0..Torn
    BY DEF TypeInv, TypeOK, Assets
  <2>2. r \in Thread
    BY <1>1, <2>1, Numbers DEF Thread, Section
  <2>3. Placed(r)
    BY <1>1, <1>10, <2>1 DEF TakeChecker, Is, At, Thread, Placed, Fetching,
        Comparing, Unpacking
  <2>4. Moves(t, r)
    BY <1>1, <1>10 DEF TakeChecker, Step, Moves, TypeInv, TypeOK
  <2>5. th' \in [Threads -> Thread] /\ Places' /\ Kept(t)
    BY <2>2, <2>3, <2>4, MoveTypes
  <2> QED
    BY <1>10, <2>5, OnlyThreads DEF TakeChecker
<1>11. CASE PrepareResource(t)
  <2> DEFINE r == Resource(th[t])
  <2>1. r \in Thread /\ Placed(r)
    BY <1>1, HandleType
  <2>2. Moves(t, r)
    BY <1>1, <1>11 DEF PrepareResource, Step, Moves, TypeInv, TypeOK
  <2>3. th' \in [Threads -> Thread] /\ Places' /\ Kept(t)
    BY <2>1, <2>2, MoveTypes
  <2> QED
    BY <1>11, <2>3, OnlyThreads DEF PrepareResource
<1>12. CASE ListResource(t)
  <2> DEFINE r == [th[t] EXCEPT !.todo = Present("extracted"), !.pc = "copyres"]
  <2>1. Present("extracted") \in SUBSET (Caches \cup Parts)
    BY DEF Present
  <2>2. r \in Thread
    BY <1>1, <2>1, Numbers DEF Thread, Section
  <2>3. Placed(r)
    BY <1>1, <1>12, <2>1 DEF ListResource, Is, At, Thread, Placed, Fetching,
        Comparing, Unpacking
  <2>4. Moves(t, r)
    BY <1>1, <1>12 DEF ListResource, Step, Moves, TypeInv, TypeOK
  <2>5. th' \in [Threads -> Thread] /\ Places' /\ Kept(t)
    BY <2>2, <2>3, <2>4, MoveTypes
  <2> QED
    BY <1>12, <2>5, OnlyThreads DEF ListResource
<1>13. CASE CopyResource(t)
  <2> PICK p \in th[t].todo :
             IF dir["extracted"][p] = Absent THEN th' = [th EXCEPT ![t] = Failed]
             ELSE th' = [th EXCEPT ![t].todo = @ \ {p}, ![t].copy[p] = dir["extracted"][p]]
    BY <1>13 DEF CopyResource
  <2> DEFINE r == IF dir["extracted"][p] = Absent THEN Failed
                    ELSE [th[t] EXCEPT !.todo = @ \ {p}, !.copy[p] = dir["extracted"][p]]
  <2>1. p \in Parts => dir["extracted"][p] \in 0..Torn
    BY Numbers, Names DEF TypeInv, TypeOK
  <2>2. [th[t] EXCEPT !.todo = @ \ {p}, !.copy[p] = dir["extracted"][p]] \in Thread
    BY <1>1, <2>1, CopyType
  <2>3. r \in Thread
    BY <2>2, FailedType
  <2>4. Placed(r)
    BY <1>1, <1>13, <2>3, FailedType DEF Thread, CopyResource, Is, At, Placed,
        Fetching, Comparing, Unpacking
  <2>5. Moves(t, r)
    BY <1>1, <1>13 DEF CopyResource, Step, Moves, TypeInv, TypeOK
  <2>6. th' \in [Threads -> Thread] /\ Places' /\ Kept(t)
    BY <2>1, <2>2, <2>3, <2>4, <2>5, MoveTypes
  <2> QED
    BY <1>13, <2>6, OnlyThreads DEF CopyResource
<1>14. CASE ResourceCopied(t)
  <2> DEFINE r == [th[t] EXCEPT !.pc = "done"]
  <2>1. r \in Thread
    BY <1>1, Numbers DEF Thread, Section
  <2>2. Placed(r)
    BY <1>1, <1>14 DEF ResourceCopied, Is, At, Thread, Placed, Fetching,
        Comparing, Unpacking
  <2>3. Moves(t, r)
    BY <1>1, <1>14 DEF ResourceCopied, Step, Moves, TypeInv, TypeOK
  <2>4. th' \in [Threads -> Thread] /\ Places' /\ Kept(t)
    BY <2>1, <2>2, <2>3, MoveTypes
  <2> QED
    BY <1>14, <2>4, OnlyThreads DEF ResourceCopied
<1>15. CASE Answer(t)
  <2> DEFINE r == Asleep
  <2>1. r \in Thread /\ Placed(r)
    BY AsleepType
  <2>2. Moves(t, r)
    BY <1>1, <1>15 DEF Answer, Step, Moves, TypeInv, TypeOK
  <2>3. th' \in [Threads -> Thread] /\ Places' /\ Kept(t)
    BY <2>1, <2>2, MoveTypes
  <2> QED
    BY <1>15, <2>3, OnlyThreads DEF Answer
<1> QED
  BY <1>2, <1>3, <1>4, <1>5, <1>6, <1>7, <1>8, <1>9, <1>10, <1>11, <1>12, <1>13,
      <1>14, <1>15

(* The steps that prepare a custom trial keep the types.                     *)
LEMMA TrialTypes ==
  ASSUME TypeInv, NEW t \in Threads,
         \/ FindInputs(t) \/ DownloadCases(t) \/ CopyInput(t)
         \/ CompileAC(t) \/ WriteOutput(t) \/ OutputsWritten(t)
  PROVE  TypeInv' /\ Kept(t)
<1>1. th[t] \in Thread /\ Placed(th[t]) /\ At(t) \in Caches
  BY ThreadTypes
<1>2. CASE FindInputs(t)
  <2> DEFINE r == IF trial[t].in = {} THEN [th[t] EXCEPT !.pc = "tdown"]
                    ELSE Ensure(th[t], "accode", "acquire")
  <2>1. Ensure(th[t], "accode", "acquire") \in Thread
        /\ Placed(Ensure(th[t], "accode", "acquire"))
    BY <1>1, EnsureType DEF TypeInv, Caches, Archives
  <2>2. [th[t] EXCEPT !.pc = "tdown"] \in Thread /\ Placed([th[t] EXCEPT !.pc = "tdown"])
    BY <1>1, <1>2 DEF Thread, Section, FindInputs, Is, At, Placed, Fetching,
        Comparing, Unpacking
  <2>3. r \in Thread /\ Placed(r)
    BY <2>1, <2>2
  <2>4. Nothing \in [Parts -> 0..Torn]
    BY Numbers DEF Nothing, Absent
  <2>5. Moves(t, r)
    BY <1>1, <1>2 DEF FindInputs, Step, Moves, TypeInv, TypeOK
  <2>6. th' \in [Threads -> Thread] /\ Places' /\ Kept(t)
    BY <2>1, <2>2, <2>3, <2>4, <2>5, MoveTypes
  <2>7. trial' \in [Threads -> Trial]
    BY <1>2, TrialType DEF FindInputs
  <2> QED
    BY <1>2, <2>7, <2>6 DEF FindInputs, TypeInv, TypeOK, world, disk, Trial
<1>3. CASE DownloadCases(t)
  <2> DEFINE r == IF th' = [th EXCEPT ![t] = Failed] THEN Failed
                    ELSE [th[t] EXCEPT !.pc = "tcopy", !.todo = Parts]
  <2>1. [th[t] EXCEPT !.pc = "tcopy", !.todo = Parts] \in Thread
        /\ Placed([th[t] EXCEPT !.pc = "tcopy", !.todo = Parts])
    BY <1>1, <1>3 DEF Thread, DownloadCases, Is, At, Placed, Fetching,
        Comparing, Unpacking
  <2>2. r \in Thread /\ Placed(r)
    BY <2>1, FailedType
  <2>3. Moves(t, r)
    BY <1>1, <1>3 DEF DownloadCases, Step, Moves, TypeInv, TypeOK
  <2>4. th' \in [Threads -> Thread] /\ Places' /\ Kept(t)
    BY <2>1, <2>2, <2>3, MoveTypes
  <2> QED
    BY <1>3, <2>4, OnlyThreads DEF DownloadCases
<1>4. CASE CopyInput(t)
  <2> PICK p \in th[t].todo :
             /\ trial' = [trial EXCEPT ![t].in = @ \cup {p}]
             /\ th' = IF th[t].todo = {p} THEN [th EXCEPT ![t] = Ensure(@, "accode", "acquire")]
                     ELSE [th EXCEPT ![t].todo = @ \ {p}]
    BY <1>4 DEF CopyInput
  <2> DEFINE r == IF th[t].todo = {p} THEN Ensure(th[t], "accode", "acquire")
                    ELSE [th[t] EXCEPT !.todo = @ \ {p}]
  <2>1. Ensure(th[t], "accode", "acquire") \in Thread
        /\ Placed(Ensure(th[t], "accode", "acquire"))
    BY <1>1, EnsureType DEF TypeInv, Caches, Archives
  <2>2. [th[t] EXCEPT !.todo = @ \ {p}] \in Thread /\ Placed([th[t] EXCEPT !.todo = @ \ {p}])
    BY <1>1, <1>4 DEF Thread, CopyInput, Is, At, Placed, Fetching, Comparing,
        Unpacking
  <2>3. r \in Thread /\ Placed(r)
    BY <2>1, <2>2
  <2>4. p \in Parts
    BY <1>1, <1>4 DEF CopyInput, Is, At, Placed, Fetching, Comparing, Unpacking
  <2>5. Moves(t, r)
    BY <1>1, <1>4 DEF CopyInput, Step, Moves, TypeInv, TypeOK
  <2>6. th' \in [Threads -> Thread] /\ Places' /\ Kept(t)
    BY <2>1, <2>2, <2>3, <2>4, <2>5, MoveTypes
  <2>7. trial' \in [Threads -> Trial]
    BY <1>4, <2>4, TrialType DEF CopyInput
  <2> QED
    BY <1>4, <2>7, <2>6 DEF CopyInput, TypeInv, TypeOK, world, disk, Trial
<1>5. CASE CompileAC(t)
  <2> DEFINE r == IF th' = [th EXCEPT ![t] = Failed] THEN Failed
                    ELSE [th[t] EXCEPT !.pc = "outputs", !.todo = trial[t].in]
  <2>1. trial[t].in \in SUBSET Parts
    BY DEF TypeInv, TypeOK
  <2>2. [th[t] EXCEPT !.pc = "outputs", !.todo = trial[t].in] \in Thread
        /\ Placed([th[t] EXCEPT !.pc = "outputs", !.todo = trial[t].in])
    BY <1>1, <1>5, <2>1 DEF Thread, CompileAC, Is, At, Placed, Fetching,
        Comparing, Unpacking
  <2>3. r \in Thread /\ Placed(r)
    BY <2>2, FailedType
  <2>4. Moves(t, r)
    BY <1>1, <1>5 DEF CompileAC, Step, Moves, TypeInv, TypeOK
  <2>5. th' \in [Threads -> Thread] /\ Places' /\ Kept(t)
    BY <2>1, <2>2, <2>3, <2>4, MoveTypes
  <2> QED
    BY <1>5, <2>5, OnlyThreads DEF CompileAC
<1>6. CASE WriteOutput(t)
  <2> PICK p \in th[t].todo, v \in Versions \cup {Torn} :
             /\ IF v = Torn /\ WholeAC THEN Fault ELSE UNCHANGED faults
             /\ trial' = [trial EXCEPT ![t].out[p] = IF @ = Absent THEN v ELSE @]
             /\ th' = [th EXCEPT ![t].todo = @ \ {p}]
    BY <1>6 DEF WriteOutput
  <2> DEFINE r == [th[t] EXCEPT !.todo = @ \ {p}]
  <2>1. v \in 0..Torn
    BY Numbers
  <2>2. r \in Thread
    BY <1>1, <2>1, Numbers DEF Thread, Section
  <2>3. Placed(r)
    BY <1>1, <1>6, <2>1 DEF WriteOutput, Is, At, Thread, Placed, Fetching,
        Comparing, Unpacking
  <2>4. Moves(t, r)
    BY <1>1, <1>6 DEF WriteOutput, Step, Moves, TypeInv, TypeOK
  <2>5. th' \in [Threads -> Thread] /\ Places' /\ Kept(t)
    BY <2>2, <2>3, <2>4, MoveTypes
  <2>6. trial' \in [Threads -> Trial]
    BY <2>1, TrialType
  <2>7. faults' \in 0..prob.faults
    BY <1>1, <1>6, <2>1, Numbers, Names, CacheAssumption DEF Fault, Problem,
        WriteOutput, TypeInv, TypeOK, Is, At
  <2> QED
    BY <1>6, <2>6, <2>7, <2>5 DEF WriteOutput, TypeInv, TypeOK, world, disk,
        Trial
<1>7. CASE OutputsWritten(t)
  <2> DEFINE r == IF "checker" \in prob.assets THEN Ensure(th[t], "checker", "mkdir")
                    ELSE [th[t] EXCEPT !.pc = "meta", !.stage = "data"]
  <2>1. Ensure(th[t], "checker", "mkdir") \in Thread
        /\ Placed(Ensure(th[t], "checker", "mkdir"))
    BY <1>1, EnsureType DEF TypeInv, Caches, Assets
  <2>2. [th[t] EXCEPT !.pc = "meta", !.stage = "data"] \in Thread
        /\ Placed([th[t] EXCEPT !.pc = "meta", !.stage = "data"])
    BY <1>1, <1>7 DEF Thread, OutputsWritten, Is, At, Placed, Fetching,
        Comparing, Unpacking
  <2>3. r \in Thread /\ Placed(r)
    BY <2>1, <2>2
  <2>4. Moves(t, r)
    BY <1>1, <1>7 DEF OutputsWritten, Step, Moves, TypeInv, TypeOK
  <2>5. th' \in [Threads -> Thread] /\ Places' /\ Kept(t)
    BY <2>1, <2>2, <2>3, <2>4, MoveTypes
  <2> QED
    BY <1>7, <2>5, OnlyThreads DEF OutputsWritten
<1> QED
  BY <1>2, <1>3, <1>4, <1>5, <1>6, <1>7

-----------------------------------------------------------------------------
(* Keys and locks that expire, updates and crashes keep the types.          *)
LEMMA ExpiryTypes ==
  ASSUME TypeInv, NEW c \in Caches,
         (c \in Archives /\ ExpireKey(c)) \/ ExpireLost(c) \/ ExpireHeld(c)
  PROVE  TypeInv'
<1>1. CASE c \in Archives /\ ExpireKey(c)
  BY <1>1, Numbers DEF ExpireKey, TypeInv, TypeOK, Places, world, disk
<1>2. CASE ExpireLost(c)
  BY <1>2 DEF ExpireLost, TypeInv, TypeOK, Places, world, disk
<1>3. CASE ExpireHeld(c)
  <2> DEFINE t == locks[c]
  <2> DEFINE r == [th[t] EXCEPT !.late = TRUE]
  <2>1. t \in Threads
    BY <1>3 DEF ExpireHeld
  <2>2. th[t] \in Thread /\ Placed(th[t])
    BY <2>1, ThreadTypes
  <2>3. r \in Thread /\ Placed(r)
    BY <2>2 DEF Thread, Placed
  <2>4. th' = [th EXCEPT ![t] = r]
    BY <1>3 DEF ExpireHeld
  <2>5. Moves(t, r)
    BY <2>4 DEF Moves
  <2>6. th' \in [Threads -> Thread] /\ Places'
    BY <2>1, <2>3, <2>5, MoveTypes
  <2>7. locks' \in [Caches -> Threads \cup {Nobody, Lost}]
    BY <1>3 DEF ExpireHeld, TypeInv, TypeOK
  <2>8. overrun' \subseteq Caches
    BY <1>3 DEF ExpireHeld, TypeInv, TypeOK
  <2>9. faults' \in 0..prob.faults
    BY <1>3, CacheAssumption DEF ExpireHeld, Fault, Problem, TypeInv, TypeOK
  <2> QED
    BY <1>3, <2>6, <2>7, <2>8, <2>9 DEF ExpireHeld, TypeInv, TypeOK, world, disk
<1> QED
  BY <1>1, <1>2, <1>3

(* The backend gets a new version of an item.                               *)
LEMMA UpdateTypes ==
  ASSUME TypeInv, NEW i \in Items, Update(i)
  PROVE  TypeInv'
<1>1. backend[i] + 1 \in Versions
  BY CacheAssumption DEF Update, TypeInv, TypeOK, Versions
<1>2. backend' \in [Items -> Versions]
  BY <1>1 DEF Update, TypeInv, TypeOK
<1> QED
  BY <1>2 DEF Update, TypeInv, TypeOK, Places, disk

(* The container is restarted.                                              *)
LEMMA CrashTypes ==
  ASSUME TypeInv, Crash
  PROVE  TypeInv'
<1>1. th' \in [Threads -> Thread] /\ Places'
  BY AsleepType DEF Crash, Places
<1>2. locks' \in [Caches -> Threads \cup {Nobody, Lost}]
  BY DEF Crash, TypeInv, TypeOK
<1>3. faults' \in 0..prob.faults
  BY CacheAssumption DEF Crash, Fault, Problem, TypeInv, TypeOK
<1> QED
  BY <1>1, <1>2, <1>3 DEF Crash, TypeInv, TypeOK, world, disk

(* The directory of a trial submission is removed.                          *)
LEMMA EndTrialTypes ==
  ASSUME TypeInv, NEW t \in Threads, EndTrial(t)
  PROVE  TypeInv'
<1>1. [in |-> {}, out |-> Nothing] \in Trial
  BY Numbers DEF Trial, Nothing, Absent
<1>2. trial' \in [Threads -> Trial]
  BY <1>1 DEF EndTrial, TypeInv, TypeOK, Trial
<1> QED
  BY <1>2 DEF EndTrial, TypeInv, TypeOK, Places, world, Trial

(* The type invariant holds at the start.                                   *)
LEMMA InitTypes ==
  ASSUME Init
  PROVE  TypeInv
<1>1. th \in [Threads -> Thread] /\ Places
  BY AsleepType DEF Init, Places
<1>2. dir \in [Archives -> [Parts -> 0..MaxVersion]]
  BY Numbers DEF Init, Nothing, Absent
<1>3. [in |-> {}, out |-> Nothing] \in Trial
  BY Numbers DEF Trial, Nothing, Absent
<1>4. trial \in [Threads -> Trial]
  BY <1>3 DEF Init
<1>5. served \in 0..prob.requests /\ faults \in 0..prob.faults
  BY CacheAssumption DEF Init, Problem
<1> QED
  BY <1>1, <1>2, <1>4, <1>5, Numbers DEF Init, TypeInv, TypeOK, Absent, Trial

(* Every step preserves the type invariant.                                 *)
LEMMA NextTypes == TypeInv /\ [Next]_cvars => TypeInv'
<1> SUFFICES ASSUME TypeInv, [Next]_cvars
             PROVE  TypeInv'
  OBVIOUS
<1>1. CASE UNCHANGED cvars
  BY <1>1 DEF cvars, world, disk, TypeInv, TypeOK, Places
<1>2. CASE Environment
  BY <1>2, RequestTypes, EndTrialTypes, ExpiryTypes, UpdateTypes, CrashTypes,
      Names DEF Environment
<1>3. ASSUME NEW t \in Threads, Refresh(t) PROVE TypeInv'
  BY <1>3, ArchiveTypes, AssetTypes, RequestTypes DEF Refresh
<1>4. ASSUME NEW t \in Threads, Use(t) PROVE TypeInv'
  BY <1>4, RequestTypes, TrialTypes DEF Use
<1> QED
  BY <1>1, <1>2, <1>3, <1>4 DEF Next, Idle, ThreadStep

(* Every state is well typed: a thread is only in a step of the cache it    *)
(* ensures, and what it is about to extract or write is a version of the    *)
(* backend.                                                                 *)
THEOREM IntakeTyping == Spec => [](TypeOK /\ Places)
<1>1. Init => TypeInv
  BY InitTypes
<1>2. TypeInv /\ [Next]_cvars => TypeInv'
  BY NextTypes
<1>3. TypeInv => TypeOK /\ Places
  BY DEF TypeInv
<1> QED
  BY <1>1, <1>2, <1>3, PTL DEF Spec

-----------------------------------------------------------------------------
(* The locks: who holds one, and what becomes of a request whose lock ran   *)
(* out.                                                                     *)

(* A thread holds the lock of the cache it works on, and no other; when the *)
(* lock ran out under it, it does not hold it again before it ensures       *)
(* another cache.                                                           *)
Owned ==
  \A c \in Caches : \A t \in Threads :
    locks[c] = t => At(t) = c /\ th[t].pc \in Section /\ ~th[t].late

(* Without such an expiry only the owner of a lock is in its section.       *)
Mutex ==
  \A t \in Threads :
    th[t].pc \in Section /\ At(t) \notin overrun => locks[At(t)] = t

(* What a thread that lost a lock can still be doing.                       *)
Overtaken(r) ==
  r.late => /\ r.pc \notin {"mkdir", "acquire", "take"}
            /\ \/ r.pc \in Section \cup {"failed"}
               \/ r.at = "checker" /\ (r.pc = "taken" => r.data = Absent)

LockInv == Owned /\ Mutex /\ \A t \in Threads : Overtaken(th[t])

-----------------------------------------------------------------------------
(* What the invariant says of a thread is left alone by the steps of others.*)
LEMMA OthersKeep ==
  ASSUME TypeInv, NEW t \in Threads, Kept(t), NEW u \in Threads \ {t}
  PROVE  /\ th'[u].pc = th[u].pc /\ th'[u].at = th[u].at
         /\ th'[u].late = th[u].late /\ th'[u].data = th[u].data
BY ZenonT(30), ThreadTypes DEF Kept, Thread

(* A step inside a section, and one outside of any.                         *)
LEMMA InsideStep ==
  ASSUME TypeInv, LockInv, NEW t \in Threads, Kept(t), UNCHANGED <<locks, overrun>>,
         th[t].pc \in Section, th'[t].pc \in Section,
         th'[t].at = th[t].at, th'[t].late = th[t].late
  PROVE  LockInv'
<1>1. \A u \in Threads : /\ th'[u].at = th[u].at /\ th'[u].late = th[u].late
                         /\ th'[u].pc \in Section <=> th[u].pc \in Section
  BY OthersKeep
<1>2. Owned' /\ Mutex'
  BY <1>1 DEF LockInv, Owned, Mutex, At
<1>3. ASSUME NEW u \in Threads PROVE Overtaken(th[u])'
  <2>1. CASE u = t
    BY <2>1 DEF LockInv, Overtaken, Section
  <2>2. CASE u # t
    BY <2>2, OthersKeep DEF LockInv, Overtaken
  <2> QED
    BY <2>1, <2>2
<1> QED
  BY <1>2, <1>3 DEF LockInv

(* A step outside the with-blocks that touches no lock.                     *)
LEMMA OutsideStep ==
  ASSUME TypeInv, LockInv, NEW t \in Threads, Kept(t), UNCHANGED <<locks, overrun>>,
         th[t].pc \notin Section, th'[t].pc \notin Section, Overtaken(th'[t])
  PROVE  LockInv'
<1>1. \A u \in Threads \ {t} : /\ th'[u].at = th[u].at /\ th'[u].late = th[u].late
                               /\ th'[u].pc = th[u].pc
  BY OthersKeep
<1>2. Owned'
  BY <1>1 DEF LockInv, Owned, At
<1>3. Mutex'
  BY <1>1 DEF LockInv, Mutex, At
<1>4. ASSUME NEW u \in Threads PROVE Overtaken(th[u])'
  BY OthersKeep DEF LockInv, Overtaken
<1> QED
  BY <1>2, <1>3, <1>4 DEF LockInv

(* The record of a thread after a step that writes into the caches of C.    *)
LEMMA TouchedRecord ==
  ASSUME TypeInv, NEW t \in Threads, NEW C, NEW r,
         th' = [Touch(t, C) EXCEPT ![t] = r]
  PROVE  th'[t] = r
BY TouchType

(* The steps on an archive stay inside the section.                          *)
LEMMA ArchiveSection ==
  ASSUME TypeInv, NEW t \in Threads,
         \/ GetKey(t) \/ Compare(t) \/ CannotCompare(t) \/ Fetch(t)
         \/ ClearPart(t) \/ ClearExtracted(t) \/ ClearFolder(t)
         \/ ClearRaises(t) \/ ExtractPart(t) \/ FetchMeta(t) \/ Store(t)
         \/ Raise(t)
  PROVE  /\ UNCHANGED <<locks, overrun>> /\ th[t].pc \in Section /\ th'[t].pc \in Section
         /\ th'[t].at = th[t].at /\ th'[t].late = th[t].late
         /\ th'[t].kind = th[t].kind /\ th'[t].stage = th[t].stage
         /\ th'[t].since = th[t].since
<1>1. th \in [Threads -> Thread] /\ th[t] \in Thread
  BY DEF TypeInv, TypeOK
<1>2. \A C : Touch(t, C) \in [Threads -> Thread] /\ Touch(t, C)[t] = th[t]
  BY TouchType
<1>3. CASE GetKey(t)
  BY <1>1, <1>2, <1>3 DEF GetKey, Is, Step, Section, Thread
<1>4. CASE Compare(t)
  BY <1>1, <1>2, <1>4 DEF Compare, Is, Step, Section, Thread
<1>5. CASE CannotCompare(t)
  BY <1>1, <1>2, <1>5 DEF CannotCompare, Is, Step, Section, Thread
<1>6. CASE Fetch(t)
  BY <1>1, <1>2, <1>6 DEF Fetch, Is, Step, Section, Thread, Cleared
<1>7. CASE ClearPart(t)
  <2>1. PICK p : th' = [Touch(t, {At(t)}) EXCEPT ![t] = Cleared(@, @.todo \ {p})]
    BY <1>7 DEF ClearPart
  <2>2. th'[t] = Cleared(th[t], th[t].todo \ {p})
    BY <2>1, TouchType
  <2> QED
    BY <1>1, <1>7, <2>2 DEF ClearPart, Is, Section, Thread, Cleared
<1>8. CASE ClearExtracted(t)
  BY <1>1, <1>2, <1>8 DEF ClearExtracted, Is, Step, Section, Thread
<1>9. CASE ClearFolder(t)
  <2>1. PICK a : th' = [Touch(t, {a, IF a = "resource" THEN "extracted" ELSE a})
                           EXCEPT ![t] = Cleared(@, @.todo \ {a})]
    BY <1>9 DEF ClearFolder
  <2>2. th'[t] = Cleared(th[t], th[t].todo \ {a})
    BY <2>1, TouchType
  <2> QED
    BY <1>1, <1>9, <2>2 DEF ClearFolder, Is, Section, Thread, Cleared
<1>10. CASE ClearRaises(t)
  BY <1>1, <1>2, <1>10 DEF ClearRaises, Is, Step, Section, Thread
<1>11. CASE ExtractPart(t)
  <2> DEFINE T == Touch(t, {At(t)})
  <2>1. PICK p : th' = [T EXCEPT
                   ![t].todo = @ \ {p}, ![t].key = <<th[t].data, th[t].data>>,
                   ![t].pc = IF th[t].todo # {p} THEN "extract"
                             ELSE IF At(t) = "testdata" THEN "fmeta" ELSE "store"]
    BY <1>11 DEF ExtractPart
  <2>2. T \in [Threads -> Thread] /\ T[t] = th[t]
    BY TouchType
  <2> QED
    BY ZenonT(30), <1>1, <1>11, <2>1, <2>2 DEF ExtractPart, Is, Section, Thread
<1>12. CASE FetchMeta(t)
  BY <1>1, <1>2, <1>12 DEF FetchMeta, Is, Step, Section, Thread
<1>13. CASE Store(t)
  BY <1>1, <1>2, <1>13 DEF Store, Is, Step, Section, Thread
<1>14. CASE Raise(t)
  BY <1>1, <1>2, <1>14 DEF Raise, Is, Step, Section, Thread
<1> QED
  BY <1>3, <1>4, <1>5, <1>6, <1>7, <1>8, <1>9, <1>10, <1>11, <1>12,
     <1>13, <1>14

(* The steps on an asset stay inside the section.                            *)
LEMMA AssetSection ==
  ASSUME TypeInv, NEW t \in Threads,
         \/ CompareFile(t) \/ NotConfigured(t) \/ Download(t)
         \/ OpenFile(t) \/ FillFile(t) \/ SumZip(t) \/ RemoveExtracted(t)
         \/ OpenZip(t) \/ UnzipPart(t) \/ UnzipFails(t)
         \/ StoreExtracted(t)
  PROVE  /\ UNCHANGED <<locks, overrun>> /\ th[t].pc \in Section /\ th'[t].pc \in Section
         /\ th'[t].at = th[t].at /\ th'[t].late = th[t].late
         /\ th'[t].kind = th[t].kind /\ th'[t].stage = th[t].stage
         /\ th'[t].since = th[t].since
<1>1. th \in [Threads -> Thread] /\ th[t] \in Thread
  BY DEF TypeInv, TypeOK
<1>2. \A C : Touch(t, C) \in [Threads -> Thread] /\ Touch(t, C)[t] = th[t]
  BY TouchType
<1>3. CASE CompareFile(t)
  BY <1>1, <1>2, <1>3 DEF CompareFile, Is, Step, Section, Thread
<1>4. CASE NotConfigured(t)
  BY <1>1, <1>2, <1>4 DEF NotConfigured, Is, Step, Section, Thread
<1>5. CASE Download(t)
  BY <1>1, <1>2, <1>5 DEF Download, Is, Step, Section, Thread
<1>6. CASE OpenFile(t)
  BY <1>1, <1>2, <1>6 DEF OpenFile, Is, Step, Section, Thread
<1>7. CASE FillFile(t)
  BY <1>1, <1>2, <1>7 DEF FillFile, Is, Step, Section, Thread
<1>8. CASE SumZip(t)
  BY <1>1, <1>2, <1>8 DEF SumZip, Is, Step, Section, Thread
<1>9. CASE RemoveExtracted(t)
  <2> DEFINE T == Touch(t, {"extracted"})
  <2>1. PICK p : \/ Step(t, "unwind")
                 \/ th' = [T EXCEPT ![t].todo = @ \ {p}]
    BY <1>9 DEF RemoveExtracted
  <2>2. T \in [Threads -> Thread] /\ T[t] = th[t]
    BY TouchType
  <2> QED
    BY <1>1, <1>9, <2>1, <2>2 DEF RemoveExtracted, Is, Step, Section, Thread
<1>10. CASE OpenZip(t)
  BY <1>1, <1>2, <1>10 DEF OpenZip, Is, Step, Section, Thread
<1>11. CASE UnzipPart(t)
  BY <1>1, <1>2, <1>11 DEF UnzipPart, Is, Step, Section, Thread
<1>12. CASE UnzipFails(t)
  BY <1>1, <1>2, <1>12 DEF UnzipFails, Is, Step, Section, Thread
<1>13. CASE StoreExtracted(t)
  BY <1>1, <1>2, <1>13 DEF StoreExtracted, Is, Step, Section, Thread
<1> QED
  BY <1>3, <1>4, <1>5, <1>6, <1>7, <1>8, <1>9, <1>10, <1>11, <1>12,
     <1>13

-----------------------------------------------------------------------------
(* Taking a free lock makes the thread its only holder.                     *)
LEMMA AcquireLocks ==
  ASSUME TypeInv, LockInv, NEW t \in Threads, Acquire(t), Kept(t)
  PROVE  LockInv'
<1>1. th[t] \in Thread /\ At(t) \in Caches /\ th[t].pc \notin Section
  BY ThreadTypes DEF Acquire, Is, Section
<1>2. /\ th'[t].at = th[t].at /\ th'[t].late = th[t].late
      /\ th'[t].pc \in Section
  BY <1>1 DEF Acquire, Step, TypeInv, TypeOK, Thread, Section
<1>3. ~th[t].late
  BY DEF Acquire, Is, LockInv, Overtaken
<1>4. locks'[At(t)] = t /\ \A c \in Caches \ {At(t)} : locks'[c] = locks[c]
  BY <1>1 DEF Acquire, TypeInv, TypeOK
<1>5. \A u \in Threads \ {t} : /\ th'[u].pc = th[u].pc /\ th'[u].at = th[u].at
                               /\ th'[u].late = th[u].late
  BY OthersKeep
<1>6. Owned'
  <2> SUFFICES ASSUME NEW c \in Caches, NEW u \in Threads, locks'[c] = u
               PROVE  (At(u) = c /\ th[u].pc \in Section /\ ~th[u].late)'
    BY DEF Owned
  <2>1. CASE c = At(t)
    BY <1>2, <1>3, <1>4, <2>1 DEF At
  <2>2. CASE c # At(t)
    BY <1>1, <1>4, <1>5, <2>2 DEF LockInv, Owned, At
  <2> QED
    BY <2>1, <2>2
<1>7. Mutex'
  <2> SUFFICES ASSUME NEW u \in Threads, (th[u].pc \in Section /\ At(u) \notin overrun)'
               PROVE  (locks[At(u)] = u)'
    BY DEF Mutex
  <2>1. CASE u = t
    BY <1>2, <1>4, <2>1 DEF At
  <2>2. CASE u # t
    <3>1. locks[At(u)] = u /\ At(u) \in Caches /\ At(u)' = At(u)
      BY <1>5, <2>2, ThreadTypes DEF LockInv, Mutex, At, Acquire
    <3>2. At(u) # At(t)
      BY <3>1, CacheAssumption DEF Acquire
    <3> QED
      BY <1>4, <3>1, <3>2
  <2> QED
    BY <2>1, <2>2
<1>8. ASSUME NEW u \in Threads PROVE Overtaken(th[u])'
  <2>1. CASE u = t
    BY <1>2, <1>3, <2>1 DEF Overtaken
  <2>2. CASE u # t
    BY <2>2, OthersKeep DEF LockInv, Overtaken
  <2> QED
    BY <2>1, <2>2
<1> QED
  BY <1>6, <1>7, <1>8 DEF LockInv

(* A thread that begins with another cache has not been overtaken there.    *)
LEMMA EnsureFresh ==
  ASSUME NEW r \in Thread, NEW c, NEW pc
  PROVE  Ensure(r, c, pc).pc = pc /\ ~Ensure(r, c, pc).late
BY DEF Ensure, Thread

(* The other steps of a thread stay outside the sections.                   *)
LEMMA UseOutside ==
  ASSUME TypeInv, LockInv, NEW t \in Threads,
         \/ MakeFolder(t) \/ Submit(t) \/ GetMeta(t) \/ NoMeta(t)
         \/ ListCases(t) \/ CopyCase(t) \/ CasesCopied(t) \/ FindInputs(t)
         \/ DownloadCases(t) \/ CopyInput(t) \/ CompileAC(t)
         \/ WriteOutput(t) \/ OutputsWritten(t) \/ Handle(t)
         \/ TakeChecker(t) \/ PrepareResource(t) \/ ListResource(t)
         \/ CopyResource(t) \/ ResourceCopied(t) \/ Answer(t)
  PROVE  /\ UNCHANGED <<locks, overrun>> /\ th[t].pc \notin Section
         /\ th'[t].pc \notin Section /\ Overtaken(th'[t])
<1>1. th \in [Threads -> Thread] /\ th[t] \in Thread /\ Overtaken(th[t])
  BY DEF TypeInv, TypeOK, LockInv
<1>2. \A c, pc : Ensure(th[t], c, pc).pc = pc /\ ~Ensure(th[t], c, pc).late
  BY <1>1, EnsureFresh
<1>3. CASE MakeFolder(t)
  BY <1>1, <1>2, <1>3 DEF MakeFolder, Is, Step, Section, Thread, Overtaken
<1>4. CASE Submit(t)
  <2>1. PICK k \in prob.kinds : th' = [th EXCEPT ![t] = Begin(t, k)]
    BY <1>4 DEF Submit
  <2> DEFINE r == [Asleep EXCEPT !.kind = k]
  <2>2. k \in {"normal", "public", "custom"}
    BY CacheAssumption DEF TypeInv, TypeOK, Problem
  <2>3. r \in Thread /\ ~r.late
    BY <2>2, AsleepType DEF Thread, Asleep
  <2>4. \A c : Ensure(r, c, "acquire").pc = "acquire" /\ ~Ensure(r, c, "acquire").late
    BY <2>3, EnsureFresh
  <2>5. Begin(t, k).pc \in {"acquire", "meta"} /\ ~Begin(t, k).late
    BY <2>2, <2>3, <2>4 DEF Begin, Thread
  <2> QED
    BY <1>1, <1>4, <2>1, <2>5 DEF Submit, Is, Section, Overtaken
<1>5. CASE GetMeta(t)
  BY <1>1, <1>2, <1>5 DEF GetMeta, Is, Step, Section, Thread, Overtaken
<1>6. CASE NoMeta(t)
  BY <1>1, <1>2, <1>6 DEF NoMeta, Is, Step, Section, Thread, Overtaken,
     Failed, Asleep
<1>7. CASE ListCases(t)
  BY <1>1, <1>2, <1>7 DEF ListCases, Is, Step, Section, Thread, Overtaken
<1>8. CASE CopyCase(t)
  BY <1>1, <1>2, <1>8 DEF CopyCase, Is, Step, Section, Thread, Overtaken,
     Failed, Asleep
<1>9. CASE CasesCopied(t)
  BY <1>1, <1>2, <1>9 DEF CasesCopied, Is, Step, Section, Thread, Overtaken
<1>10. CASE FindInputs(t)
  BY <1>1, <1>2, <1>10 DEF FindInputs, Is, Step, Section, Thread, Overtaken
<1>11. CASE DownloadCases(t)
  BY <1>1, <1>2, <1>11 DEF DownloadCases, Is, Step, Section, Thread,
     Overtaken, Failed, Asleep
<1>12. CASE CopyInput(t)
  BY <1>1, <1>2, <1>12 DEF CopyInput, Is, Step, Section, Thread, Overtaken
<1>13. CASE CompileAC(t)
  BY <1>1, <1>2, <1>13 DEF CompileAC, Is, Step, Section, Thread, Overtaken,
     Failed, Asleep
<1>14. CASE WriteOutput(t)
  BY <1>1, <1>2, <1>14 DEF WriteOutput, Is, Step, Section, Thread, Overtaken
<1>15. CASE OutputsWritten(t)
  BY <1>1, <1>2, <1>15 DEF OutputsWritten, Is, Step, Section, Thread,
     Overtaken
<1>16. CASE Handle(t)
  BY <1>1, <1>2, <1>16 DEF Handle, Is, Step, Section, Thread, Overtaken,
     Resource
<1>17. CASE TakeChecker(t)
  BY <1>1, <1>2, <1>17 DEF TakeChecker, Is, Step, Section, Thread, Overtaken
<1>18. CASE PrepareResource(t)
  BY <1>1, <1>2, <1>18 DEF PrepareResource, Is, Step, Section, Thread,
     Overtaken, Resource
<1>19. CASE ListResource(t)
  BY <1>1, <1>2, <1>19 DEF ListResource, Is, Step, Section, Thread, Overtaken
<1>20. CASE CopyResource(t)
  BY <1>1, <1>2, <1>20 DEF CopyResource, Is, Step, Section, Thread, Overtaken,
     Failed, Asleep
<1>21. CASE ResourceCopied(t)
  BY <1>1, <1>2, <1>21 DEF ResourceCopied, Is, Step, Section, Thread,
     Overtaken
<1>22. CASE Answer(t)
  BY <1>1, <1>2, <1>22 DEF Answer, Is, Step, Section, Thread, Overtaken,
     Asleep
<1> QED
  BY <1>3, <1>4, <1>5, <1>6, <1>7, <1>8, <1>9, <1>10, <1>11, <1>12, <1>13,
     <1>14, <1>15, <1>16, <1>17, <1>18, <1>19, <1>20, <1>21, <1>22

(* Whoever leaves a section gives its lock back, unless it was lost: then   *)
(* releasing it raises.                                                     *)
LEMMA AfterLeft ==
  ASSUME TypeInv, NEW r \in Thread, NEW out \in {"ok", "none", "raise"},
         r.late => out = "raise"
  PROVE  After(r, out).pc \notin Section /\ Overtaken(After(r, out))
<1>1. CASE r.at \in {"testdata", "public", "accode"}
  <2>1. \/ After(r, out) \in {[r EXCEPT !.pc = "meta"], [r EXCEPT !.pc = "compile"]}
           /\ out = "ok"
        \/ After(r, out) = Failed
    BY <1>1 DEF After
  <2> QED
    BY <2>1 DEF Thread, Overtaken, Section, Failed, Asleep
<1>2. CASE r.at = "checker"
  <2>1. \/ After(r, out) = [r EXCEPT !.pc = "meta", !.stage = "data"]
        \/ After(r, out) = [r EXCEPT !.pc = "take", !.data = Absent] /\ out = "ok"
        \/ After(r, out) = [r EXCEPT !.pc = "taken", !.data = Absent]
    BY <1>2 DEF After
  <2> QED
    BY ZenonT(30), <1>2, <2>1 DEF Thread, Overtaken, Section
<1>3. CASE r.at = "resource"
  <2>1. Ensure(r, "extracted", "acquire").pc = "acquire"
        /\ ~Ensure(r, "extracted", "acquire").late
    BY EnsureFresh
  <2> QED
    BY <1>3, <2>1 DEF After, Thread, Overtaken, Section, Failed, Asleep
<1>4. CASE r.at = "extracted"
  BY <1>4 DEF After, Thread, Overtaken, Section, Failed, Asleep
<1> QED
  BY <1>1, <1>2, <1>3, <1>4 DEF Thread, Caches, Archives, Assets

(* Leaving a with-block gives up the thread's own lock and nobody else's.   *)
LEMMA LeaveLocks ==
  ASSUME TypeInv, LockInv, NEW t \in Threads, Leave(t), Kept(t)
  PROVE  LockInv'
<1>1. th \in [Threads -> Thread] /\ th[t] \in Thread /\ At(t) \in Caches
  BY ThreadTypes DEF TypeInv, TypeOK
<1>2. Outcome(t) \in {"ok", "none", "raise"} /\ (th[t].late => Outcome(t) = "raise")
  BY <1>1 DEF Outcome, LockInv, Owned
<1>3. th'[t] = After(th[t], Outcome(t))
  BY <1>1 DEF Leave
<1>4. th'[t].pc \notin Section /\ Overtaken(th'[t])
  BY <1>1, <1>2, <1>3, AfterLeft
<1>5. \A u \in Threads \ {t} : /\ th'[u].pc = th[u].pc /\ th'[u].at = th[u].at
                               /\ th'[u].late = th[u].late
  BY OthersKeep
<1>6. \A c \in Caches : locks'[c] = IF c = At(t) /\ locks[c] = t THEN Nobody ELSE locks[c]
  BY <1>1 DEF Leave, TypeInv, TypeOK
<1>7. Owned'
  <2> SUFFICES ASSUME NEW c \in Caches, NEW u \in Threads, locks'[c] = u
               PROVE  (At(u) = c /\ th[u].pc \in Section /\ ~th[u].late)'
    BY DEF Owned
  <2>1. locks[c] = u /\ At(u) = c /\ th[u].pc \in Section /\ ~th[u].late
    BY <1>6, CacheAssumption DEF LockInv, Owned
  <2>2. u # t
    BY <1>6, <2>1, CacheAssumption
  <2> QED
    BY <1>5, <2>1, <2>2 DEF At
<1>8. Mutex'
  <2> SUFFICES ASSUME NEW u \in Threads, (th[u].pc \in Section /\ At(u) \notin overrun)'
               PROVE  (locks[At(u)] = u)'
    BY DEF Mutex
  <2>1. u # t
    BY <1>4
  <2>2. locks[At(u)] = u /\ At(u) \in Caches /\ At(u)' = At(u)
    BY <1>5, <2>1, ThreadTypes DEF LockInv, Mutex, At, Leave
  <2> QED
    BY <1>6, <2>1, <2>2
<1>9. ASSUME NEW u \in Threads PROVE Overtaken(th[u])'
  BY <1>4, OthersKeep DEF LockInv, Overtaken
<1> QED
  BY <1>7, <1>8, <1>9 DEF LockInv

-----------------------------------------------------------------------------
(* Expiries: of a checksum, of a lock nobody uses, of a lock in use.        *)
LEMMA ExpiryLocks ==
  ASSUME TypeInv, LockInv, NEW c \in Caches,
         (c \in Archives /\ ExpireKey(c)) \/ ExpireLost(c) \/ ExpireHeld(c)
  PROVE  LockInv'
<1>1. CASE c \in Archives /\ ExpireKey(c)
  BY <1>1 DEF ExpireKey, LockInv, Owned, Mutex, At
<1>2. CASE ExpireLost(c)
  <2>1. UNCHANGED <<th, overrun>>
    BY <1>2 DEF ExpireLost
  <2>2. \A d \in Caches : locks'[d] = IF d = c THEN Nobody ELSE locks[d]
    BY <1>2 DEF ExpireLost, TypeInv, TypeOK
  <2>3. Owned'
    BY <2>1, <2>2, CacheAssumption DEF LockInv, Owned, At
  <2>4. Mutex'
    <3> SUFFICES ASSUME NEW u \in Threads, th[u].pc \in Section /\ At(u) \notin overrun
                 PROVE  locks'[At(u)] = u
      BY <2>1 DEF Mutex, At
    <3>1. locks[At(u)] = u /\ At(u) \in Caches
      BY ThreadTypes DEF LockInv, Mutex
    <3> QED
      BY <1>2, <2>2, <3>1, CacheAssumption DEF ExpireLost
  <2> QED
    BY <2>1, <2>3, <2>4 DEF LockInv
<1>3. CASE ExpireHeld(c)
  <2> DEFINE t == locks[c]
  <2>1. t \in Threads /\ At(t) = c /\ th[t].pc \in Section
    BY <1>3 DEF ExpireHeld, LockInv, Owned
  <2>2. \A d \in Caches : locks'[d] = IF d = c THEN Nobody ELSE locks[d]
    BY <1>3 DEF ExpireHeld, TypeInv, TypeOK
  <2>3. /\ \A u \in Threads \ {t} : th'[u] = th[u]
        /\ th'[t] = [th[t] EXCEPT !.late = TRUE]
        /\ overrun' = overrun \cup {c}
    BY <1>3, <2>1 DEF ExpireHeld, TypeInv, TypeOK
  <2>4. th'[t].pc = th[t].pc /\ th'[t].at = th[t].at
    BY <2>1, <2>3, ThreadTypes DEF Thread
  <2>5. Owned'
    <3> SUFFICES ASSUME NEW d \in Caches, NEW u \in Threads, locks'[d] = u
                 PROVE  (At(u) = d /\ th[u].pc \in Section /\ ~th[u].late)'
      BY DEF Owned
    <3>1. d # c /\ locks[d] = u
      BY <2>2, CacheAssumption
    <3>2. At(u) = d /\ th[u].pc \in Section /\ ~th[u].late
      BY <3>1 DEF LockInv, Owned
    <3> QED
      BY <2>1, <2>3, <3>1, <3>2 DEF At
  <2>6. Mutex'
    <3> SUFFICES ASSUME NEW u \in Threads, (th[u].pc \in Section /\ At(u) \notin overrun)'
                 PROVE  (locks[At(u)] = u)'
      BY DEF Mutex
    <3>1. u # t
      BY <2>1, <2>3, <2>4 DEF At
    <3>2. At(u)' = At(u) /\ At(u) \in Caches /\ At(u) # c
      BY <2>3, <3>1, ThreadTypes DEF At
    <3>3. locks[At(u)] = u
      BY <2>3, <3>1, <3>2 DEF LockInv, Mutex
    <3> QED
      BY <2>2, <3>2, <3>3
  <2>7. ASSUME NEW u \in Threads PROVE Overtaken(th[u])'
    <3>1. CASE u = t
      BY <2>1, <2>3, <2>4, <3>1 DEF Overtaken, Section
    <3>2. CASE u # t
      BY <2>3, <3>2 DEF LockInv
    <3> QED
      BY <3>1, <3>2
  <2> QED
    BY <2>5, <2>6, <2>7 DEF LockInv
<1> QED
  BY <1>1, <1>2, <1>3

(* A restart leaves locks behind but no thread in a with-block.             *)
LEMMA CrashLocks ==
  ASSUME TypeInv, LockInv, Crash
  PROVE  LockInv'
<1>1. \A t \in Threads : th'[t].pc = "idle" /\ ~th'[t].late
  BY DEF Crash, Asleep
<1>2. \A c \in Caches : locks'[c] \notin Threads
  BY CacheAssumption DEF Crash, TypeInv, TypeOK
<1> QED
  BY <1>1, <1>2 DEF LockInv, Owned, Mutex, Overtaken, Section

(* The lock invariants hold at the start.                                   *)
LEMMA InitLocks ==
  ASSUME Init
  PROVE  LockInv
<1>1. \A t \in Threads : th[t].pc = "idle" /\ ~th[t].late
  BY DEF Init, Asleep
<1>2. \A c \in Caches : locks[c] = Nobody
  BY DEF Init
<1> QED
  BY <1>1, <1>2, CacheAssumption DEF LockInv, Owned, Mutex, Overtaken, Section

(* Every step preserves the lock invariants.                                *)
LEMMA NextLocks == TypeInv /\ LockInv /\ [Next]_cvars => LockInv'
<1> SUFFICES ASSUME TypeInv, LockInv, [Next]_cvars
             PROVE  LockInv'
  OBVIOUS
<1>1. CASE UNCHANGED cvars
  BY <1>1 DEF cvars, LockInv, Owned, Mutex, At
<1>2. CASE Environment
  <2>1. ASSUME NEW t \in Threads, Submit(t) PROVE LockInv'
    BY <2>1, RequestTypes, UseOutside, OutsideStep
  <2>2. ASSUME NEW t \in Threads, EndTrial(t) PROVE LockInv'
    BY <2>2 DEF EndTrial, LockInv, Owned, Mutex, At
  <2>3. ASSUME NEW i \in Items, Update(i) PROVE LockInv'
    BY <2>3 DEF Update, LockInv, Owned, Mutex, At
  <2> QED
    BY <1>2, <2>1, <2>2, <2>3, ExpiryLocks, CrashLocks, Names DEF Environment
<1>3. ASSUME NEW t \in Threads, Refresh(t) PROVE LockInv'
  <2>1. Kept(t)
    BY <1>3, ArchiveTypes, AssetTypes, RequestTypes DEF Refresh
  <2>2. CASE Acquire(t)
    BY <2>1, <2>2, AcquireLocks
  <2>3. CASE Leave(t)
    BY <2>1, <2>3, LeaveLocks
  <2>4. CASE MakeFolder(t)
    BY <2>1, <2>4, UseOutside, OutsideStep
  <2> QED
    BY <1>3, <2>1, <2>2, <2>3, <2>4, ArchiveSection, AssetSection, InsideStep DEF Refresh
<1>4. ASSUME NEW t \in Threads, Use(t) PROVE LockInv'
  <2>1. Kept(t)
    BY <1>4, RequestTypes, TrialTypes DEF Use
  <2> QED
    BY <1>4, <2>1, UseOutside, OutsideStep DEF Use
<1> QED
  BY <1>1, <1>2, <1>3, <1>4 DEF Next, Idle, ThreadStep

(* The lock of a cache keeps everybody but its owner out of the section, as *)
(* long as it has not run out under an owner.                               *)
THEOREM Exclusion == Spec => [](Owned /\ Mutex)
<1>1. Init => TypeInv /\ LockInv
  BY InitTypes, InitLocks
<1>2. TypeInv /\ LockInv /\ [Next]_cvars => (TypeInv /\ LockInv)'
  BY NextTypes, NextLocks
<1>3. LockInv => Owned /\ Mutex
  BY DEF LockInv
<1> QED
  BY <1>1, <1>2, <1>3, PTL DEF Spec

(* A request whose lock ran out while it held it is not accepted: it ends   *)
(* with an error, or notes that the checker is missing.                     *)
THEOREM Overtaking == Spec => []OvertakenFails
<1>1. Init => TypeInv /\ LockInv
  BY InitTypes, InitLocks
<1>2. TypeInv /\ LockInv /\ [Next]_cvars => (TypeInv /\ LockInv)'
  BY NextTypes, NextLocks
<1>3. LockInv => OvertakenFails
  BY DEF LockInv, Overtaken, OvertakenFails, Is, At
<1> QED
  BY <1>1, <1>2, <1>3, PTL DEF Spec
=============================================================================
