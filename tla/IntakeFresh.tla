---------------------------- MODULE IntakeFresh ----------------------------
(***************************************************************************)
(* Theorems about what a submission gets from the caches: its test cases,  *)
(* the public ones of a trial among them, are whole and current, and so    *)
(* are the custom checker and the resource data; every case of a custom    *)
(* trial has an answer.                                                    *)
(***************************************************************************)
EXTENDS IntakeProofs

(* Which kind of request is where, and which cache it copies from.          *)
Kinds(r) ==
  /\ r.stage = "trial" => r.kind = "custom"
  /\ r.at = "testdata" /\ r.pc \in Section \cup {"acquire"} => r.kind = "normal"
  /\ r.at = "public" => r.kind = "public"
  /\ r.at = "accode" => r.kind = "custom"
  /\ r.pc \in {"tlist", "tdown", "tcopy", "compile", "outputs"} => r.kind = "custom"
  /\ r.kind = "normal" /\ r.pc \in {"meta", "list", "copy", "copied"} => r.at = "testdata"
  /\ r.kind = "public" /\ r.pc \in {"meta", "list", "copy", "copied"} => r.at = "public"
  /\ r.pc \in {"take", "taken"} => r.at = "checker"

KindInv == \A t \in Threads : Kinds(th[t])

(* A thread's step keeps the kinds if its own record does: the others'      *)
(* records change in clean only.                                            *)
LEMMA KindStep ==
  ASSUME TypeInv, KindInv, NEW t \in Threads, Kept(t), Kinds(th'[t])
  PROVE  KindInv'
<1> SUFFICES ASSUME NEW u \in Threads PROVE Kinds(th'[u])
  BY DEF KindInv
<1>1. CASE u = t
  BY <1>1
<1>2. CASE u # t
  <2>1. th[u] \in Thread /\ Kinds(th[u])
    BY ThreadTypes DEF KindInv
  <2>2. th'[u] = th[u] \/ th'[u] = [th[u] EXCEPT !.clean = FALSE]
    BY <1>2 DEF Kept
  <2> QED
    BY <2>1, <2>2 DEF Thread, Kinds
<1> QED
  BY <1>1, <1>2

(* What Ensure sets in a thread's record, and what it leaves alone.         *)
LEMMA EnsureKinds ==
  ASSUME NEW r \in Thread, NEW c, NEW pc, NEW new, new = Ensure(r, c, pc)
  PROVE  /\ new.pc = pc /\ new.at = c /\ new.kind = r.kind /\ new.stage = r.stage
         /\ new.since = IF c = "extracted" THEN r.since ELSE backend[c]
BY DEF Ensure, Thread

(* Leaving a with-block leads to a point the submission's kind allows.      *)
LEMMA AfterKinds ==
  ASSUME TypeInv, NEW r \in Thread, Kinds(r), NEW out \in {"ok", "none", "raise"},
         r.pc \in Section
  PROVE  Kinds(After(r, out))
<1>1. CASE r.at \in {"testdata", "public", "accode"}
  BY <1>1 DEF After, Thread, Kinds, Failed, Asleep
<1>2. CASE r.at = "checker"
  BY <1>2 DEF After, Thread, Kinds
<1>3. CASE r.at = "resource"
  <2> DEFINE e == Ensure(r, "extracted", "acquire")
  <2>1. e.pc = "acquire" /\ e.at = "extracted" /\ e.kind = r.kind /\ e.stage = r.stage
    BY EnsureKinds
  <2> HIDE DEF e
  <2>2. Kinds(e)
    BY <2>1 DEF Kinds
  <2> QED
    BY <1>3, <2>2 DEF After, Thread, Kinds, Failed, Asleep, e
<1>4. CASE r.at = "extracted"
  BY <1>4 DEF After, Thread, Kinds, Failed, Asleep
<1> QED
  BY <1>1, <1>2, <1>3, <1>4 DEF Thread, Caches, Archives, Assets

(* So does every step outside the with-blocks.                              *)
LEMMA UseKinds ==
  ASSUME TypeInv, KindInv, NEW t \in Threads,
         \/ Acquire(t) \/ MakeFolder(t) \/ GetMeta(t) \/ NoMeta(t)
         \/ ListCases(t) \/ CopyCase(t) \/ CasesCopied(t) \/ FindInputs(t)
         \/ DownloadCases(t) \/ CopyInput(t) \/ CompileAC(t)
         \/ WriteOutput(t) \/ OutputsWritten(t) \/ Handle(t)
         \/ TakeChecker(t) \/ PrepareResource(t) \/ ListResource(t)
         \/ CopyResource(t) \/ ResourceCopied(t) \/ Answer(t)
  PROVE  Kinds(th'[t])
<1>1. th \in [Threads -> Thread] /\ th[t] \in Thread /\ Kinds(th[t])
  BY DEF TypeInv, TypeOK, KindInv
<1>2. \A c, pc : LET new == Ensure(th[t], c, pc)
                 IN /\ new.pc = pc /\ new.at = c
                    /\ new.kind = th[t].kind /\ new.stage = th[t].stage
  BY <1>1, EnsureKinds
<1>3. CASE Acquire(t)
  BY <1>1, <1>2, <1>3 DEF Acquire, Is, Step, Thread, Kinds, Section
<1>4. CASE MakeFolder(t)
  BY <1>1, <1>2, <1>4, ThreadTypes DEF MakeFolder, Is, Step, Thread, Kinds, Section, At,
     Placed, Comparing, Assets
<1>5. CASE GetMeta(t)
  BY <1>1, <1>2, <1>5 DEF GetMeta, Is, Step, Thread, Kinds, Section
<1>6. CASE NoMeta(t)
  BY <1>1, <1>2, <1>6 DEF NoMeta, Is, Step, Thread, Kinds, Section, Failed, Asleep
<1>7. CASE ListCases(t)
  BY <1>1, <1>2, <1>7 DEF ListCases, Is, Step, Thread, Kinds, Section
<1>8. CASE CopyCase(t)
  <2>1. PICK p \in th[t].todo :
          th' = IF p \notin Cases(t) THEN [th EXCEPT ![t] = Failed]
                ELSE [th EXCEPT ![t].todo = @ \ {p}, ![t].copy[p] = Source(t)[p]]
    BY <1>8 DEF CopyCase
  <2>2. \/ th'[t] = Failed
        \/ /\ th'[t].at = th[t].at /\ th'[t].pc = th[t].pc
           /\ th'[t].kind = th[t].kind /\ th'[t].stage = th[t].stage
    BY <1>1, <2>1 DEF Thread
  <2>3. Kinds(Failed)
    BY DEF Kinds, Section, Failed, Asleep
  <2> QED
    BY <1>1, <2>2, <2>3 DEF Kinds
<1>9. CASE CasesCopied(t)
  BY <1>1, <1>2, <1>9 DEF CasesCopied, Is, Step, Thread, Kinds, Section
<1>10. CASE FindInputs(t)
  BY <1>1, <1>2, <1>10 DEF FindInputs, Is, Step, Thread, Kinds, Section
<1>11. CASE DownloadCases(t)
  BY <1>1, <1>2, <1>11 DEF DownloadCases, Is, Step, Thread, Kinds, Section, Failed,
     Asleep
<1>12. CASE CopyInput(t)
  BY <1>1, <1>2, <1>12 DEF CopyInput, Is, Step, Thread, Kinds, Section
<1>13. CASE CompileAC(t)
  BY <1>1, <1>2, <1>13 DEF CompileAC, Is, Step, Thread, Kinds, Section, Failed, Asleep
<1>14. CASE WriteOutput(t)
  BY <1>1, <1>2, <1>14 DEF WriteOutput, Is, Step, Thread, Kinds, Section
<1>15. CASE OutputsWritten(t)
  BY <1>1, <1>2, <1>15 DEF OutputsWritten, Is, Step, Thread, Kinds, Section
<1>16. CASE Handle(t)
  BY <1>1, <1>2, <1>16 DEF Handle, Is, Step, Thread, Kinds, Section, Resource
<1>17. CASE TakeChecker(t)
  BY <1>1, <1>2, <1>17 DEF TakeChecker, Is, Step, Thread, Kinds, Section
<1>18. CASE PrepareResource(t)
  BY <1>1, <1>2, <1>18 DEF PrepareResource, Is, Step, Thread, Kinds, Section, Resource
<1>19. CASE ListResource(t)
  BY <1>1, <1>2, <1>19 DEF ListResource, Is, Step, Thread, Kinds, Section
<1>20. CASE CopyResource(t)
  BY SMTT(30), <1>1, <1>2, <1>20 DEF CopyResource, Is, Step, Thread, Kinds, Section, Failed,
     Asleep
<1>21. CASE ResourceCopied(t)
  BY <1>1, <1>2, <1>21 DEF ResourceCopied, Is, Step, Thread, Kinds, Section
<1>22. CASE Answer(t)
  BY <1>1, <1>2, <1>22 DEF Answer, Is, Step, Thread, Kinds, Section, Asleep
<1> QED
  BY <1>3, <1>4, <1>5, <1>6, <1>7, <1>8, <1>9, <1>10, <1>11, <1>12, <1>13,
     <1>14, <1>15, <1>16, <1>17, <1>18, <1>19, <1>20, <1>21, <1>22

(* Where a submission begins, and which version it counts as its own.       *)
LEMMA BeginKinds ==
  ASSUME TypeInv, NEW k \in {"normal", "public", "custom"}, NEW t \in Threads
  PROVE  /\ Kinds(Begin(t, k)) /\ Begin(t, k).pc \in {"acquire", "meta"}
         /\ Begin(t, k).kind = k
         /\ Begin(t, k).at = "testdata" => Begin(t, k).since <= backend["testdata"]
         /\ Begin(t, k).at # "checker"
<1> DEFINE r == [Asleep EXCEPT !.kind = k]
<1>1. r \in Thread /\ r.stage = "data" /\ r.kind = k /\ r.at = "testdata" /\ r.since = 1
  BY AsleepType DEF Thread, Asleep
<1>2. backend["testdata"] \in Versions
  BY DEF TypeInv, TypeOK, Items
<1>3. ASSUME NEW c \in {"testdata", "public"}
      PROVE  LET new == Ensure(r, c, "acquire")
             IN /\ new.pc = "acquire" /\ new.at = c /\ new.kind = k
                /\ new.stage = "data" /\ new.since = backend[c]
  <2> HIDE DEF r
  <2> QED
    BY <1>1, EnsureKinds
<1>4. CASE k = "custom"
  <2> HIDE DEF r
  <2>1. Begin(t, k) = [r EXCEPT !.pc = "meta", !.stage = "trial"]
    BY <1>4 DEF Begin, r
  <2>2. LET new == Begin(t, k)
        IN /\ new.pc = "meta" /\ new.at = "testdata" /\ new.kind = k
           /\ new.stage = "trial" /\ new.since = 1
    BY <1>1, <2>1 DEF Thread
  <2> QED
    BY <1>2, <1>4, <2>2, CacheAssumption DEF Kinds, Section, Versions
<1>5. CASE k = "normal"
  <2>1. Begin(t, k) = Ensure(r, "testdata", "acquire")
    BY <1>5 DEF Begin
  <2>2. LET new == Begin(t, k)
        IN /\ new.pc = "acquire" /\ new.at = "testdata" /\ new.kind = k
           /\ new.stage = "data" /\ new.since = backend["testdata"]
    BY <1>3, <2>1
  <2> QED
    BY <1>2, <1>5, <2>2, CacheAssumption DEF Kinds, Section, Versions
<1>6. CASE k = "public"
  <2>1. Begin(t, k) = Ensure(r, "public", "acquire")
    BY <1>6 DEF Begin
  <2> QED
    BY <1>3, <1>6, <2>1 DEF Kinds, Section
<1> QED
  BY <1>4, <1>5, <1>6

(* A submission begins as one of the three kinds.                           *)
LEMMA SubmitBegins ==
  ASSUME TypeInv, NEW t \in Threads, Submit(t)
  PROVE  \E k \in {"normal", "public", "custom"} : th' = [th EXCEPT ![t] = Begin(t, k)]
<1>1. prob.kinds \subseteq {"normal", "public", "custom"}
  BY CacheAssumption DEF TypeInv, TypeOK, Problem
<1> QED
  BY <1>1 DEF Submit

(* Every step leaves every thread at a point its kind allows.               *)
LEMMA NextKinds == TypeInv /\ KindInv /\ [Next]_cvars => KindInv'
<1> SUFFICES ASSUME TypeInv, KindInv, [Next]_cvars
             PROVE  KindInv'
  OBVIOUS
<1> USE DEF KindInv
<1>1. CASE UNCHANGED cvars
  BY <1>1 DEF cvars
<1>2. CASE Environment
  <2>1. ASSUME NEW t \in Threads, Submit(t) PROVE KindInv'
    <3>1. PICK k \in {"normal", "public", "custom"} : th' = [th EXCEPT ![t] = Begin(t, k)]
      BY <2>1, SubmitBegins
    <3>2. Kinds(th'[t])
      BY <3>1, BeginKinds DEF TypeInv, TypeOK
    <3> QED
      BY <2>1, <3>2, KindStep, RequestTypes
  <2>2. ASSUME NEW c \in Caches, ExpireHeld(c) PROVE KindInv'
    <3>1. \A u \in Threads : th[u] \in Thread
      BY ThreadTypes
    <3>2. \A u \in Threads : th'[u] \in {th[u], [th[u] EXCEPT !.late = TRUE]}
      BY <2>2 DEF ExpireHeld, TypeInv, TypeOK
    <3> QED
      BY <3>1, <3>2 DEF Kinds, Thread
  <2>3. CASE Crash
    BY <2>3 DEF Crash, Kinds, Section, Asleep
  <2>4. CASE \/ \E t \in Threads : EndTrial(t)
             \/ \E c \in Archives : ExpireKey(c)
             \/ \E c \in Caches : ExpireLost(c)
             \/ \E i \in Items : Update(i)
    BY <2>4 DEF EndTrial, ExpireKey, ExpireLost, Update
  <2> QED
    BY <1>2, <2>1, <2>2, <2>3, <2>4 DEF Environment
<1>3. ASSUME NEW t \in Threads, Refresh(t) PROVE KindInv'
  <2>1. Kept(t)
    BY <1>3, ArchiveTypes, AssetTypes, RequestTypes DEF Refresh
  <2>2. CASE Acquire(t) \/ MakeFolder(t)
    BY <2>1, <2>2, UseKinds, KindStep
  <2>3. CASE Leave(t)
    <3>1. th'[t] = After(th[t], Outcome(t)) /\ th[t].pc \in Section
      BY <2>3 DEF Leave, TypeInv, TypeOK, Section
    <3>2. Outcome(t) \in {"ok", "none", "raise"}
      BY DEF Outcome
    <3>3. Kinds(th'[t])
      BY <3>1, <3>2, AfterKinds, ThreadTypes
    <3> QED
      BY <2>1, <3>3, KindStep
  <2>4. CASE ~(Acquire(t) \/ MakeFolder(t) \/ Leave(t))
    <3>1. /\ th[t].pc \in Section /\ th'[t].pc \in Section /\ th'[t].at = th[t].at
          /\ th'[t].kind = th[t].kind /\ th'[t].stage = th[t].stage
      BY <1>3, <2>4, ArchiveSection, AssetSection DEF Refresh
    <3>2. Kinds(th'[t])
      BY <3>1 DEF Kinds, Section
    <3> QED
      BY <2>1, <3>2, KindStep
  <2> QED
    BY <2>2, <2>3, <2>4
<1>4. ASSUME NEW t \in Threads, Use(t) PROVE KindInv'
  <2>1. Kept(t)
    BY <1>4, RequestTypes, TrialTypes DEF Use
  <2> QED
    BY <1>4, <2>1, UseKinds, KindStep DEF Use
<1> QED
  BY <1>1, <1>2, <1>3, <1>4 DEF Next, Idle, ThreadStep

-----------------------------------------------------------------------------
(* The directory is a whole version, no older than what the thread asked    *)
(* for and no newer than the backend's, b.                                  *)
Held(r, b, d) == \E v \in r.since..b : d = Whole(v)

Refreshing == {"fetch", "clear", "extract", "fmeta", "store"}

(* What thread record r knows inside the lock of the test data, if red is   *)
(* the checksum in Redis and d the directory: a refresh is only made, and   *)
(* only disturbs the directory, while Redis does not hold the backend's     *)
(* checksum.                                                                *)
Ensuring(r, b, red, d) ==
  /\ r.since <= b
  /\ r.pc = "compare" => /\ r.key[1] <= b /\ r.key[2] <= b /\ red \in {r.key, NoKey}
                         /\ r.key = <<b, b>> => d = Whole(b)
  /\ r.pc \in Refreshing => red # <<b, b>>
  /\ r.pc \in Refreshing \ {"fetch"} => r.data \in r.since..b
  /\ r.pc = "extract" => \A p \in Parts \ r.todo : d[p] = r.data
  /\ r.pc \in {"fmeta", "store"} => d = Whole(r.data)
  /\ r.pc = "store" => r.key[1] = r.data /\ r.key[2] <= b
  /\ r.pc = "release" => Held(r, b, d)

(* And after the lock, as long as nobody else has written to the directory. *)
Copying(r, b, d) ==
  /\ r.pc \in {"meta", "list"} => Held(r, b, d)
  /\ r.pc = "copy" => \E v \in r.since..b : /\ d = Whole(v)
                                            /\ \A p \in Parts \ r.todo : r.copy[p] = v
  /\ r.pc = "copied" => \E v \in r.since..b : r.copy = Whole(v)

Fresh(r, b, red, d) ==
  /\ r.at = "testdata" => Ensuring(r, b, red, d)
  /\ r.kind = "normal" /\ r.clean => Copying(r, b, d)

(* The checksum in Redis tells the truth if it is the backend's.            *)
Cached(b, red, d) ==
  red[1] <= b /\ red[2] <= b /\ (red = <<b, b>> => d = Whole(b))

FreshInv ==
  "testdata" \notin overrun =>
     /\ Cached(backend["testdata"], redis["testdata"], dir["testdata"])
     /\ \A t \in Threads :
          Fresh(th[t], backend["testdata"], redis["testdata"], dir["testdata"])

-----------------------------------------------------------------------------
(* The types of the values the freshness of the test data relates.          *)
LEMMA TestdataTypes ==
  ASSUME TypeInv
  PROVE  /\ backend["testdata"] \in Versions
         /\ redis["testdata"] \in Key
         /\ dir["testdata"] \in [Parts -> 0..MaxVersion]
BY DEF TypeInv, TypeOK, Items, Archives

(* A thread outside the section is not troubled by what others do there, if *)
(* it notices that they have written.                                       *)
LEMMA OthersFresh ==
  ASSUME NEW r \in Thread, Kinds(r), NEW b, NEW red, NEW d, NEW red2, NEW d2,
         Fresh(r, b, red, d), NEW s, s = r \/ s = [r EXCEPT !.clean = FALSE],
         \/ red2 = red /\ d2 = d
         \/ r.at # "testdata"
         \/ r.pc \notin Section /\ (d2 = d \/ ~s.clean)
  PROVE  Fresh(s, b, red2, d2)
<1>1. /\ s.pc = r.pc /\ s.at = r.at /\ s.kind = r.kind /\ s.since = r.since
      /\ s.key = r.key /\ s.data = r.data /\ s.todo = r.todo /\ s.copy = r.copy
      /\ s.clean => r.clean
  BY DEF Thread
<1>2. CASE red2 = red /\ d2 = d
  BY <1>1, <1>2 DEF Fresh, Ensuring, Copying, Held
<1>3. CASE r.at # "testdata"
  BY <1>1, <1>3 DEF Fresh, Ensuring, Copying, Held, Kinds
<1>4. CASE r.pc \notin Section /\ (d2 = d \/ ~s.clean)
  BY <1>1, <1>4 DEF Fresh, Ensuring, Copying, Held, Section, Refreshing
<1> QED
  BY <1>2, <1>3, <1>4

(* A thread's step preserves freshness if its own claim and the cache's     *)
(* hold afterwards: the other threads notice when it empties or fills the   *)
(* directory.                                                               *)
LEMMA FreshStep ==
  ASSUME TypeInv, LockInv, KindInv, FreshInv, NEW t \in Threads, Kept(t),
         UNCHANGED <<backend, overrun>>,
         \/ UNCHANGED <<redis["testdata"], dir["testdata"]>>
         \/ /\ At(t) = "testdata" /\ th[t].pc \in Section
            /\ \/ UNCHANGED dir["testdata"]
               \/ \A u \in Threads \ {t} : At(u) = "testdata" => ~th'[u].clean,
         "testdata" \notin overrun =>
           /\ Cached(backend["testdata"], redis'["testdata"], dir'["testdata"])
           /\ Fresh(th'[t], backend["testdata"], redis'["testdata"], dir'["testdata"])
  PROVE  FreshInv'
<1> DEFINE b == backend["testdata"]
<1> DEFINE red == redis["testdata"]
<1> DEFINE d == dir["testdata"]
<1> SUFFICES ASSUME "testdata" \notin overrun, NEW u \in Threads \ {t}
             PROVE  Fresh(th'[u], b, red', d')
  BY DEF FreshInv
<1>1. th[u] \in Thread /\ Kinds(th[u]) /\ Fresh(th[u], b, red, d)
  BY ThreadTypes DEF KindInv, FreshInv
<1>2. th'[u] = th[u] \/ th'[u] = [th[u] EXCEPT !.clean = FALSE]
  BY DEF Kept
<1>3. \/ red' = red /\ d' = d
      \/ th[u].at # "testdata"
      \/ th[u].pc \notin Section /\ (d' = d \/ ~th'[u].clean)
  BY DEF LockInv, Mutex, At
<1> HIDE DEF b, red, d
<1> QED
  BY <1>1, <1>2, <1>3, OthersFresh

(* A thread refreshes the test data.                                        *)
LEMMA ArchiveFresh ==
  ASSUME TypeInv, LockInv, KindInv, FreshInv, NEW t \in Threads,
         At(t) = "testdata", "testdata" \notin overrun,
         \/ GetKey(t) \/ Compare(t) \/ CannotCompare(t) \/ Fetch(t)
         \/ ClearPart(t) \/ ClearExtracted(t) \/ ClearFolder(t) \/ ClearRaises(t)
         \/ ExtractPart(t) \/ FetchMeta(t) \/ Store(t) \/ Raise(t)
  PROVE  /\ Cached(backend["testdata"], redis'["testdata"], dir'["testdata"])
         /\ Fresh(th'[t], backend["testdata"], redis'["testdata"], dir'["testdata"])
         /\ \/ UNCHANGED dir["testdata"]
            \/ \A u \in Threads \ {t} : At(u) = "testdata" => ~th'[u].clean
<1> DEFINE b == backend["testdata"]
<1> DEFINE red == redis["testdata"]
<1> DEFINE d == dir["testdata"]
<1> DEFINE r == th[t]
<1> DEFINE s == th'[t]
<1>1. th \in [Threads -> Thread] /\ r \in Thread /\ r.at = "testdata"
  BY DEF TypeInv, TypeOK, At
<1>2. b \in Versions /\ red \in Key /\ d \in [Parts -> 0..MaxVersion]
  BY TestdataTypes
<1>3. Cached(b, red, d) /\ Ensuring(r, b, red, d)
  BY <1>1 DEF FreshInv, Fresh
<1>4. /\ s.at = "testdata" /\ s.since = r.since
      /\ s.pc \in Section /\ r.pc \in Section
  BY <1>1, ArchiveSection
<1>5. red # NoKey \/ red # <<b, b>>
  BY <1>2, Numbers DEF NoKey, Versions
<1>6. SUFFICES /\ Cached(b, red', d') /\ Ensuring(s, b, red', d')
               /\ d' = d \/ \A u \in Threads \ {t} : At(u) = "testdata" => ~th'[u].clean
  BY <1>4 DEF Fresh, Copying, Section
<1>7. CASE GetKey(t)
  <2>1. /\ s.key = red /\ s.pc = IF red = NoKey THEN "fetch" ELSE "compare"
        /\ red' = red /\ d' = d
    BY <1>1, <1>7 DEF GetKey, At, Thread, disk
  <2> HIDE DEF b, red, d, r, s
  <2> QED
    BY <1>2, <1>3, <1>4, <1>5, <2>1, Numbers DEF Cached, Ensuring, Refreshing
<1>8. CASE Compare(t)
  <2>1. /\ s.pc = IF r.key = <<b, b>> THEN "release" ELSE "fetch"
        /\ r.pc = "compare" /\ red' = red /\ d' = d
    BY <1>1, <1>8 DEF Compare, Step, Is, At, Thread, disk
  <2>2. r.since \in Versions
    BY <1>1 DEF Thread
  <2> HIDE DEF b, red, d, r, s
  <2>3. r.key = <<b, b>> => Held(s, b, d)
    BY <1>2, <1>3, <1>4, <2>1, <2>2 DEF Ensuring, Held, Versions
  <2>4. r.key # <<b, b>> => red # <<b, b>>
    BY <1>2, <1>3, <2>1, Numbers DEF Ensuring, NoKey, Versions
  <2> QED
    BY <1>3, <1>4, <2>1, <2>3, <2>4 DEF Cached, Ensuring, Refreshing
<1>9. CASE CannotCompare(t) \/ ClearRaises(t) \/ Raise(t)
  <2>1. s.pc = "unwind" /\ red' = red /\ d' = d
    BY <1>1, <1>9 DEF CannotCompare, ClearRaises, Raise, Step, At, Thread, disk
  <2> HIDE DEF b, red, d, r, s
  <2> QED
    BY <1>3, <1>4, <2>1 DEF Cached, Ensuring, Refreshing
<1>10. CASE Fetch(t)
  <2> DEFINE got == [r EXCEPT !.data = b]
  <2>1. s = Cleared(got, Children(At(t))) /\ r.pc = "fetch" /\ red' = red /\ d' = d
    BY <1>1, <1>10 DEF Fetch, Is, At, disk
  <2>2. s.data = b /\ (s.pc = "extract" => s.todo = Parts) /\ s.pc \in {"extract", "clear"}
    BY <1>1, <2>1 DEF Cleared, Thread
  <2>3. b \in s.since..b
    BY <1>1, <1>2, <1>3, <1>4 DEF Ensuring, Thread, Versions
  <2> HIDE DEF b, red, d, r, s
  <2> QED
    BY <1>3, <1>4, <2>1, <2>2, <2>3 DEF Cached, Ensuring, Refreshing
<1>11. CASE ClearPart(t)
  <2>1. PICK p : th' = [Touch(t, {At(t)}) EXCEPT ![t] = Cleared(@, @.todo \ {p})]
    BY <1>11 DEF ClearPart
  <2>2. s = Cleared(r, r.todo \ {p}) /\ r.pc = "clear" /\ red' = red
    BY <1>11, <2>1, TouchType DEF ClearPart, Is
  <2>3. s.data = r.data /\ (s.pc = "extract" => s.todo = Parts) /\ s.pc \in {"extract", "clear"}
    BY <1>1, <2>2 DEF Cleared, Thread
  <2>4. \A u \in Threads \ {t} : th'[u] = Touch(t, {At(t)})[u]
    BY <2>1, TouchType
  <2>5. ASSUME NEW u \in Threads \ {t}, At(u) = "testdata" PROVE ~th'[u].clean
    BY <1>1, <2>4, <2>5 DEF Touch, Thread, At
  <2> HIDE DEF b, red, d, r, s
  <2> QED
    BY <1>3, <1>4, <2>2, <2>3, <2>5 DEF Cached, Ensuring, Refreshing
<1>12. CASE ClearExtracted(t)
  <2>1. s = r /\ red' = red /\ d' = d
    BY <1>12, TouchType DEF ClearExtracted, TypeInv, TypeOK
  <2> HIDE DEF b, red, d, r, s
  <2> QED
    BY <1>3, <2>1
<1>13. CASE ClearFolder(t)
  <2>1. PICK a : th' = [Touch(t, {a, IF a = "resource" THEN "extracted" ELSE a})
                           EXCEPT ![t] = Cleared(@, @.todo \ {a})]
    BY <1>13 DEF ClearFolder
  <2>2. s = Cleared(r, r.todo \ {a}) /\ r.pc = "clear" /\ red' = red /\ d' = d
    BY <1>13, <2>1, TouchType DEF ClearFolder, Is
  <2>3. s.data = r.data /\ (s.pc = "extract" => s.todo = Parts) /\ s.pc \in {"extract", "clear"}
    BY <1>1, <2>2 DEF Cleared, Thread
  <2> HIDE DEF b, red, d, r, s
  <2> QED
    BY <1>3, <1>4, <2>2, <2>3 DEF Cached, Ensuring, Refreshing
<1>14. CASE ExtractPart(t)
  <2> DEFINE T == Touch(t, {At(t)})
  <2>1. PICK p \in r.todo :
          /\ dir' = [dir EXCEPT ![At(t)][p] = r.data]
          /\ th' = [T EXCEPT
                ![t].todo = @ \ {p}, ![t].key = <<th[t].data, th[t].data>>,
                ![t].pc = IF th[t].todo # {p} THEN "extract"
                          ELSE IF At(t) = "testdata" THEN "fmeta" ELSE "store"]
    BY <1>14 DEF ExtractPart
  <2>2. T \in [Threads -> Thread] /\ T[t] = r
    BY TouchType
  <2>3. /\ s.data = r.data /\ s.todo = r.todo \ {p} /\ r.pc = "extract" /\ red' = red
        /\ s.pc = IF r.todo # {p} THEN "extract" ELSE "fmeta"
    BY <1>1, <1>14, <2>1, <2>2 DEF ExtractPart, Is, At, Thread
  <2>4. d' = [d EXCEPT ![p] = r.data]
    BY <1>1, <2>1 DEF At, TypeInv, TypeOK, Archives
  <2>5. \A u \in Threads \ {t} : th'[u] = T[u]
    BY <2>1, <2>2
  <2>6. ASSUME NEW u \in Threads \ {t}, At(u) = "testdata" PROVE ~th'[u].clean
    BY <1>1, <2>5, <2>6 DEF Touch, Thread, At
  <2> HIDE DEF b, red, d, r, s
  <2>7. \A q \in Parts \ s.todo : d'[q] = s.data
    BY <1>2, <1>3, <2>3, <2>4 DEF Ensuring
  <2>8. s.pc = "fmeta" => d' = Whole(s.data)
    BY <1>2, <2>3, <2>4, <2>7 DEF Whole
  <2> QED
    BY <1>3, <1>4, <2>3, <2>6, <2>7, <2>8 DEF Cached, Ensuring, Refreshing
<1>15. CASE FetchMeta(t)
  <2>1. /\ s.key = <<r.data, b>> /\ s.pc = "store" /\ s.data = r.data
        /\ r.pc = "fmeta" /\ red' = red /\ d' = d
    BY <1>1, <1>15 DEF FetchMeta, Is, Thread
  <2> HIDE DEF b, red, d, r, s
  <2> QED
    BY <1>2, <1>3, <1>4, <2>1 DEF Cached, Ensuring, Refreshing, Versions
<1>16. CASE Store(t)
  <2>1. /\ s.pc = "release" /\ r.pc = "store" /\ red' = r.key /\ d' = d
    BY <1>1, <1>16 DEF Store, Step, Is, At, Thread, disk, TypeInv, TypeOK, Archives
  <2>2. r.data \in r.since..b /\ d = Whole(r.data) /\ r.key[1] = r.data /\ r.key[2] <= b
    BY <1>3, <2>1 DEF Ensuring, Refreshing
  <2> HIDE DEF b, red, d, r, s
  <2>3. Held(s, b, d')
    BY <1>4, <2>1, <2>2 DEF Held
  <2>4. r.since \in Versions
    BY <1>1 DEF Thread, r
  <2>5. Cached(b, red', d')
    BY <1>2, <2>1, <2>2, <2>4 DEF Cached, Versions
  <2> QED
    BY <1>3, <1>4, <2>1, <2>3, <2>5 DEF Ensuring, Refreshing
<1> QED
  BY <1>7, <1>8, <1>9, <1>10, <1>11, <1>12, <1>13, <1>14, <1>15, <1>16

(* A thread that is neither refreshing nor copying the test data.           *)
Elsewhere(r, b) ==
  /\ r.at = "testdata" => r.since <= b
  /\ r.pc \notin Refreshing \cup {"compare", "release"}
  /\ r.kind = "normal" => r.pc \notin {"meta", "list", "copy", "copied"}

(* A thread that is busy elsewhere claims nothing of the test data.         *)
LEMMA ElsewhereFresh ==
  ASSUME NEW r, NEW b, NEW red, NEW d, Elsewhere(r, b)
  PROVE  Fresh(r, b, red, d)
BY DEF Elsewhere, Fresh, Ensuring, Copying, Refreshing

(* The steps outside the with-blocks that do not copy cases: the test data  *)
(* are left alone and nothing new is claimed.                               *)
LEMMA UseElsewhere ==
  ASSUME TypeInv, KindInv, FreshInv, NEW t \in Threads, "testdata" \notin overrun,
         \/ Acquire(t) \/ MakeFolder(t) \/ NoMeta(t) \/ FindInputs(t)
         \/ DownloadCases(t) \/ CopyInput(t) \/ CompileAC(t)
         \/ WriteOutput(t) \/ OutputsWritten(t) \/ Handle(t)
         \/ TakeChecker(t) \/ PrepareResource(t) \/ ListResource(t)
         \/ CopyResource(t) \/ ResourceCopied(t) \/ Answer(t)
  PROVE  /\ UNCHANGED <<backend, overrun, redis, dir>>
         /\ Elsewhere(th'[t], backend["testdata"])
<1> DEFINE b == backend["testdata"]
<1> DEFINE r == th[t]
<1>1. /\ th \in [Threads -> Thread] /\ r \in Thread /\ Kinds(r)
      /\ r.at = "testdata" => r.since <= b
  BY DEF TypeInv, TypeOK, KindInv, FreshInv, Fresh, Ensuring
<1>2. 1 <= b
  BY TestdataTypes, CacheAssumption DEF Versions
<1>3. \A c, pc : LET new == Ensure(r, c, pc)
                 IN /\ new.pc = pc /\ new.at = c /\ new.kind = r.kind
  BY <1>1, EnsureKinds
<1>4. CASE Acquire(t)
  BY <1>1, <1>2, <1>3, <1>4 DEF Acquire, Is, Step, Thread, Kinds, Section, Elsewhere,
     Refreshing, world, disk
<1>5. CASE MakeFolder(t)
  BY <1>1, <1>2, <1>3, <1>5 DEF MakeFolder, Is, Step, Thread, Kinds, Section,
     Elsewhere, Refreshing, world, disk
<1>6. CASE NoMeta(t)
  BY <1>1, <1>2, <1>3, <1>6 DEF NoMeta, Is, Step, Thread, Kinds, Section, Elsewhere,
     Refreshing, world, disk, Failed, Asleep
<1>7. CASE FindInputs(t)
  BY <1>1, <1>2, <1>3, <1>7 DEF FindInputs, Is, Step, Thread, Kinds, Section,
     Elsewhere, Refreshing, world, disk
<1>8. CASE DownloadCases(t)
  BY <1>1, <1>2, <1>3, <1>8 DEF DownloadCases, Is, Step, Thread, Kinds, Section,
     Elsewhere, Refreshing, world, disk, Failed, Asleep
<1>9. CASE CopyInput(t)
  BY <1>1, <1>2, <1>3, <1>9 DEF CopyInput, Is, Step, Thread, Kinds, Section, Elsewhere,
     Refreshing, world, disk
<1>10. CASE CompileAC(t)
  BY <1>1, <1>2, <1>3, <1>10 DEF CompileAC, Is, Step, Thread, Kinds, Section,
     Elsewhere, Refreshing, world, disk, Failed, Asleep
<1>11. CASE WriteOutput(t)
  BY <1>1, <1>2, <1>3, <1>11 DEF WriteOutput, Is, Step, Thread, Kinds, Section,
     Elsewhere, Refreshing, world, disk
<1>12. CASE OutputsWritten(t)
  BY <1>1, <1>2, <1>3, <1>12 DEF OutputsWritten, Is, Step, Thread, Kinds, Section,
     Elsewhere, Refreshing, world, disk
<1>13. CASE Handle(t)
  BY <1>1, <1>2, <1>3, <1>13 DEF Handle, Is, Step, Thread, Kinds, Section, Elsewhere,
     Refreshing, world, disk, Resource
<1>14. CASE TakeChecker(t)
  BY <1>1, <1>2, <1>3, <1>14 DEF TakeChecker, Is, Step, Thread, Kinds, Section,
     Elsewhere, Refreshing, world, disk
<1>15. CASE PrepareResource(t)
  BY <1>1, <1>2, <1>3, <1>15 DEF PrepareResource, Is, Step, Thread, Kinds, Section,
     Elsewhere, Refreshing, world, disk, Resource
<1>16. CASE ListResource(t)
  BY <1>1, <1>2, <1>3, <1>16 DEF ListResource, Is, Step, Thread, Kinds, Section,
     Elsewhere, Refreshing, world, disk
<1>17. CASE CopyResource(t)
  BY <1>1, <1>2, <1>3, <1>17 DEF CopyResource, Is, Step, Thread, Kinds, Section,
     Elsewhere, Refreshing, world, disk, Failed, Asleep
<1>18. CASE ResourceCopied(t)
  BY <1>1, <1>2, <1>3, <1>18 DEF ResourceCopied, Is, Step, Thread, Kinds, Section,
     Elsewhere, Refreshing, world, disk
<1>19. CASE Answer(t)
  BY <1>1, <1>2, <1>3, <1>19 DEF Answer, Is, Step, Thread, Kinds, Section, Elsewhere,
     Refreshing, world, disk, Asleep
<1> QED
  BY <1>4, <1>5, <1>6, <1>7, <1>8, <1>9, <1>10, <1>11, <1>12, <1>13, <1>14,
     <1>15, <1>16, <1>17, <1>18, <1>19

(* A new submission claims nothing of the cached test data yet.             *)
LEMMA BeginFresh ==
  ASSUME TypeInv, NEW t \in Threads, Submit(t), NEW red, NEW d
  PROVE  /\ UNCHANGED <<backend, overrun, redis, dir>>
         /\ Fresh(th'[t], backend["testdata"], red, d)
<1>1. PICK k \in {"normal", "public", "custom"} : th' = [th EXCEPT ![t] = Begin(t, k)]
  BY SubmitBegins
<1> DEFINE s == th'[t]
<1>2. s = Begin(t, k)
  BY <1>1 DEF TypeInv, TypeOK
<1>3. /\ Kinds(s) /\ s.pc \in {"acquire", "meta"}
      /\ s.at = "testdata" => s.since <= backend["testdata"]
  BY <1>2, BeginKinds
<1>4. k = "normal" => s.pc = "acquire"
  <2> DEFINE r == [Asleep EXCEPT !.kind = k]
  <2>1. k = "normal" => s = Ensure(r, "testdata", "acquire")
    BY <1>2 DEF Begin
  <2>2. r \in Thread
    BY AsleepType DEF Thread
  <2> HIDE DEF r
  <2> QED
    BY <2>1, <2>2, EnsureKinds
<1>5. s.kind = k
  BY <1>2, BeginKinds
<1> HIDE DEF s
<1>6. Elsewhere(s, backend["testdata"])
  BY <1>3, <1>4, <1>5 DEF Elsewhere, Refreshing
<1> QED
  BY <1>6, ElsewhereFresh DEF Submit, disk, s

(* A request leaves a lock; if it goes on to copy the test data, it found   *)
(* them whole.                                                              *)
LEMMA LeaveFresh ==
  ASSUME TypeInv, KindInv, FreshInv, NEW t \in Threads, "testdata" \notin overrun,
         Leave(t)
  PROVE  /\ UNCHANGED <<backend, overrun, redis, dir>>
         /\ Fresh(th'[t], backend["testdata"], redis["testdata"], dir["testdata"])
<1> DEFINE b == backend["testdata"]
<1> DEFINE d == dir["testdata"]
<1> DEFINE r == th[t]
<1> DEFINE out == Outcome(t)
<1> DEFINE s == th'[t]
<1>1. /\ r \in Thread /\ Kinds(r) /\ Fresh(r, b, redis["testdata"], d)
      /\ r.pc \in {"release", "none", "unwind"}
  BY ThreadTypes DEF KindInv, FreshInv, Leave
<1>2. s = After(r, out) /\ out \in {"ok", "none", "raise"}
      /\ (out = "ok" => r.pc = "release")
  BY <1>1 DEF Leave, TypeInv, TypeOK, Outcome, Is
<1>3. b \in Versions /\ 1 <= b
  BY TestdataTypes, CacheAssumption DEF Versions
<1>4. Failed.pc = "failed" /\ Failed.since = 1 /\ Failed.at = "testdata"
  BY DEF Failed, Asleep
<1>5. Elsewhere(Failed, b)
  BY <1>3, <1>4 DEF Elsewhere, Refreshing
<1> HIDE DEF b, d, out
<1>6. Fresh(s, b, redis["testdata"], d)
  <2>1. CASE s = Failed
    BY <1>5, <2>1, ElsewhereFresh
  <2>2. CASE r.at = "testdata" /\ s = [r EXCEPT !.pc = "meta"] /\ out = "ok"
    <3>1. Held(r, b, d) /\ r.since <= b
      BY <1>1, <1>2, <2>2 DEF Fresh, Ensuring
    <3>2. s.pc = "meta" /\ s.since = r.since
      BY <1>1, <2>2 DEF Thread
    <3> HIDE DEF s, r
    <3> QED
      BY <3>1, <3>2 DEF Fresh, Ensuring, Copying, Held, Refreshing
  <2>3. CASE r.at \in {"public", "accode"} /\ s # Failed
    <3>1. s.at = r.at /\ s.kind # "normal" /\ s.pc \in {"meta", "compile"}
      BY <1>1, <1>2, <2>3 DEF After, Thread, Kinds, Section
    <3> HIDE DEF s, r
    <3>2. Elsewhere(s, b)
      BY <2>3, <3>1 DEF Elsewhere, Refreshing
    <3> QED
      BY <3>2, ElsewhereFresh
  <2>4. CASE r.at \in {"checker", "extracted"} /\ s # Failed
    <3>1. s.at = r.at /\ s.kind = r.kind
          /\ \/ s.pc \in {"take", "taken", "done", "listres"}
             \/ s.pc = "meta" /\ s.kind = "custom"
      BY <1>1, <1>2, <2>4 DEF After, Thread, Kinds, Section
    <3> HIDE DEF s, r
    <3>2. Elsewhere(s, b)
      BY <2>4, <3>1 DEF Elsewhere, Refreshing
    <3> QED
      BY <3>2, ElsewhereFresh
  <2>5. CASE r.at = "resource" /\ s # Failed
    <3>1. s.at # "testdata" /\ s.pc \in {"acquire", "done"}
      BY <1>1, <1>2, <2>5, EnsureKinds DEF After, Thread
    <3> HIDE DEF s, r
    <3>2. Elsewhere(s, b)
      BY <3>1 DEF Elsewhere, Refreshing
    <3> QED
      BY <3>2, ElsewhereFresh
  <2> QED
    BY <1>1, <1>2, <2>1, <2>2, <2>3, <2>4, <2>5 DEF After, Thread, Caches, Archives, Assets
<1> QED
  BY <1>6 DEF Leave, world, disk, b, d

(* A normal request copies the test cases: a whole directory is copied      *)
(* whole, as long as nobody else writes to it.                              *)
LEMMA CopyFresh ==
  ASSUME TypeInv, KindInv, FreshInv, NEW t \in Threads, "testdata" \notin overrun,
         GetMeta(t) \/ ListCases(t) \/ CopyCase(t) \/ CasesCopied(t)
  PROVE  /\ UNCHANGED <<backend, overrun, redis, dir>>
         /\ Fresh(th'[t], backend["testdata"], redis["testdata"], dir["testdata"])
<1> DEFINE b == backend["testdata"]
<1> DEFINE d == dir["testdata"]
<1> DEFINE r == th[t]
<1> DEFINE s == th'[t]
<1>1. /\ th \in [Threads -> Thread] /\ r \in Thread /\ Kinds(r)
      /\ Fresh(r, b, redis["testdata"], d)
  BY ThreadTypes DEF TypeInv, TypeOK, KindInv, FreshInv
<1>2. b \in Versions /\ d \in [Parts -> 0..MaxVersion] /\ r.since \in Versions
  BY <1>1, TestdataTypes DEF Thread
<1>3. UNCHANGED <<backend, overrun, redis, dir>>
  BY DEF GetMeta, ListCases, CopyCase, CasesCopied, world, disk
<1>4. Fresh(s, b, redis["testdata"], d)
  <2>1. CASE GetMeta(t)
    <3>1. /\ s.at = r.at /\ s.since = r.since /\ s.kind = r.kind /\ s.clean = r.clean
          /\ r.pc = "meta"
          /\ s.pc = IF r.stage = "trial" THEN "tlist" ELSE "list"
      BY <1>1, <2>1 DEF GetMeta, Is, Step, Thread
    <3> HIDE DEF s, r, b, d
    <3> QED
      BY <1>1, <3>1 DEF Fresh, Ensuring, Copying, Held, Refreshing
  <2>2. CASE ListCases(t)
    <3>1. /\ s.at = r.at /\ s.since = r.since /\ s.kind = r.kind /\ s.clean = r.clean
          /\ r.pc = "list" /\ s.pc = "copy" /\ s.todo = Cases(t)
      BY <1>1, <2>2 DEF ListCases, Is, Thread
    <3>2. r.kind = "normal" => Cases(t) = {p \in Parts : d[p] # Absent}
      BY DEF Cases, Source
    <3> HIDE DEF s, r, b, d
    <3>3. ASSUME NEW v \in r.since..b, d = Whole(v), r.kind = "normal" PROVE s.todo = Parts
      BY <1>2, <3>1, <3>2, <3>3 DEF Whole, Absent, Versions
    <3>4. ASSUME r.kind = "normal", r.clean PROVE Copying(s, b, d)
      <4>1. PICK v \in r.since..b : d = Whole(v)
        BY <1>1, <3>1, <3>4 DEF Fresh, Copying, Held
      <4>2. s.todo = Parts
        BY <3>3, <3>4, <4>1
      <4> QED
        BY <3>1, <4>1, <4>2 DEF Copying
    <3> QED
      BY <1>1, <3>1, <3>4 DEF Fresh, Ensuring, Refreshing
  <2>3. CASE CopyCase(t)
    <3>1. PICK p \in r.todo :
            IF p \notin Cases(t) THEN th' = [th EXCEPT ![t] = Failed]
            ELSE th' = [th EXCEPT ![t].todo = @ \ {p}, ![t].copy[p] = Source(t)[p]]
      BY <2>3 DEF CopyCase
    <3>2. CASE p \notin Cases(t)
      <4>1. s = Failed
        BY <1>1, <3>1, <3>2
      <4>2. Elsewhere(Failed, b)
        BY <1>2 DEF Elsewhere, Refreshing, Failed, Asleep, Versions
      <4> QED
        BY <4>1, <4>2, ElsewhereFresh
    <3>3. CASE p \in Cases(t)
      <4>1. /\ s.at = r.at /\ s.since = r.since /\ s.kind = r.kind /\ s.clean = r.clean
            /\ r.pc = "copy" /\ s.pc = "copy" /\ s.todo = r.todo \ {p}
            /\ s.copy = [r.copy EXCEPT ![p] = Source(t)[p]]
        BY <1>1, <2>3, <3>1, <3>3 DEF CopyCase, Is, Thread
      <4>2. r.kind = "normal" => Source(t) = d
        BY DEF Source
      <4>3. r.copy \in [Parts -> 0..Torn]
        BY <1>1 DEF Thread
      <4> HIDE DEF s, r, b, d
      <4>4. ASSUME r.kind = "normal", r.clean PROVE Copying(s, b, d)
        <5>1. PICK v \in r.since..b : d = Whole(v) /\ \A q \in Parts \ r.todo : r.copy[q] = v
          BY <1>1, <4>1, <4>4 DEF Fresh, Copying
        <5>2. \A q \in Parts \ s.todo : s.copy[q] = v
          BY <4>1, <4>2, <4>3, <4>4, <5>1 DEF Whole
        <5> QED
          BY <4>1, <5>1, <5>2 DEF Copying
      <4> QED
        BY <1>1, <4>1, <4>4 DEF Fresh, Ensuring, Refreshing
    <3> QED
      BY <3>2, <3>3
  <2>4. CASE CasesCopied(t)
    <3>1. /\ s.at = r.at /\ s.since = r.since /\ s.kind = r.kind /\ s.clean = r.clean
          /\ r.pc = "copy" /\ s.pc = "copied" /\ r.todo = {} /\ s.copy = r.copy
          /\ r.copy \in [Parts -> 0..Torn]
      BY <1>1, <2>4 DEF CasesCopied, Is, Step, Thread
    <3> HIDE DEF s, r, b, d
    <3>2. ASSUME r.kind = "normal", r.clean PROVE Copying(s, b, d)
      <4>1. PICK v \in r.since..b : \A q \in Parts \ r.todo : r.copy[q] = v
        BY <1>1, <3>1, <3>2 DEF Fresh, Copying
      <4>2. s.copy = Whole(v)
        BY <3>1, <4>1 DEF Whole
      <4> QED
        BY <3>1, <4>2 DEF Copying
    <3> QED
      BY <1>1, <3>1, <3>2 DEF Fresh, Ensuring, Refreshing
  <2> QED
    BY <2>1, <2>2, <2>3, <2>4
<1> QED
  BY <1>3, <1>4

(* What is refreshed elsewhere leaves the test data alone.                  *)
LEMMA OtherCaches ==
  ASSUME TypeInv, NEW t \in Threads, th[t].pc \in Section,
         \/ /\ At(t) # "testdata"
            /\ \/ GetKey(t) \/ Compare(t) \/ CannotCompare(t) \/ Fetch(t)
               \/ ClearPart(t) \/ ClearExtracted(t) \/ ClearFolder(t) \/ ClearRaises(t)
               \/ ExtractPart(t) \/ FetchMeta(t) \/ Store(t) \/ Raise(t)
         \/ CompareFile(t) \/ NotConfigured(t) \/ Download(t)
         \/ OpenFile(t) \/ FillFile(t) \/ SumZip(t) \/ RemoveExtracted(t)
         \/ OpenZip(t) \/ UnzipPart(t) \/ UnzipFails(t) \/ StoreExtracted(t)
  PROVE  /\ At(t) # "testdata"
         /\ UNCHANGED <<redis["testdata"], dir["testdata"]>>
<1>1. Placed(th[t]) /\ At(t) = th[t].at
  BY ThreadTypes DEF At
<1>2. redis \in [Archives -> Key] /\ dir \in [Archives -> [Parts -> 0..MaxVersion]]
  BY DEF TypeInv, TypeOK
<1>3. At(t) # "testdata"
  BY <1>1 DEF Placed, Comparing, Unpacking, Archives, Assets, Is, CompareFile,
     NotConfigured, Download, OpenFile, FillFile, SumZip, RemoveExtracted,
     OpenZip, UnzipPart, UnzipFails, StoreExtracted
<1>4. CASE \/ GetKey(t) \/ Compare(t) \/ CannotCompare(t) \/ Fetch(t)
           \/ ClearFolder(t) \/ ClearRaises(t) \/ FetchMeta(t) \/ Raise(t)
  BY <1>3, <1>4 DEF GetKey, Compare, CannotCompare, Fetch, ClearFolder, ClearRaises,
     FetchMeta, Raise, disk
<1>5. CASE ClearPart(t) \/ ClearExtracted(t)
  BY <1>2, <1>3, <1>5 DEF ClearPart, ClearExtracted, Archives
<1>6. CASE ExtractPart(t)
  BY <1>2, <1>3, <1>6 DEF ExtractPart, Archives
<1>7. CASE Store(t)
  BY <1>2, <1>3, <1>7 DEF Store, Archives, disk
<1>8. CASE \/ CompareFile(t) \/ NotConfigured(t) \/ Download(t)
           \/ OpenFile(t) \/ FillFile(t) \/ SumZip(t) \/ OpenZip(t) \/ UnzipFails(t)
  BY <1>3, <1>8 DEF CompareFile, NotConfigured, Download, OpenFile, FillFile, SumZip,
     OpenZip, UnzipFails, disk
<1>9. CASE RemoveExtracted(t) \/ UnzipPart(t)
  BY <1>2, <1>3, <1>9 DEF RemoveExtracted, UnzipPart, Archives
<1>10. CASE StoreExtracted(t)
  BY <1>2, <1>3, <1>10 DEF StoreExtracted, Archives, disk
<1> QED
  BY <1>3, <1>4, <1>5, <1>6, <1>7, <1>8, <1>9, <1>10

-----------------------------------------------------------------------------
(* A cached checksum that expires only makes the next refresh do more.      *)
LEMMA ExpireKeyFresh ==
  ASSUME TypeInv, FreshInv, NEW c \in Archives, ExpireKey(c)
  PROVE  FreshInv'
<1> DEFINE b == backend["testdata"]
<1> DEFINE red == redis["testdata"]
<1> DEFINE d == dir["testdata"]
<1>1. UNCHANGED <<b, d, th, overrun>>
  BY DEF ExpireKey, world, disk
<1>2. red' = red \/ red' = NoKey
  BY DEF ExpireKey, TypeInv, TypeOK, Archives
<1>3. b \in Versions
  BY TestdataTypes
<1>4. NoKey # <<b, b>> /\ NoKey[1] <= b /\ NoKey[2] <= b
  BY <1>3 DEF NoKey, Versions
<1> SUFFICES ASSUME "testdata" \notin overrun
             PROVE  Cached(b, red', d) /\ \A t \in Threads : Fresh(th[t], b, red', d)
  BY <1>1 DEF FreshInv
<1>5. Cached(b, red, d) /\ \A t \in Threads : Fresh(th[t], b, red, d)
  BY DEF FreshInv
<1> HIDE DEF b, red, d
<1>6. Cached(b, red', d)
  BY <1>2, <1>4, <1>5 DEF Cached
<1>7. ASSUME NEW t \in Threads PROVE Fresh(th[t], b, red', d)
  <2>1. Fresh(th[t], b, red, d)
    BY <1>5
  <2> QED
    BY <1>2, <1>4, <2>1 DEF Fresh, Ensuring
<1> QED
  BY <1>6, <1>7

(* A lock that expires under its holder ends the claims about its cache.    *)
LEMMA ExpireHeldFresh ==
  ASSUME TypeInv, FreshInv, NEW c \in Caches, ExpireHeld(c)
  PROVE  FreshInv'
<1>1. UNCHANGED <<backend, redis, dir>> /\ overrun \subseteq overrun'
  BY DEF ExpireHeld, world, disk
<1>2. \A u \in Threads : th'[u] \in {th[u], [th[u] EXCEPT !.late = TRUE]}
  BY DEF ExpireHeld, TypeInv, TypeOK
<1>3. ASSUME NEW u \in Threads, NEW b, NEW red, NEW d, Fresh(th[u], b, red, d)
      PROVE  Fresh(th'[u], b, red, d)
  <2> DEFINE r == th[u]
  <2> DEFINE s == th'[u]
  <2>1. /\ s.pc = r.pc /\ s.at = r.at /\ s.kind = r.kind /\ s.since = r.since
        /\ s.key = r.key /\ s.data = r.data /\ s.todo = r.todo /\ s.copy = r.copy
        /\ s.clean = r.clean
    BY <1>2, ThreadTypes DEF Thread
  <2>2. Fresh(r, b, red, d)
    BY <1>3
  <2> HIDE DEF r, s
  <2>3. Fresh(s, b, red, d)
    BY <2>1, <2>2 DEF Fresh, Ensuring, Copying, Held
  <2> QED
    BY <2>3 DEF s
<1> QED
  BY <1>1, <1>3 DEF FreshInv

(* A new version makes every checksum outdated, and no directory.           *)
LEMMA UpdateFresh ==
  ASSUME TypeInv, FreshInv, NEW i \in Items, Update(i)
  PROVE  FreshInv'
<1> DEFINE b == backend["testdata"]
<1> DEFINE red == redis["testdata"]
<1> DEFINE d == dir["testdata"]
<1>1. UNCHANGED <<red, d, th, overrun>>
  BY DEF Update, disk
<1>2. b' = b \/ b' = b + 1
  BY DEF Update, TypeInv, TypeOK, Items
<1>3. b \in Versions /\ red \in Key
  BY TestdataTypes
<1> SUFFICES ASSUME "testdata" \notin overrun, b' = b + 1
             PROVE  Cached(b', red, d) /\ \A t \in Threads : Fresh(th[t], b', red, d)
  BY <1>1, <1>2 DEF FreshInv
<1>4. Cached(b, red, d) /\ \A t \in Threads : Fresh(th[t], b, red, d)
  BY DEF FreshInv
<1> HIDE DEF b, red, d
<1>5. red # <<b', b'>> /\ red[1] <= b' /\ red[2] <= b'
  BY <1>3, <1>4 DEF Cached, Key, Versions
<1>6. Cached(b', red, d)
  BY <1>5 DEF Cached
<1>7. ASSUME NEW t \in Threads PROVE Fresh(th[t], b', red, d)
  <2> DEFINE r == th[t]
  <2>1. r \in Thread /\ Fresh(r, b, red, d)
    BY <1>4, ThreadTypes
  <2>2. r.since \in Versions /\ r.key \in Key /\ r.data \in 0..Torn
    BY <2>1 DEF Thread
  <2>3. r.since..b \subseteq r.since..b'
    BY <1>3, <2>2 DEF Versions
  <2> HIDE DEF r
  <2>4. ASSUME Held(r, b, d) PROVE Held(r, b', d)
    BY <2>3, <2>4 DEF Held
  <2>5. ASSUME Ensuring(r, b, red, d) PROVE Ensuring(r, b', red, d)
    <3>1. r.since <= b'
      BY <1>3, <2>2, <2>5 DEF Ensuring, Versions
    <3>2. r.pc = "compare" => r.key # <<b', b'>> /\ r.key[1] <= b' /\ r.key[2] <= b'
      BY <1>3, <2>2, <2>5 DEF Ensuring, Key, Versions
    <3>3. r.pc = "store" => r.key[2] <= b'
      BY <1>3, <2>2, <2>5 DEF Ensuring, Key, Versions
    <3> QED
      BY <1>5, <2>3, <2>4, <2>5, <3>1, <3>2, <3>3 DEF Ensuring
  <2>6. ASSUME Copying(r, b, d) PROVE Copying(r, b', d)
    <3>1. r.pc = "copy" => \E v \in r.since..b' : /\ d = Whole(v)
                                                  /\ \A p \in Parts \ r.todo : r.copy[p] = v
      BY <2>3, <2>6 DEF Copying
    <3>2. r.pc = "copied" => \E v \in r.since..b' : r.copy = Whole(v)
      BY <2>3, <2>6 DEF Copying
    <3> QED
      BY <2>4, <2>6, <3>1, <3>2 DEF Copying
  <2>7. Fresh(r, b', red, d)
    BY <2>1, <2>5, <2>6 DEF Fresh
  <2> QED
    BY <2>7 DEF r
<1> QED
  BY <1>6, <1>7

(* Threads that are gone know nothing; if one of them left the directory    *)
(* half cleared or half extracted, the checksum in Redis does not match.    *)
LEMMA AsleepFresh ==
  ASSUME NEW b \in Versions, NEW red, NEW d
  PROVE  Fresh(Asleep, b, red, d)
BY ElsewhereFresh DEF Elsewhere, Refreshing, Asleep, Versions

(* A restart loses the threads; the directory and its checksum remain       *)
(* consistent.                                                              *)
LEMMA CrashFresh ==
  ASSUME TypeInv, FreshInv, Crash
  PROVE  FreshInv'
<1>1. UNCHANGED <<backend, redis, dir, overrun>> /\ \A t \in Threads : th'[t] = Asleep
  BY DEF Crash, world, disk
<1> QED
  BY <1>1, AsleepFresh, TestdataTypes DEF FreshInv

(* Every step preserves freshness.                                          *)
LEMMA NextFresh ==
  TypeInv /\ LockInv /\ KindInv /\ FreshInv /\ [Next]_cvars => FreshInv'
<1> SUFFICES ASSUME TypeInv, LockInv, KindInv, FreshInv, [Next]_cvars
             PROVE  FreshInv'
  OBVIOUS
<1>1. CASE UNCHANGED cvars
  BY <1>1 DEF cvars, world, disk, FreshInv
<1>2. CASE Environment
  <2>1. ASSUME NEW t \in Threads, Submit(t) PROVE FreshInv'
    <3>1. Kept(t)
      BY <2>1, RequestTypes
    <3>2. UNCHANGED <<backend, overrun, redis, dir>>
      BY <2>1, BeginFresh
    <3>3. Fresh(th'[t], backend["testdata"], redis["testdata"], dir["testdata"])
      BY <2>1, BeginFresh
    <3> QED
      BY <3>1, <3>2, <3>3, FreshStep DEF FreshInv
  <2>2. ASSUME NEW t \in Threads, EndTrial(t) PROVE FreshInv'
    BY <2>2 DEF EndTrial, world, FreshInv
  <2>3. ASSUME NEW c \in Caches, ExpireLost(c) PROVE FreshInv'
    BY <2>3 DEF ExpireLost, world, disk, FreshInv
  <2> QED
    BY <1>2, <2>1, <2>2, <2>3, ExpireKeyFresh, ExpireHeldFresh, UpdateFresh, CrashFresh
       DEF Environment
<1>3. ASSUME NEW t \in Threads, Kept(t), UNCHANGED <<backend, overrun, redis, dir>>,
             "testdata" \notin overrun =>
               Fresh(th'[t], backend["testdata"], redis["testdata"], dir["testdata"])
      PROVE  FreshInv'
  BY <1>3, FreshStep DEF FreshInv
<1>4. ASSUME NEW t \in Threads, Refresh(t) PROVE FreshInv'
  <2>1. Kept(t)
    BY <1>4, ArchiveTypes, AssetTypes, RequestTypes DEF Refresh
  <2>2. CASE Leave(t)
    <3>1. UNCHANGED <<backend, overrun, redis, dir>>
      BY <2>2 DEF Leave, world, disk
    <3> QED
      BY <1>3, <2>1, <2>2, <3>1, LeaveFresh
  <2>3. CASE Acquire(t) \/ MakeFolder(t)
    <3>1. UNCHANGED <<backend, overrun, redis, dir>>
      BY <2>3 DEF Acquire, MakeFolder, world, disk
    <3> QED
      BY <1>3, <2>1, <2>3, <3>1, UseElsewhere, ElsewhereFresh
  <2>4. CASE ~(Leave(t) \/ Acquire(t) \/ MakeFolder(t))
    <3>1. /\ UNCHANGED overrun /\ th[t].pc \in Section /\ th'[t].pc \in Section
          /\ th'[t].at = th[t].at
      BY <1>4, <2>4, ArchiveSection, AssetSection DEF Refresh
    <3>2. UNCHANGED backend
      BY <1>4, <2>4 DEF Refresh, GetKey, Compare, CannotCompare, Fetch, ClearPart,
         ClearExtracted, ClearFolder, ClearRaises, ExtractPart, FetchMeta, Store, Raise,
         CompareFile, NotConfigured, Download, OpenFile, FillFile, SumZip,
         RemoveExtracted, OpenZip, UnzipPart, UnzipFails, StoreExtracted, world
    <3>3. CASE /\ At(t) = "testdata"
               /\ \/ GetKey(t) \/ Compare(t) \/ CannotCompare(t) \/ Fetch(t)
                  \/ ClearPart(t) \/ ClearExtracted(t) \/ ClearFolder(t) \/ ClearRaises(t)
                  \/ ExtractPart(t) \/ FetchMeta(t) \/ Store(t) \/ Raise(t)
      <4>1. CASE "testdata" \in overrun
        BY <3>1, <4>1 DEF FreshInv
      <4>2. CASE "testdata" \notin overrun
        BY <2>1, <3>1, <3>2, <3>3, <4>2, ArchiveFresh, FreshStep
      <4> QED
        BY <4>1, <4>2
    <3>4. CASE ~(/\ At(t) = "testdata"
                 /\ \/ GetKey(t) \/ Compare(t) \/ CannotCompare(t) \/ Fetch(t)
                    \/ ClearPart(t) \/ ClearExtracted(t) \/ ClearFolder(t) \/ ClearRaises(t)
                    \/ ExtractPart(t) \/ FetchMeta(t) \/ Store(t) \/ Raise(t))
      <4>1. At(t) # "testdata" /\ UNCHANGED <<redis["testdata"], dir["testdata"]>>
        BY <1>4, <2>4, <3>1, <3>4, OtherCaches DEF Refresh
      <4>2. \A b, red, d : Fresh(th'[t], b, red, d)
        BY <3>1, <4>1 DEF At, Fresh, Copying, Section
      <4> QED
        BY <2>1, <3>1, <3>2, <4>1, <4>2, FreshStep DEF FreshInv
    <3> QED
      BY <3>3, <3>4
  <2> QED
    BY <2>2, <2>3, <2>4
<1>5. ASSUME NEW t \in Threads, Use(t) PROVE FreshInv'
  <2>1. Kept(t)
    BY <1>5, RequestTypes, TrialTypes DEF Use
  <2>2. CASE GetMeta(t) \/ ListCases(t) \/ CopyCase(t) \/ CasesCopied(t)
    <3>1. UNCHANGED <<backend, overrun, redis, dir>>
      BY <2>2 DEF GetMeta, ListCases, CopyCase, CasesCopied, world, disk
    <3> QED
      BY <1>3, <2>1, <2>2, <3>1, CopyFresh
  <2>3. CASE ~(GetMeta(t) \/ ListCases(t) \/ CopyCase(t) \/ CasesCopied(t))
    <3>1. UNCHANGED <<backend, overrun, redis, dir>>
      BY <1>5, <2>3 DEF Use, NoMeta, FindInputs, DownloadCases, CopyInput, CompileAC,
         WriteOutput, OutputsWritten, Handle, TakeChecker, PrepareResource,
         ListResource, CopyResource, ResourceCopied, Answer, world, disk
    <3> QED
      BY <1>3, <1>5, <2>1, <2>3, <3>1, UseElsewhere, ElsewhereFresh DEF Use
  <2> QED
    BY <2>2, <2>3
<1> QED
  BY <1>1, <1>2, <1>4, <1>5 DEF Next, Idle, ThreadStep

(* The invariants hold at the start.                                        *)
LEMMA InitFresh ==
  ASSUME Init
  PROVE  KindInv /\ FreshInv
<1>1. TypeInv /\ \A t \in Threads : th[t] = Asleep
  BY InitTypes DEF Init
<1>2. Kinds(Asleep)
  BY DEF Kinds, Asleep
<1>3. redis["testdata"] = NoKey /\ backend["testdata"] = 1
  BY DEF Init, Archives, Items
<1>4. Cached(backend["testdata"], redis["testdata"], dir["testdata"])
  BY <1>3 DEF Cached, NoKey
<1> QED
  BY <1>1, <1>2, <1>4, AsleepFresh, TestdataTypes DEF KindInv, FreshInv

(* The test cases copied into a submission directory are one whole version  *)
(* of the test data, no older than the request, through every failed or     *)
(* crashed refresh, update and repeated request: unless a lock ran out      *)
(* under its holder or somebody wrote to the directory during the copy.     *)
THEOREM WholeCases == Spec => []FreshCases
<1> DEFINE Inv == TypeInv /\ LockInv /\ KindInv /\ FreshInv
<1>1. Init => Inv
  BY InitTypes, InitLocks, InitFresh
<1>2. Inv /\ [Next]_cvars => Inv'
  BY NextTypes, NextLocks, NextKinds, NextFresh
<1>3. Inv => FreshCases
  <2> SUFFICES ASSUME Inv, NEW t \in Threads, Is(t, "copied"), th[t].kind = "normal",
                      th[t].clean, "testdata" \notin overrun
               PROVE  FreshWhole(t)
    BY DEF FreshCases
  <2>1. PICK v \in th[t].since..backend["testdata"] : th[t].copy = Whole(v)
    BY DEF FreshInv, Fresh, Copying, Is
  <2>2. th[t].since \in Versions /\ backend["testdata"] \in Versions
    BY ThreadTypes, TestdataTypes DEF Thread
  <2>3. v \in Versions /\ v >= th[t].since
    BY <2>2, CacheAssumption DEF Versions
  <2> QED
    BY <2>1, <2>3 DEF FreshWhole
<1> QED
  BY <1>1, <1>2, <1>3, PTL DEF Spec

-----------------------------------------------------------------------------
(* The custom checker a submission is judged with.                          *)

(* What thread record r knows of the cached checker f, if the backend has   *)
(* version b of it.                                                         *)
Checking(r, b, f) ==
  r.at = "checker" =>
     /\ r.since <= b
     /\ r.pc \in {"write", "fill"} => r.data \in r.since..b
     /\ r.pc \in {"release", "take"} /\ r.clean => f = Absent \/ f \in r.since..b
     /\ r.pc = "taken" /\ r.clean => r.data = Absent \/ r.data \in r.since..b

CheckerInv == \A t \in Threads : Checking(th[t], backend["checker"], file["checker"])

(* A thread that has not begun with the checker, or is done with it.        *)
Away(r, b) ==
  r.at = "checker" =>
     r.since <= b /\ r.pc \notin {"write", "fill", "release", "take", "taken"}

-----------------------------------------------------------------------------
(* A thread that is away from the checker claims nothing of it.             *)
LEMMA AwayChecks ==
  ASSUME NEW r, NEW b, NEW f, Away(r, b)
  PROVE  Checking(r, b, f)
BY DEF Away, Checking

(* The types of the two values the proof compares.                          *)
LEMMA CheckerTypes ==
  ASSUME TypeInv
  PROVE  backend["checker"] \in Versions /\ file["checker"] \in 0..Torn
BY DEF TypeInv, TypeOK, Items, Assets

(* The others notice when the file is written.                              *)
LEMMA CheckerStep ==
  ASSUME TypeInv, CheckerInv, NEW t \in Threads, Kept(t), UNCHANGED backend,
         \/ UNCHANGED file["checker"]
         \/ \A u \in Threads \ {t} : At(u) = "checker" => ~th'[u].clean,
         Checking(th'[t], backend["checker"], file'["checker"])
  PROVE  CheckerInv'
<1> DEFINE b == backend["checker"]
<1> DEFINE f == file["checker"]
<1> SUFFICES ASSUME NEW u \in Threads \ {t}
             PROVE  Checking(th'[u], b, f')
  BY DEF CheckerInv
<1> DEFINE r == th[u]
<1> DEFINE s == th'[u]
<1>1. r \in Thread /\ Checking(r, b, f)
  BY ThreadTypes DEF CheckerInv
<1>2. s = r \/ s = [r EXCEPT !.clean = FALSE]
  BY DEF Kept
<1>3. f' = f \/ (r.at = "checker" => ~s.clean)
  BY DEF At
<1> HIDE DEF b, f, r, s
<1>4. /\ s.pc = r.pc /\ s.at = r.at /\ s.since = r.since /\ s.data = r.data
      /\ s.clean => r.clean
  BY <1>1, <1>2 DEF Thread
<1>5. Checking(s, b, f')
  BY <1>1, <1>3, <1>4 DEF Checking
<1> QED
  BY <1>5 DEF s, b, f

(* The steps that neither touch nor rely on the cached checker.             *)
LEMMA SectionAway ==
  ASSUME TypeInv, NEW t \in Threads,
         \/ GetKey(t) \/ Compare(t) \/ CannotCompare(t) \/ Fetch(t)
         \/ ClearPart(t) \/ ClearExtracted(t) \/ ClearRaises(t)
         \/ ExtractPart(t) \/ FetchMeta(t) \/ Store(t) \/ SumZip(t)
         \/ RemoveExtracted(t) \/ OpenZip(t) \/ UnzipPart(t)
         \/ UnzipFails(t) \/ StoreExtracted(t)
  PROVE  UNCHANGED <<backend, file>> /\ Away(th'[t], backend["checker"])
<1>1. th[t].at # "checker"
  BY ThreadTypes DEF Placed, Fetching, Unpacking, Archives, Is, GetKey,
     Compare, CannotCompare, Fetch, ClearPart, ClearExtracted, ClearRaises,
     ExtractPart, FetchMeta, Store, SumZip, RemoveExtracted, OpenZip,
     UnzipPart, UnzipFails, StoreExtracted
<1>2. th'[t].at = th[t].at
  BY ArchiveSection, AssetSection
<1>3. UNCHANGED <<backend, file>>
  BY DEF world, disk, GetKey, Compare, CannotCompare, Fetch, ClearPart,
     ClearExtracted, ClearRaises, ExtractPart, FetchMeta, Store, SumZip,
     RemoveExtracted, OpenZip, UnzipPart, UnzipFails, StoreExtracted
<1> QED
  BY <1>1, <1>2, <1>3 DEF Away

(* The steps of a request that neither touch nor rely on the cached         *)
(* checker.                                                                 *)
LEMMA RequestAway ==
  ASSUME TypeInv, CheckerInv, NEW t \in Threads,
         \/ Raise(t) \/ NotConfigured(t) \/ Acquire(t) \/ MakeFolder(t)
         \/ GetMeta(t) \/ NoMeta(t) \/ ListCases(t) \/ CopyCase(t)
         \/ CasesCopied(t) \/ FindInputs(t) \/ DownloadCases(t)
         \/ CopyInput(t) \/ CompileAC(t) \/ WriteOutput(t)
         \/ OutputsWritten(t) \/ Handle(t) \/ PrepareResource(t)
         \/ ListResource(t) \/ CopyResource(t) \/ ResourceCopied(t)
         \/ Answer(t)
  PROVE  UNCHANGED <<backend, file>> /\ Away(th'[t], backend["checker"])
<1> DEFINE b == backend["checker"]
<1> DEFINE r == th[t]
<1>1. /\ th \in [Threads -> Thread] /\ r \in Thread
      /\ r.at = "checker" => r.since <= b
  BY DEF TypeInv, TypeOK, CheckerInv, Checking
<1>2. b \in Versions /\ b <= b
  BY CheckerTypes DEF Versions
<1>3. \A c, pc : LET new == Ensure(r, c, pc)
                 IN /\ new.pc = pc /\ new.at = c
                    /\ new.since = IF c = "extracted" THEN r.since ELSE backend[c]
  BY <1>1, EnsureKinds
<1>4. CASE Raise(t)
  BY <1>1, <1>2, <1>3, <1>4 DEF Raise, Is, Step, Thread, Away, world, disk
<1>5. CASE NotConfigured(t)
  BY <1>1, <1>2, <1>3, <1>5 DEF NotConfigured, Is, Step, Thread, Away, world,
     disk
<1>6. CASE Acquire(t)
  BY <1>1, <1>2, <1>3, <1>6 DEF Acquire, Is, Step, Thread, Away, world, disk
<1>7. CASE MakeFolder(t)
  BY <1>1, <1>2, <1>3, <1>7 DEF MakeFolder, Is, Step, Thread, Away, world,
     disk
<1>8. CASE GetMeta(t)
  BY <1>1, <1>2, <1>3, <1>8 DEF GetMeta, Is, Step, Thread, Away, world, disk
<1>9. CASE NoMeta(t)
  BY <1>1, <1>2, <1>3, <1>9 DEF NoMeta, Is, Step, Thread, Away, world, disk,
     Failed, Asleep
<1>10. CASE ListCases(t)
  BY <1>1, <1>2, <1>3, <1>10 DEF ListCases, Is, Step, Thread, Away, world,
     disk
<1>11. CASE CopyCase(t)
  <2>1. UNCHANGED <<backend, file>>
    BY <1>11 DEF CopyCase, world, disk
  <2>2. PICK p \in th[t].todo :
          th' = IF p \notin Cases(t) THEN [th EXCEPT ![t] = Failed]
                ELSE [th EXCEPT ![t].todo = @ \ {p}, ![t].copy[p] = Source(t)[p]]
    BY <1>11 DEF CopyCase
  <2>3. \/ th'[t] = Failed
        \/ th'[t].at = th[t].at /\ th'[t].pc = th[t].pc /\ th'[t].since = th[t].since
    BY <1>1, <2>2 DEF Thread
  <2>4. th[t].pc = "copy" /\ Failed.at # "checker"
    BY <1>11 DEF CopyCase, Is, Failed, Asleep
  <2> QED
    BY <1>1, <2>1, <2>3, <2>4 DEF Away
<1>12. CASE CasesCopied(t)
  BY <1>1, <1>2, <1>3, <1>12 DEF CasesCopied, Is, Step, Thread, Away, world,
     disk
<1>13. CASE FindInputs(t)
  BY <1>1, <1>2, <1>3, <1>13 DEF FindInputs, Is, Step, Thread, Away, world,
     disk
<1>14. CASE DownloadCases(t)
  BY <1>1, <1>2, <1>3, <1>14 DEF DownloadCases, Is, Step, Thread, Away, world,
     disk, Failed, Asleep
<1>15. CASE CopyInput(t)
  BY <1>1, <1>2, <1>3, <1>15 DEF CopyInput, Is, Step, Thread, Away, world,
     disk
<1>16. CASE CompileAC(t)
  BY <1>1, <1>2, <1>3, <1>16 DEF CompileAC, Is, Step, Thread, Away, world,
     disk, Failed, Asleep
<1>17. CASE WriteOutput(t)
  BY <1>1, <1>2, <1>3, <1>17 DEF WriteOutput, Is, Step, Thread, Away, world,
     disk
<1>18. CASE OutputsWritten(t)
  BY <1>1, <1>2, <1>3, <1>18 DEF OutputsWritten, Is, Step, Thread, Away,
     world, disk
<1>19. CASE Handle(t)
  BY <1>1, <1>2, <1>3, <1>19 DEF Handle, Is, Step, Thread, Away, world, disk,
     Resource
<1>20. CASE PrepareResource(t)
  BY <1>1, <1>2, <1>3, <1>20 DEF PrepareResource, Is, Step, Thread, Away,
     world, disk, Resource
<1>21. CASE ListResource(t)
  BY <1>1, <1>2, <1>3, <1>21 DEF ListResource, Is, Step, Thread, Away, world,
     disk
<1>22. CASE CopyResource(t)
  BY SMTT(30), <1>1, <1>2, <1>3, <1>22 DEF CopyResource, Is, Step, Thread, Away, world,
     disk, Failed, Asleep
<1>23. CASE ResourceCopied(t)
  BY <1>1, <1>2, <1>3, <1>23 DEF ResourceCopied, Is, Step, Thread, Away,
     world, disk
<1>24. CASE Answer(t)
  BY <1>1, <1>2, <1>3, <1>24 DEF Answer, Is, Step, Thread, Away, world, disk,
     Asleep
<1> QED
  BY <1>4, <1>5, <1>6, <1>7, <1>8, <1>9, <1>10, <1>11, <1>12, <1>13, <1>14,
     <1>15, <1>16, <1>17, <1>18, <1>19, <1>20, <1>21, <1>22, <1>23, <1>24

-----------------------------------------------------------------------------
(* The steps that do.                                                       *)
LEMMA OwnChecker ==
  ASSUME TypeInv, KindInv, CheckerInv, NEW t \in Threads,
         CompareFile(t) \/ Download(t) \/ OpenFile(t) \/ FillFile(t) \/ TakeChecker(t)
  PROVE  /\ UNCHANGED backend
         /\ Checking(th'[t], backend["checker"], file'["checker"])
         /\ \/ UNCHANGED file["checker"]
            \/ \A u \in Threads \ {t} : At(u) = "checker" => ~th'[u].clean
<1> DEFINE b == backend["checker"]
<1> DEFINE f == file["checker"]
<1> DEFINE r == th[t]
<1> DEFINE s == th'[t]
<1>1. /\ th \in [Threads -> Thread] /\ r \in Thread /\ Checking(r, b, f) /\ Kinds(r)
      /\ file \in [Assets -> 0..Torn]
  BY DEF TypeInv, TypeOK, CheckerInv, KindInv
<1>2. b \in Versions /\ f \in 0..Torn /\ r.since \in Versions
  BY <1>1, CheckerTypes DEF Thread
<1>3. UNCHANGED backend
  BY DEF CompareFile, Download, OpenFile, FillFile, TakeChecker, world
<1>4. ASSUME NEW C, "checker" \in C, NEW q, th' = [Touch(t, C) EXCEPT ![t] = q]
      PROVE  \A u \in Threads \ {t} : At(u) = "checker" => ~th'[u].clean
  <2>1. \A u \in Threads \ {t} : th'[u] = Touch(t, C)[u]
    BY <1>4, TouchType
  <2> QED
    BY <1>1, <1>4, <2>1 DEF Touch, Thread
<1>5. CASE CompareFile(t)
  <2>1. /\ s.pc = IF file[r.at] = backend[r.at] THEN "release" ELSE "download"
        /\ s.at = r.at /\ s.since = r.since /\ f' = f
    BY <1>1, <1>5 DEF CompareFile, Step, At, Thread, disk
  <2>2. r.at = "checker" => file[r.at] = f /\ backend[r.at] = b
    OBVIOUS
  <2>3. Checking(s, b, f')
    <3> HIDE DEF b, f, r, s
    <3> QED
      BY <1>1, <1>2, <2>1, <2>2 DEF Checking, Versions
  <2> QED
    BY <1>3, <2>1, <2>3
<1>6. CASE Download(t)
  <2>1. /\ s.pc = "write" /\ s.data = backend[r.at]
        /\ s.at = r.at /\ s.since = r.since /\ f' = f
    BY <1>1, <1>6 DEF Download, At, Thread, disk
  <2>2. r.at = "checker" => backend[r.at] = b
    OBVIOUS
  <2>3. Checking(s, b, f')
    <3> HIDE DEF b, f, r, s
    <3> QED
      BY <1>1, <1>2, <2>1, <2>2 DEF Checking, Versions
  <2> QED
    BY <1>3, <2>1, <2>3
<1>7. CASE OpenFile(t)
  <2>1. CASE At(t) \in folders
    <3>1. /\ file' = [file EXCEPT ![At(t)] = Torn]
          /\ th' = [Touch(t, Relying(At(t))) EXCEPT ![t].pc = "fill"]
          /\ r.pc = "write"
      BY <1>7, <2>1 DEF OpenFile, Is
    <3>2. th' = [Touch(t, Relying(At(t))) EXCEPT ![t] = [r EXCEPT !.pc = "fill"]]
      BY <3>1, TouchType
    <3>3. s = [r EXCEPT !.pc = "fill"]
      BY <3>2, TouchType
    <3>4. s.pc = "fill" /\ s.at = r.at /\ s.since = r.since /\ s.data = r.data
      BY <1>1, <3>3 DEF Thread
    <3>5. Checking(s, b, f')
      <4> HIDE DEF b, f, r, s
      <4> QED
        BY <1>1, <3>1, <3>4 DEF Checking, r
    <3>6. CASE At(t) = "checker"
      <4>1. "checker" \in Relying(At(t))
        BY <3>6 DEF Relying
      <4> QED
        BY <1>3, <1>4, <3>2, <3>5, <4>1
    <3>7. CASE At(t) # "checker"
      <4>1. f' = f
        BY <1>1, <3>1, <3>7 DEF Assets
      <4> QED
        BY <1>3, <3>5, <4>1
    <3> QED
      BY <3>6, <3>7
  <2>2. CASE At(t) \notin folders
    <3>1. s.pc = "unwind" /\ s.at = r.at /\ s.since = r.since /\ f' = f
      BY <1>1, <1>7, <2>2 DEF OpenFile, Step, Thread
    <3>2. Checking(s, b, f')
      <4> HIDE DEF b, f, r, s
      <4> QED
        BY <1>1, <3>1 DEF Checking
    <3> QED
      BY <1>3, <3>1, <3>2
  <2> QED
    BY <2>1, <2>2
<1>8. CASE FillFile(t)
  <2>1. /\ file' = [file EXCEPT ![At(t)] = IF @ = Absent THEN Absent ELSE th[t].data]
        /\ th' = [Touch(t, Relying(At(t))) EXCEPT ![t].pc = "release"]
        /\ r.pc = "fill"
    BY <1>8 DEF FillFile, Is
  <2>2. th' = [Touch(t, Relying(At(t))) EXCEPT ![t] = [r EXCEPT !.pc = "release"]]
    BY <2>1, TouchType
  <2>3. s = [r EXCEPT !.pc = "release"]
    BY <2>2, TouchType
  <2>4. s.pc = "release" /\ s.at = r.at /\ s.since = r.since /\ s.data = r.data
    BY <1>1, <2>3 DEF Thread
  <2>5. CASE At(t) = "checker"
    <3>1. "checker" \in Relying(At(t))
      BY <2>5 DEF Relying
    <3>2. f' = Absent \/ f' = r.data
      BY <1>1, <2>1, <2>5 DEF Assets
    <3>3. r.data \in r.since..b
      BY <1>1, <2>1, <2>5 DEF Checking, At
    <3>4. Checking(s, b, f')
      <4> HIDE DEF b, f, r, s
      <4> QED
        BY <1>1, <2>4, <3>2, <3>3 DEF Checking
    <3> QED
      BY <1>3, <1>4, <2>2, <3>1, <3>4
  <2>6. CASE At(t) # "checker"
    <3>1. f' = f
      BY <1>1, <2>1, <2>6 DEF Assets
    <3> QED
      BY <1>3, <2>4, <2>6, <3>1 DEF Checking, At
  <2> QED
    BY <2>5, <2>6
<1>9. CASE TakeChecker(t)
  <2>1. /\ s.pc = "taken" /\ s.data = f /\ r.pc = "take" /\ s.at = r.at
        /\ s.since = r.since /\ s.clean = r.clean /\ f' = f
    BY <1>1, <1>9 DEF TakeChecker, Is, Thread, disk
  <2>2. Checking(s, b, f')
    <3> HIDE DEF b, f, r, s
    <3> QED
      BY <1>1, <2>1 DEF Checking
  <2> QED
    BY <1>3, <2>1, <2>2
<1> QED
  BY <1>5, <1>6, <1>7, <1>8, <1>9

(* Clearing the test data removes the checker; whoever relies on it notices.*)
LEMMA FolderChecker ==
  ASSUME TypeInv, NEW t \in Threads, ClearFolder(t)
  PROVE  /\ UNCHANGED backend /\ Away(th'[t], backend["checker"])
         /\ \/ UNCHANGED file["checker"]
            \/ \A u \in Threads \ {t} : At(u) = "checker" => ~th'[u].clean
<1>1. th[t].at # "checker" /\ th'[t].at = th[t].at
  BY ThreadTypes, ArchiveSection DEF ClearFolder, Is, Placed, Fetching, Archives
<1>2. UNCHANGED backend
  BY DEF ClearFolder, world
<1>3. PICK a \in th[t].todo \cap folders :
        /\ file' = [file EXCEPT ![a] = Absent]
        /\ th' = [Touch(t, {a, IF a = "resource" THEN "extracted" ELSE a})
                    EXCEPT ![t] = Cleared(@, @.todo \ {a})]
  BY DEF ClearFolder
<1>4. CASE a = "checker"
  <2> DEFINE C == {a, IF a = "resource" THEN "extracted" ELSE a}
  <2>1. \A u \in Threads \ {t} : th'[u] = Touch(t, C)[u]
    BY <1>3, TouchType
  <2>2. \A u \in Threads : th[u] \in Thread
    BY ThreadTypes
  <2> QED
    BY ZenonT(30), <1>1, <1>2, <1>4, <2>1, <2>2 DEF Touch, Thread, Away
<1>5. CASE a # "checker"
  BY <1>1, <1>2, <1>3, <1>5 DEF TypeInv, TypeOK, Assets, Away
<1> QED
  BY <1>4, <1>5

(* Leaving a with-block: a checker just refreshed is taken next.            *)
LEMMA LeaveChecker ==
  ASSUME TypeInv, CheckerInv, NEW t \in Threads, Leave(t)
  PROVE  /\ UNCHANGED <<backend, file>>
         /\ Checking(th'[t], backend["checker"], file["checker"])
<1> DEFINE b == backend["checker"]
<1> DEFINE f == file["checker"]
<1> DEFINE r == th[t]
<1> DEFINE out == Outcome(t)
<1> DEFINE s == th'[t]
<1>1. r \in Thread /\ Checking(r, b, f) /\ r.pc \in {"release", "none", "unwind"}
  BY ThreadTypes DEF CheckerInv, Leave
<1>2. s = After(r, out) /\ out \in {"ok", "none", "raise"}
      /\ (out = "ok" => r.pc = "release")
  BY <1>1 DEF Leave, TypeInv, TypeOK, Outcome, Is
<1>3. Failed.at # "checker"
  BY DEF Failed, Asleep
<1>4. UNCHANGED <<backend, file>>
  BY DEF Leave, world, disk
<1> HIDE DEF b, f, out
<1>5. Checking(s, b, f)
  <2>1. CASE r.at = "checker" /\ r.stage = "trial"
    <3>1. s.pc = "meta" /\ s.since = r.since /\ s.at = r.at
      BY <1>1, <1>2, <2>1 DEF After, Thread
    <3> HIDE DEF r, s
    <3> QED
      BY <1>1, <2>1, <3>1 DEF Checking
  <2>2. CASE r.at = "checker" /\ r.stage # "trial"
    <3>1. /\ s.pc = IF out = "ok" THEN "take" ELSE "taken"
          /\ s.since = r.since /\ s.at = r.at /\ s.data = Absent /\ s.clean = r.clean
      BY <1>1, <1>2, <2>2 DEF After, Thread
    <3> HIDE DEF r, s
    <3> QED
      BY <1>1, <1>2, <2>2, <3>1 DEF Checking
  <2>3. CASE r.at \notin {"checker", "resource"}
    <3>1. s.at # "checker"
      <4>1. r.at \in {"testdata", "public", "accode", "extracted"}
        BY <1>1, <2>3 DEF Thread, Caches, Archives, Assets
      <4>2. After(r, out) \in {Failed, [r EXCEPT !.pc = s.pc]}
        BY <1>1, <1>2, <4>1 DEF After, Thread
      <4> QED
        BY <1>1, <1>2, <1>3, <2>3, <4>2 DEF Thread
    <3> QED
      BY <3>1 DEF Checking
  <2>4. CASE r.at = "resource"
    <3>1. s.at # "checker"
      BY <1>1, <1>2, <1>3, <2>4, EnsureKinds DEF After, Thread
    <3> QED
      BY <3>1 DEF Checking
  <2> QED
    BY <2>1, <2>2, <2>3, <2>4
<1> QED
  BY <1>4, <1>5 DEF b, f

(* Every step preserves what the threads know of the checker.               *)
LEMMA NextChecker == TypeInv /\ KindInv /\ CheckerInv /\ [Next]_cvars => CheckerInv'
<1> SUFFICES ASSUME TypeInv, KindInv, CheckerInv, [Next]_cvars
             PROVE  CheckerInv'
  OBVIOUS
<1> DEFINE b == backend["checker"]
<1> DEFINE f == file["checker"]
<1>1. ASSUME NEW t \in Threads, Kept(t), UNCHANGED <<backend, file>>, Checking(th'[t], b, f)
      PROVE  CheckerInv'
  BY <1>1, CheckerStep
<1>2. CASE UNCHANGED cvars
  BY <1>2 DEF cvars, world, disk, CheckerInv
<1>3. CASE Environment
  <2>1. ASSUME NEW t \in Threads, Submit(t) PROVE CheckerInv'
    <3>1. PICK k \in {"normal", "public", "custom"} : th' = [th EXCEPT ![t] = Begin(t, k)]
      BY <2>1, SubmitBegins
    <3>2. th'[t].at # "checker"
      BY <3>1, BeginKinds DEF TypeInv, TypeOK
    <3>3. Kept(t) /\ UNCHANGED <<backend, file>>
      BY <2>1, RequestTypes DEF Submit, disk
    <3> QED
      BY <1>1, <3>2, <3>3 DEF Checking
  <2>2. ASSUME NEW c \in Caches, ExpireHeld(c) PROVE CheckerInv'
    <3>1. \A u \in Threads : th'[u] \in {th[u], [th[u] EXCEPT !.late = TRUE]}
      BY <2>2 DEF ExpireHeld, TypeInv, TypeOK
    <3>2. UNCHANGED <<backend, file>>
      BY <2>2 DEF ExpireHeld, world, disk
    <3>3. ASSUME NEW u \in Threads
          PROVE  /\ th'[u].pc = th[u].pc /\ th'[u].at = th[u].at
                 /\ th'[u].since = th[u].since /\ th'[u].data = th[u].data
                 /\ th'[u].clean = th[u].clean
      BY <3>1, ThreadTypes DEF Thread
    <3> QED
      BY <3>2, <3>3 DEF CheckerInv, Checking
  <2>3. CASE Crash
    BY <2>3 DEF Crash, CheckerInv, Checking, Asleep
  <2>4. ASSUME NEW i \in Items, Update(i) PROVE CheckerInv'
    <3>1. UNCHANGED <<th, file>> /\ (b' = b \/ b' = b + 1)
      BY <2>4 DEF Update, disk, TypeInv, TypeOK, Items
    <3>2. b \in Versions
      BY CheckerTypes
    <3>3. ASSUME NEW t \in Threads PROVE Checking(th[t], b', f)
      <4> DEFINE r == th[t]
      <4>1. Checking(r, b, f) /\ r.since \in Versions
        BY ThreadTypes DEF CheckerInv, Thread
      <4> HIDE DEF r, b, f
      <4>2. r.since..b \subseteq r.since..b' /\ (r.since <= b => r.since <= b')
        BY <3>1, <3>2, <4>1 DEF Versions
      <4>3. Checking(r, b', f)
        BY <4>1, <4>2 DEF Checking
      <4> QED
        BY <4>3 DEF r
    <3> QED
      BY <3>1, <3>3 DEF CheckerInv
  <2>5. CASE \/ \E t \in Threads : EndTrial(t)
             \/ \E c \in Archives : ExpireKey(c)
             \/ \E c \in Caches : ExpireLost(c)
    BY <2>5 DEF EndTrial, ExpireKey, ExpireLost, world, disk, CheckerInv
  <2> QED
    BY <1>3, <2>1, <2>2, <2>3, <2>4, <2>5 DEF Environment
<1>4. ASSUME NEW t \in Threads, Refresh(t) \/ Use(t) PROVE CheckerInv'
  <2>1. Kept(t)
    BY <1>4, ArchiveTypes, AssetTypes, RequestTypes, TrialTypes DEF Refresh, Use
  <2>2. CASE CompareFile(t) \/ Download(t) \/ OpenFile(t) \/ FillFile(t) \/ TakeChecker(t)
    BY <2>1, <2>2, OwnChecker, CheckerStep
  <2>3. CASE ClearFolder(t)
    BY <2>1, <2>3, FolderChecker, AwayChecks, CheckerStep
  <2>4. CASE Leave(t)
    BY <1>1, <2>1, <2>4, LeaveChecker
  <2>5. CASE ~(\/ CompareFile(t) \/ Download(t) \/ OpenFile(t) \/ FillFile(t)
               \/ TakeChecker(t) \/ ClearFolder(t) \/ Leave(t))
    <3>1. UNCHANGED <<backend, file>> /\ Away(th'[t], b)
      BY <1>4, <2>5, SectionAway, RequestAway DEF Refresh, Use
    <3> QED
      BY <1>1, <2>1, <3>1, AwayChecks
  <2> QED
    BY <2>2, <2>3, <2>4, <2>5
<1> QED
  BY <1>2, <1>3, <1>4 DEF Next, Idle, ThreadStep

(* The checker a submission is judged with is the backend's, whole and no   *)
(* older than the request, or its absence is noted: unless somebody wrote   *)
(* to the cached file meanwhile.                                            *)
THEOREM CheckerIsCurrent == Spec => []CheckerCurrent
<1> DEFINE Inv == TypeInv /\ KindInv /\ CheckerInv
<1>1. Init => Inv
  <2> SUFFICES ASSUME Init PROVE CheckerInv
    BY InitTypes, InitFresh
  <2> QED
    BY DEF Init, CheckerInv, Checking, Asleep
<1>2. Inv /\ [Next]_cvars => Inv'
  BY NextTypes, NextKinds, NextChecker
<1>3. Inv => CheckerCurrent
  <2> SUFFICES ASSUME Inv, NEW t \in Threads, Is(t, "taken"), th[t].clean
               PROVE  th[t].data = Absent \/ th[t].data \in th[t].since..MaxVersion
    BY DEF CheckerCurrent
  <2>1. th[t].at = "checker"
    BY DEF KindInv, Kinds, Is
  <2>2. th[t].data = Absent \/ th[t].data \in th[t].since..backend["checker"]
    BY <2>1 DEF CheckerInv, Checking, Is
  <2>3. backend["checker"] \in Versions /\ th[t].since \in Versions
    BY CheckerTypes, ThreadTypes DEF Thread
  <2> QED
    BY <2>2, <2>3, CacheAssumption DEF Versions
<1> QED
  BY <1>1, <1>2, <1>3, PTL DEF Spec

-----------------------------------------------------------------------------
(* A thread that has written part of a new version to its directory, or has *)
(* yet to store the checksum of it.                                         *)
Filling(r) ==
  \/ r.pc \in {"fmeta", "store", "storeext"}
  \/ r.pc \in {"extract", "unzip"} /\ r.todo # Parts

(* The other users of the directory know by then that it was written to: an *)
(* undisturbed one is still waiting for the lock.                           *)
Noticed(r, s) ==
  (Filling(r) /\ s.at = r.at /\ s.clean) => s.pc = "acquire"

NoticedInv ==
  \A t \in Threads : \A u \in Threads \ {t} :
    At(t) \in Archives \ ({"testdata"} \cup overrun) => Noticed(th[t], th[u])

-----------------------------------------------------------------------------
(* What the steps outside the with-blocks do to a thread's record: go on    *)
(* with the same cache, begin with another, or end the request.             *)
Stays(r, s) ==
  s.at = r.at /\ s.since = r.since /\ s.clean = r.clean /\ s.kind = r.kind

Keeps(r, s) == Stays(r, s) /\ s.stage = r.stage /\ s.copy = r.copy

Begun(s, c, pc) ==
  s.at = c /\ s.pc = pc /\ s.since = backend[c] /\ s.clean /\ s.copy = Nothing

(* One more file of those in found is copied from d.                        *)
Copies(r, s, found, d) ==
  \E p \in r.todo : /\ p \in found /\ s.todo = r.todo \ {p}
                    /\ s.copy = [r.copy EXCEPT ![p] = d[p]]

Gone(s) == s.at = "testdata" /\ s.pc \in {"idle", "failed"}

LEMMA EnsureBegins ==
  ASSUME NEW r \in Thread, NEW c \in Caches \ {"extracted"}, NEW pc,
         NEW s, s = Ensure(r, c, pc)
  PROVE  Begun(s, c, pc) /\ s.kind = r.kind /\ s.stage = r.stage
BY DEF Ensure, Thread, Begun

LEMMA FailedGone == Gone(Failed) /\ Gone(Asleep)
BY DEF Gone, Failed, Asleep

(* The steps up to the copy of the test cases.                              *)
LEMMA CaseSteps ==
  ASSUME TypeInv, NEW t \in Threads, NEW r, r = th[t], NEW s, s = th'[t]
  PROVE  /\ Acquire(t) => /\ r.pc = "acquire" /\ Keeps(r, s) /\ locks[r.at] = Nobody
                          /\ s.pc \in {"zipsum", "checksum", "getkey"}
         /\ MakeFolder(t) => r.pc = "mkdir" /\ Keeps(r, s) /\ s.pc = "acquire"
         /\ GetMeta(t) => /\ r.pc = "meta" /\ Keeps(r, s)
                          /\ s.pc = IF r.stage = "trial" THEN "tlist" ELSE "list"
         /\ NoMeta(t) => Gone(s)
         /\ ListCases(t) => /\ r.pc = "list" /\ Keeps(r, s)
                            /\ s.pc = "copy" /\ s.todo = Cases(t)
         /\ CopyCase(t) =>
              \/ Gone(s)
              \/ /\ r.pc = "copy" /\ Stays(r, s) /\ s.stage = r.stage /\ s.pc = "copy"
                 /\ Copies(r, s, Cases(t), Source(t))
         /\ CasesCopied(t) => /\ r.pc = "copy" /\ r.todo = {} /\ Keeps(r, s)
                              /\ s.pc = "copied"
<1>1. th \in [Threads -> Thread] /\ r \in Thread
  BY DEF TypeInv, TypeOK
<1> USE DEF Stays, Keeps
<1>2. ASSUME Acquire(t)
      PROVE  /\ r.pc = "acquire" /\ Keeps(r, s) /\ locks[r.at] = Nobody
             /\ s.pc \in {"zipsum", "checksum", "getkey"}
  BY <1>1, <1>2 DEF Acquire, Is, Step, At, Thread
<1>3. ASSUME MakeFolder(t) PROVE r.pc = "mkdir" /\ Keeps(r, s) /\ s.pc = "acquire"
  BY <1>1, <1>3 DEF MakeFolder, Is, Step, Thread
<1>4. ASSUME GetMeta(t)
      PROVE  /\ r.pc = "meta" /\ Keeps(r, s)
             /\ s.pc = IF r.stage = "trial" THEN "tlist" ELSE "list"
  BY <1>1, <1>4 DEF GetMeta, Is, Step, Thread
<1>5. ASSUME NoMeta(t) PROVE Gone(s)
  BY <1>1, <1>5, FailedGone DEF NoMeta
<1>6. ASSUME ListCases(t)
      PROVE  /\ r.pc = "list" /\ Keeps(r, s)
             /\ s.pc = "copy" /\ s.todo = Cases(t)
  BY <1>1, <1>6 DEF ListCases, Is, Thread
<1>7. ASSUME CopyCase(t)
      PROVE  \/ Gone(s)
             \/ /\ r.pc = "copy" /\ Stays(r, s) /\ s.stage = r.stage /\ s.pc = "copy"
                /\ Copies(r, s, Cases(t), Source(t))
  <2>1. PICK p \in r.todo :
          IF p \notin Cases(t) THEN th' = [th EXCEPT ![t] = Failed]
          ELSE th' = [th EXCEPT ![t].todo = @ \ {p}, ![t].copy[p] = Source(t)[p]]
    BY <1>7 DEF CopyCase
  <2>2. CASE p \notin Cases(t)
    BY <1>1, <2>1, <2>2, FailedGone
  <2>3. CASE p \in Cases(t)
    <3>1. /\ s.pc = r.pc /\ Stays(r, s) /\ s.stage = r.stage /\ s.todo = r.todo \ {p}
          /\ s.copy = [r.copy EXCEPT ![p] = Source(t)[p]]
      BY <1>1, <2>1, <2>3 DEF Thread
    <3>2. r.pc = "copy"
      BY <1>7 DEF CopyCase, Is
    <3> QED
      BY <2>3, <3>1, <3>2 DEF Copies
  <2> QED
    BY <2>2, <2>3
<1>8. ASSUME CasesCopied(t)
      PROVE  /\ r.pc = "copy" /\ r.todo = {} /\ Keeps(r, s)
             /\ s.pc = "copied"
  BY <1>1, <1>8 DEF CasesCopied, Is, Step, Thread
<1> QED
  BY <1>2, <1>3, <1>4, <1>5, <1>6, <1>7, <1>8

(* The preparation of a custom trial.                                       *)
LEMMA TrialSteps ==
  ASSUME TypeInv, NEW t \in Threads, NEW r, r = th[t], NEW s, s = th'[t]
  PROVE  /\ FindInputs(t) =>
              /\ r.pc = "tlist"
              /\ \/ /\ Keeps(r, s) /\ s.pc = "tdown"
                    /\ trial[t].in = {} /\ UNCHANGED trial
                 \/ /\ Begun(s, "accode", "acquire") /\ s.kind = r.kind
                    /\ trial' = [trial EXCEPT ![t].out = Nothing]
         /\ DownloadCases(t) => \/ Gone(s)
                                \/ /\ r.pc = "tdown" /\ Keeps(r, s)
                                   /\ s.pc = "tcopy" /\ s.todo = Parts
         /\ CopyInput(t) =>
              /\ r.pc = "tcopy"
              /\ \E p \in r.todo : trial' = [trial EXCEPT ![t].in = @ \cup {p}]
              /\ \/ Begun(s, "accode", "acquire") /\ s.kind = r.kind
                 \/ Keeps(r, s) /\ s.pc = "tcopy"
         /\ CompileAC(t) => \/ Gone(s)
                            \/ /\ r.pc = "compile" /\ Keeps(r, s)
                               /\ s.pc = "outputs" /\ s.todo = trial[t].in
         /\ WriteOutput(t) =>
              /\ r.pc = "outputs" /\ Keeps(r, s) /\ s.pc = "outputs"
              /\ \E p \in r.todo : \E v \in Versions \cup {Torn} :
                   /\ s.todo = r.todo \ {p}
                   /\ v # Torn => dir["accode"] = Whole(v)
                   /\ trial' = [trial EXCEPT ![t].out[p] = IF @ = Absent THEN v ELSE @]
         /\ OutputsWritten(t) =>
              /\ r.pc = "outputs" /\ r.todo = {}
              /\ \/ Begun(s, "checker", "mkdir") /\ s.kind = r.kind
                 \/ Stays(r, s) /\ s.copy = r.copy /\ s.pc = "meta" /\ s.stage = "data"
<1>1. th \in [Threads -> Thread] /\ r \in Thread
  BY DEF TypeInv, TypeOK
<1>2. /\ Begun(Ensure(r, "accode", "acquire"), "accode", "acquire")
      /\ Ensure(r, "accode", "acquire").kind = r.kind
      /\ Begun(Ensure(r, "checker", "mkdir"), "checker", "mkdir")
      /\ Ensure(r, "checker", "mkdir").kind = r.kind
  BY <1>1, EnsureBegins DEF Caches, Archives, Assets
<1>3. ASSUME FindInputs(t)
      PROVE  /\ r.pc = "tlist"
             /\ \/ /\ Keeps(r, s) /\ s.pc = "tdown"
                   /\ trial[t].in = {} /\ UNCHANGED trial
                \/ /\ Begun(s, "accode", "acquire") /\ s.kind = r.kind
                   /\ trial' = [trial EXCEPT ![t].out = Nothing]
  <2>1. CASE trial[t].in = {}
    BY <1>1, <1>3, <2>1 DEF FindInputs, Is, Step, Thread, Stays, Keeps
  <2>2. CASE trial[t].in # {}
    <3>1. s = Ensure(r, "accode", "acquire") /\ r.pc = "tlist"
          /\ trial' = [trial EXCEPT ![t].out = Nothing]
      BY <1>1, <1>3, <2>2 DEF FindInputs, Is
    <3> QED
      BY <1>2, <3>1
  <2> QED
    BY <2>1, <2>2
<1>4. ASSUME DownloadCases(t)
      PROVE  \/ Gone(s)
             \/ /\ r.pc = "tdown" /\ Keeps(r, s)
                /\ s.pc = "tcopy" /\ s.todo = Parts
  BY <1>1, <1>4, FailedGone DEF DownloadCases, Is, Thread, Stays, Keeps
<1>5. ASSUME CopyInput(t)
      PROVE  /\ r.pc = "tcopy"
             /\ \E p \in r.todo : trial' = [trial EXCEPT ![t].in = @ \cup {p}]
             /\ \/ Begun(s, "accode", "acquire") /\ s.kind = r.kind
                \/ Keeps(r, s) /\ s.pc = "tcopy"
  <2>1. PICK p \in r.todo :
          /\ trial' = [trial EXCEPT ![t].in = @ \cup {p}]
          /\ th' = IF th[t].todo = {p} THEN [th EXCEPT ![t] = Ensure(@, "accode", "acquire")]
                   ELSE [th EXCEPT ![t].todo = @ \ {p}]
    BY <1>5 DEF CopyInput
  <2>2. r.pc = "tcopy"
    BY <1>5 DEF CopyInput, Is
  <2>3. CASE th[t].todo = {p}
    <3>1. s = Ensure(r, "accode", "acquire")
      BY <1>1, <2>1, <2>3
    <3> QED
      BY <1>2, <2>1, <2>2, <3>1
  <2>4. CASE th[t].todo # {p}
    BY <1>1, <2>1, <2>2, <2>4 DEF Thread, Stays, Keeps
  <2> QED
    BY <2>3, <2>4
<1>6. ASSUME CompileAC(t)
      PROVE  \/ Gone(s)
             \/ /\ r.pc = "compile" /\ Keeps(r, s)
                /\ s.pc = "outputs" /\ s.todo = trial[t].in
  BY <1>1, <1>6, FailedGone DEF CompileAC, Is, Thread, Stays, Keeps
<1>7. ASSUME WriteOutput(t)
      PROVE  /\ r.pc = "outputs" /\ Keeps(r, s) /\ s.pc = "outputs"
             /\ \E p \in r.todo : \E v \in Versions \cup {Torn} :
                  /\ s.todo = r.todo \ {p}
                  /\ v # Torn => dir["accode"] = Whole(v)
                  /\ trial' = [trial EXCEPT ![t].out[p] = IF @ = Absent THEN v ELSE @]
  <2>1. PICK p \in r.todo, v \in Versions \cup {Torn} :
          /\ v # Torn => dir["accode"] = Whole(v)
          /\ trial' = [trial EXCEPT ![t].out[p] = IF @ = Absent THEN v ELSE @]
          /\ th' = [th EXCEPT ![t].todo = @ \ {p}]
    BY <1>7 DEF WriteOutput
  <2>2. r.pc = "outputs"
    BY <1>7 DEF WriteOutput, Is
  <2>3. Keeps(r, s) /\ s.pc = r.pc /\ s.todo = r.todo \ {p}
    BY <1>1, <2>1 DEF Thread, Stays, Keeps
  <2> QED
    BY <2>1, <2>2, <2>3
<1>8. ASSUME OutputsWritten(t)
      PROVE  /\ r.pc = "outputs" /\ r.todo = {}
             /\ \/ Begun(s, "checker", "mkdir") /\ s.kind = r.kind
                \/ Stays(r, s) /\ s.copy = r.copy /\ s.pc = "meta" /\ s.stage = "data"
  <2>1. r.pc = "outputs" /\ r.todo = {}
    BY <1>8 DEF OutputsWritten, Is
  <2>2. CASE "checker" \in prob.assets
    <3>1. s = Ensure(r, "checker", "mkdir")
      BY <1>1, <1>8, <2>2 DEF OutputsWritten
    <3> QED
      BY <1>2, <2>1, <3>1
  <2>3. CASE "checker" \notin prob.assets
    BY <1>1, <1>8, <2>1, <2>3 DEF OutputsWritten, Thread, Stays
  <2> QED
    BY <2>2, <2>3
<1> QED
  BY <1>3, <1>4, <1>5, <1>6, <1>7, <1>8

(* The steps in handle(), and the end of a request.                         *)
LEMMA HandleSteps ==
  ASSUME TypeInv, NEW t \in Threads, NEW r, r = th[t], NEW s, s = th'[t]
  PROVE  /\ Handle(t) =>
              /\ r.pc = "copied"
              /\ \/ s.at = "checker" /\ s.pc = "mkdir" /\ s.stage = "handle"
                 \/ Begun(s, "resource", "mkdir")
                 \/ Stays(r, s) /\ s.pc = "done" /\ s.copy = Nothing
         /\ TakeChecker(t) => r.pc = "take" /\ Keeps(r, s) /\ s.pc = "taken"
         /\ PrepareResource(t) =>
              /\ r.pc = "taken"
              /\ \/ Begun(s, "resource", "mkdir")
                 \/ Stays(r, s) /\ s.pc = "done" /\ s.copy = Nothing
         /\ ListResource(t) => /\ r.pc = "listres" /\ Keeps(r, s)
                               /\ s.pc = "copyres" /\ s.todo = Present("extracted")
         /\ CopyResource(t) =>
              \/ Gone(s)
              \/ /\ r.pc = "copyres" /\ Stays(r, s) /\ s.pc = "copyres"
                 /\ Copies(r, s, r.todo, dir["extracted"])
         /\ ResourceCopied(t) => /\ r.pc = "copyres" /\ r.todo = {}
                                 /\ Keeps(r, s) /\ s.pc = "done"
         /\ Answer(t) => Gone(s)
<1>1. th \in [Threads -> Thread] /\ r \in Thread
  BY DEF TypeInv, TypeOK
<1>2. \/ Begun(Resource(r), "resource", "mkdir")
      \/ /\ Stays(r, Resource(r)) /\ Resource(r).pc = "done"
         /\ Resource(r).copy = Nothing
  <2>1. Begun(Ensure(r, "resource", "mkdir"), "resource", "mkdir")
    BY <1>1, EnsureBegins DEF Caches, Assets, Archives
  <2>2. LET x == [r EXCEPT !.pc = "done", !.copy = Nothing]
        IN Stays(r, x) /\ x.pc = "done" /\ x.copy = Nothing
    BY <1>1 DEF Thread, Stays
  <2> QED
    BY <2>1, <2>2 DEF Resource
<1>3. ASSUME Handle(t)
      PROVE  /\ r.pc = "copied"
             /\ \/ s.at = "checker" /\ s.pc = "mkdir" /\ s.stage = "handle"
                \/ Begun(s, "resource", "mkdir")
                \/ Stays(r, s) /\ s.pc = "done" /\ s.copy = Nothing
  <2>1. r.pc = "copied"
    BY <1>3 DEF Handle, Is
  <2>2. CASE "checker" \in prob.assets
    <3>1. PICK e : e = Ensure(r, "checker", "mkdir")
      OBVIOUS
    <3>2. e \in Thread /\ e.at = "checker" /\ e.pc = "mkdir"
      BY <1>1, <3>1, EnsureType, EnsureBegins
         DEF TypeInv, Caches, Assets, Archives, Begun
    <3>3. s = [e EXCEPT !.stage = "handle"]
      BY <1>1, <1>3, <2>2, <3>1 DEF Handle
    <3> QED
      BY <2>1, <3>2, <3>3 DEF Thread
  <2>3. CASE "checker" \notin prob.assets
    BY <1>1, <1>2, <1>3, <2>1, <2>3 DEF Handle
  <2> QED
    BY <2>2, <2>3
<1>4. ASSUME TakeChecker(t) PROVE r.pc = "take" /\ Keeps(r, s) /\ s.pc = "taken"
  BY <1>1, <1>4 DEF TakeChecker, Is, Thread, Stays, Keeps
<1>5. ASSUME PrepareResource(t)
      PROVE  /\ r.pc = "taken"
             /\ \/ Begun(s, "resource", "mkdir")
                \/ Stays(r, s) /\ s.pc = "done" /\ s.copy = Nothing
  BY <1>1, <1>2, <1>5 DEF PrepareResource, Is
<1>6. ASSUME ListResource(t)
      PROVE  /\ r.pc = "listres" /\ Keeps(r, s)
             /\ s.pc = "copyres" /\ s.todo = Present("extracted")
  BY <1>1, <1>6 DEF ListResource, Is, Thread, Stays, Keeps
<1>7. ASSUME CopyResource(t)
      PROVE  \/ Gone(s)
             \/ /\ r.pc = "copyres" /\ Stays(r, s) /\ s.pc = "copyres"
                /\ Copies(r, s, r.todo, dir["extracted"])
  <2>1. PICK p \in r.todo :
          IF dir["extracted"][p] = Absent THEN th' = [th EXCEPT ![t] = Failed]
          ELSE th' = [th EXCEPT ![t].todo = @ \ {p}, ![t].copy[p] = dir["extracted"][p]]
    BY <1>7 DEF CopyResource
  <2>2. CASE dir["extracted"][p] = Absent
    BY <1>1, <2>1, <2>2, FailedGone
  <2>3. CASE dir["extracted"][p] # Absent
    <3>1. /\ s.pc = r.pc /\ Stays(r, s) /\ s.todo = r.todo \ {p}
          /\ s.copy = [r.copy EXCEPT ![p] = dir["extracted"][p]]
      BY <1>1, <2>1, <2>3 DEF Thread, Stays
    <3>2. r.pc = "copyres"
      BY <1>7 DEF CopyResource, Is
    <3> QED
      BY <3>1, <3>2 DEF Copies
  <2> QED
    BY <2>2, <2>3
<1>8. ASSUME ResourceCopied(t)
      PROVE  /\ r.pc = "copyres" /\ r.todo = {}
             /\ Keeps(r, s) /\ s.pc = "done"
  BY <1>1, <1>8 DEF ResourceCopied, Is, Step, Thread, Stays, Keeps
<1>9. ASSUME Answer(t) PROVE Gone(s)
  BY <1>1, <1>9, FailedGone DEF Answer
<1> QED
  BY <1>3, <1>4, <1>5, <1>6, <1>7, <1>8, <1>9

(* Where a submission begins.                                               *)
LEMMA SubmitSteps ==
  ASSUME TypeInv, NEW t \in Threads, Submit(t), NEW s, s = th'[t]
  PROVE  \/ Begun(s, "testdata", "acquire") /\ s.kind = "normal"
         \/ Begun(s, "public", "acquire") /\ s.kind = "public"
         \/ s.at = "testdata" /\ s.pc = "meta" /\ s.kind = "custom" /\ s.stage = "trial"
<1>1. PICK k \in {"normal", "public", "custom"} : th' = [th EXCEPT ![t] = Begin(t, k)]
  BY SubmitBegins
<1>2. s = Begin(t, k)
  BY <1>1 DEF TypeInv, TypeOK
<1> DEFINE r == [Asleep EXCEPT !.kind = k]
<1>3. r \in Thread /\ r.kind = k /\ r.at = "testdata"
  BY AsleepType DEF Thread, Asleep
<1>4. CASE k = "custom"
  <2>1. s = [r EXCEPT !.pc = "meta", !.stage = "trial"]
    BY <1>2, <1>4 DEF Begin
  <2> QED
    BY <1>3, <1>4, <2>1 DEF Thread
<1> HIDE DEF r
<1>5. CASE k = "normal"
  <2>1. s = Ensure(r, "testdata", "acquire")
    BY <1>2, <1>5 DEF Begin, r
  <2> QED
    BY <1>3, <1>5, <2>1, EnsureBegins DEF Caches, Archives
<1>6. CASE k = "public"
  <2>1. s = Ensure(r, "public", "acquire")
    BY <1>2, <1>6 DEF Begin, r
  <2> QED
    BY <1>3, <1>6, <2>1, EnsureBegins DEF Caches, Archives
<1> QED
  BY <1>4, <1>5, <1>6

(* Where a request goes on after a with-block.                              *)
LEMMA LeaveSteps ==
  ASSUME TypeInv, NEW t \in Threads, Leave(t), NEW r, r = th[t], NEW s, s = th'[t]
  PROVE  /\ r.pc \in {"release", "none", "unwind"}
         /\ \/ Gone(s)
            \/ /\ r.pc = "release" /\ Keeps(r, s)
               /\ \/ r.at \in {"testdata", "public"} /\ s.pc = "meta"
                  \/ r.at = "accode" /\ s.pc = "compile"
                  \/ r.at = "extracted" /\ s.pc = "listres"
            \/ /\ r.at = "checker" /\ Stays(r, s) /\ s.copy = r.copy
               /\ \/ r.stage = "trial" /\ s.stage = "data" /\ s.pc = "meta"
                  \/ r.stage # "trial" /\ s.stage = r.stage /\ s.pc \in {"take", "taken"}
            \/ /\ r.pc = "release" /\ r.at = "resource"
               /\ s.at = "extracted" /\ s.pc = "acquire" /\ s.copy = Nothing
               /\ s.since = r.since /\ s.clean = r.clean /\ s.kind = r.kind
            \/ r.at \in {"resource", "extracted"} /\ Keeps(r, s) /\ s.pc = "done"
<1> DEFINE out == Outcome(t)
<1>1. r \in Thread /\ r.pc \in {"release", "none", "unwind"}
  BY ThreadTypes DEF Leave
<1>2. s = After(r, out) /\ out \in {"ok", "none", "raise"} /\ (out = "ok" => r.pc = "release")
  BY <1>1 DEF Leave, TypeInv, TypeOK, Outcome, Is
<1> HIDE DEF out
<1>3. CASE s = Failed
  BY <1>1, <1>3, FailedGone
<1>4. CASE r.at \in {"testdata", "public", "accode"} /\ s # Failed
  BY ZenonT(30), <1>1, <1>2, <1>4 DEF After, Thread, Stays, Keeps
<1>5. CASE r.at = "checker"
  BY <1>1, <1>2, <1>5 DEF After, Thread, Stays
<1>6. CASE r.at = "resource" /\ s # Failed
  <2>1. LET e == Ensure(r, "extracted", "acquire")
        IN /\ e.at = "extracted" /\ e.pc = "acquire" /\ e.copy = Nothing
           /\ e.since = r.since /\ e.clean = r.clean /\ e.kind = r.kind
    BY <1>1 DEF Ensure, Thread
  <2> QED
    BY <1>1, <1>2, <1>6, <2>1 DEF After, Thread, Stays, Keeps
<1>7. CASE r.at = "extracted" /\ s # Failed
  BY <1>1, <1>2, <1>7 DEF After, Thread, Stays, Keeps
<1> QED
  BY <1>1, <1>3, <1>4, <1>5, <1>6, <1>7 DEF Thread, Caches, Archives, Assets

(* Inside a with-block a thread keeps its claims; if it begins to fill the  *)
(* directory, all others that use it notice.                                *)
LEMMA ArchiveKeeps ==
  ASSUME TypeInv, NEW t \in Threads, NEW r, r = th[t], NEW s, s = th'[t],
         \/ GetKey(t) \/ Compare(t) \/ CannotCompare(t) \/ Fetch(t)
         \/ ClearPart(t) \/ ClearExtracted(t) \/ ClearFolder(t)
         \/ ClearRaises(t) \/ ExtractPart(t) \/ FetchMeta(t) \/ Store(t)
         \/ Raise(t)
  PROVE  /\ Keeps(r, s)
         /\ Filling(s) => \/ Filling(r)
                          \/ \A u \in Threads \ {t} : At(u) = r.at => ~th'[u].clean
<1>1. th \in [Threads -> Thread] /\ r \in Thread
  BY DEF TypeInv, TypeOK
<1>2. \A C : Touch(t, C) \in [Threads -> Thread] /\ Touch(t, C)[t] = r
  BY TouchType
<1>3. s.at = r.at /\ s.kind = r.kind /\ s.stage = r.stage /\ s.since = r.since
  BY ArchiveSection
<1> USE DEF Keeps, Stays
<1>4. CASE GetKey(t)
  BY <1>1, <1>3, <1>4 DEF GetKey, Is, Thread, Filling
<1>5. CASE Compare(t)
  BY <1>1, <1>3, <1>5 DEF Compare, Is, Step, Thread, Filling
<1>6. CASE CannotCompare(t) \/ ClearRaises(t) \/ Raise(t)
  BY <1>1, <1>3, <1>6 DEF CannotCompare, ClearRaises, Raise, Is, Step, Thread, Filling
<1>7. CASE Fetch(t)
  BY <1>1, <1>3, <1>7 DEF Fetch, Is, Thread, Cleared, Filling
<1>8. CASE ClearPart(t)
  <2>1. PICK p : th' = [Touch(t, {At(t)}) EXCEPT ![t] = Cleared(@, @.todo \ {p})]
    BY <1>8 DEF ClearPart
  <2>2. s = Cleared(r, r.todo \ {p})
    BY <2>1, TouchType
  <2> QED
    BY <1>1, <1>3, <2>2 DEF Thread, Cleared, Filling
<1>9. CASE ClearExtracted(t)
  BY <1>1, <1>2, <1>3, <1>9 DEF ClearExtracted, Is, Thread, Filling
<1>10. CASE ClearFolder(t)
  <2>1. PICK a : th' = [Touch(t, {a, IF a = "resource" THEN "extracted" ELSE a})
                           EXCEPT ![t] = Cleared(@, @.todo \ {a})]
    BY <1>10 DEF ClearFolder
  <2>2. s = Cleared(r, r.todo \ {a})
    BY <2>1, TouchType
  <2> QED
    BY <1>1, <1>3, <2>2 DEF Thread, Cleared, Filling
<1>11. CASE ExtractPart(t)
  <2> DEFINE T == Touch(t, {At(t)})
  <2>1. PICK p : th' = [T EXCEPT
                   ![t].todo = @ \ {p}, ![t].key = <<th[t].data, th[t].data>>,
                   ![t].pc = IF th[t].todo # {p} THEN "extract"
                             ELSE IF At(t) = "testdata" THEN "fmeta" ELSE "store"]
    BY <1>11 DEF ExtractPart
  <2>2. T \in [Threads -> Thread] /\ T[t] = r
    BY TouchType
  <2>3. s.clean = r.clean /\ s.copy = r.copy
    BY <1>1, <2>1, <2>2 DEF Thread
  <2>4. ASSUME NEW u \in Threads \ {t}, At(u) = r.at PROVE ~th'[u].clean
    <3>1. th'[u] = T[u]
      BY <2>1, <2>2
    <3> QED
      BY <1>1, <2>4, <3>1 DEF Touch, Thread, At
  <2> QED
    BY <1>3, <2>3, <2>4
<1>12. CASE FetchMeta(t)
  BY <1>1, <1>3, <1>12 DEF FetchMeta, Is, Thread, Filling
<1>13. CASE Store(t)
  BY <1>1, <1>3, <1>13 DEF Store, Is, Step, Thread, Filling
<1> QED
  BY <1>4, <1>5, <1>6, <1>7, <1>8, <1>9, <1>10, <1>11, <1>12, <1>13

LEMMA AssetKeeps ==
  ASSUME TypeInv, NEW t \in Threads, NEW r, r = th[t], NEW s, s = th'[t],
         \/ CompareFile(t) \/ NotConfigured(t) \/ Download(t)
         \/ OpenFile(t) \/ FillFile(t) \/ SumZip(t) \/ RemoveExtracted(t)
         \/ OpenZip(t) \/ UnzipPart(t) \/ UnzipFails(t)
         \/ StoreExtracted(t)
  PROVE  /\ Keeps(r, s)
         /\ Filling(s) => \/ Filling(r)
                          \/ \A u \in Threads \ {t} : At(u) = r.at => ~th'[u].clean
<1>1. th \in [Threads -> Thread] /\ r \in Thread
  BY DEF TypeInv, TypeOK
<1>2. \A C : Touch(t, C) \in [Threads -> Thread] /\ Touch(t, C)[t] = r
  BY TouchType
<1>3. s.at = r.at /\ s.kind = r.kind /\ s.stage = r.stage /\ s.since = r.since
  BY AssetSection
<1> USE DEF Keeps, Stays
<1>4. CASE CompareFile(t)
  BY <1>1, <1>3, <1>4 DEF CompareFile, Is, Step, Thread, Filling
<1>5. CASE NotConfigured(t) \/ UnzipFails(t)
  BY <1>1, <1>3, <1>5 DEF NotConfigured, UnzipFails, Is, Step, Thread, Filling
<1>6. CASE Download(t)
  BY <1>1, <1>3, <1>6 DEF Download, Is, Thread, Filling
<1>7. CASE OpenFile(t)
  BY <1>1, <1>2, <1>3, <1>7 DEF OpenFile, Is, Step, Thread, Filling
<1>8. CASE FillFile(t)
  BY <1>1, <1>2, <1>3, <1>8 DEF FillFile, Is, Thread, Filling
<1>9. CASE SumZip(t)
  BY <1>1, <1>3, <1>9 DEF SumZip, Is, Step, Thread, Filling
<1>10. CASE RemoveExtracted(t)
  <2>1. s.pc \in {"rmext", "unwind"} /\ s.clean = r.clean /\ s.copy = r.copy
    <3>1. \/ th' = [th EXCEPT ![t].pc = "unwind"]
          \/ \E p \in r.todo : th' = [Touch(t, {"extracted"}) EXCEPT ![t].todo = @ \ {p}]
      BY <1>10 DEF RemoveExtracted, Step
    <3>2. r.pc = "rmext"
      BY <1>10 DEF RemoveExtracted, Is
    <3> QED
      BY <1>1, <1>2, <3>1, <3>2 DEF Thread
  <2> QED
    BY <1>3, <2>1 DEF Filling
<1>11. CASE OpenZip(t)
  BY <1>1, <1>3, <1>11 DEF OpenZip, Is, Thread, Filling
<1>12. CASE UnzipPart(t)
  <2> DEFINE T == Touch(t, {"extracted"})
  <2>1. PICK p : th' = [T EXCEPT ![t].todo = @ \ {p},
                          ![t].pc = IF th[t].todo = {p} THEN "storeext" ELSE "unzip"]
    BY <1>12 DEF UnzipPart
  <2>2. T \in [Threads -> Thread] /\ T[t] = r
    BY TouchType
  <2>3. s.clean = r.clean /\ s.copy = r.copy
    BY <1>1, <2>1, <2>2 DEF Thread
  <2>4. r.at = "extracted"
    BY <1>12, ThreadTypes DEF UnzipPart, Is, Placed, Unpacking
  <2>5. ASSUME NEW u \in Threads \ {t}, At(u) = r.at PROVE ~th'[u].clean
    <3>1. th'[u] = T[u]
      BY <2>1, <2>2
    <3> QED
      BY <1>1, <2>4, <2>5, <3>1 DEF Touch, Thread, At
  <2> QED
    BY <1>3, <2>3, <2>5
<1>13. CASE StoreExtracted(t)
  BY <1>1, <1>3, <1>13 DEF StoreExtracted, Is, Step, Thread, Filling
<1> QED
  BY <1>4, <1>5, <1>6, <1>7, <1>8, <1>9, <1>10, <1>11, <1>12, <1>13

(* A thread's step keeps NoticedInv if the others notice what it writes and *)
(* it does not begin to use a directory that somebody is filling.           *)
LEMMA NoticedStep ==
  ASSUME TypeInv, NoticedInv, NEW t \in Threads, Kept(t), UNCHANGED overrun,
         NEW r, r = th[t], NEW s, s = th'[t],
         Filling(s) =>
           /\ s.at = r.at
           /\ Filling(r) \/ \A u \in Threads \ {t} : At(u) = r.at => ~th'[u].clean,
         s.at \in Archives \ ({"testdata"} \cup overrun) /\ s.clean =>
           \/ s.pc = "acquire"
           \/ s.at = r.at /\ r.clean /\ r.pc # "acquire"
           \/ \A u \in Threads \ {t} : At(u) = s.at => th[u].pc \notin Section
  PROVE  NoticedInv'
<1> SUFFICES ASSUME NEW u \in Threads, NEW w \in Threads \ {u},
                    th'[u].at \in Archives \ ({"testdata"} \cup overrun),
                    Filling(th'[u]), th'[w].at = th'[u].at, th'[w].clean
             PROVE  th'[w].pc = "acquire"
  BY DEF NoticedInv, Noticed, At
<1>1. \A x \in Threads \ {t} :
        /\ th'[x].pc = th[x].pc /\ th'[x].at = th[x].at /\ th'[x].todo = th[x].todo
        /\ th'[x].clean => th[x].clean
  <2> SUFFICES ASSUME NEW x \in Threads \ {t}
               PROVE  /\ th'[x].pc = th[x].pc /\ th'[x].at = th[x].at
                      /\ th'[x].todo = th[x].todo
                      /\ th'[x].clean => th[x].clean
    OBVIOUS
  <2>1. th[x] \in Thread /\ th'[x] \in {th[x], [th[x] EXCEPT !.clean = FALSE]}
    BY ThreadTypes DEF Kept
  <2> QED
    BY <2>1 DEF Thread
<1>2. \A x \in Threads \ {t} : Filling(th'[x]) => Filling(th[x]) /\ th[x].pc \in Section
  BY <1>1 DEF Filling, Section
<1>3. CASE u = t
  BY <1>1, <1>3 DEF NoticedInv, Noticed, At
<1>4. CASE u # t /\ w = t
  BY <1>1, <1>2, <1>4 DEF NoticedInv, Noticed, At
<1>5. CASE u # t /\ w # t
  BY <1>1, <1>2, <1>5 DEF NoticedInv, Noticed, At
<1> QED
  BY <1>3, <1>4, <1>5

(* Outside the with-blocks a thread does not write to a directory, and does *)
(* not begin to use one without waiting for its lock.                       *)
LEMMA OutsideNotices ==
  ASSUME TypeInv, LockInv, NEW t \in Threads, NEW r, r = th[t], NEW s, s = th'[t],
         Use(t) \/ Acquire(t) \/ MakeFolder(t) \/ Leave(t) \/ Submit(t)
  PROVE  /\ ~Filling(s)
         /\ s.at \in Archives \ ({"testdata"} \cup overrun) /\ s.clean =>
              \/ s.pc = "acquire"
              \/ s.at = r.at /\ r.clean /\ r.pc # "acquire"
              \/ \A u \in Threads \ {t} : At(u) = s.at => th[u].pc \notin Section
<1> USE DEF Keeps, Stays, Begun, Gone, Filling
<1>1. CASE Acquire(t)
  <2>1. r.pc = "acquire" /\ Keeps(r, s) /\ locks[r.at] = Nobody
        /\ s.pc \in {"zipsum", "checksum", "getkey"}
    BY <1>1, CaseSteps
  <2>2. ASSUME NEW u \in Threads \ {t}, At(u) = s.at, s.at \notin overrun,
               th[u].pc \in Section
        PROVE  FALSE
    BY <2>1, <2>2, CacheAssumption DEF LockInv, Mutex
  <2> QED
    BY <2>1, <2>2
<1>2. CASE MakeFolder(t)
  BY <1>2, CaseSteps
<1>3. CASE Leave(t)
  BY <1>3, LeaveSteps DEF Archives, Assets
<1>4. CASE Submit(t)
  BY <1>4, SubmitSteps
<1>5. CASE GetMeta(t) \/ NoMeta(t) \/ ListCases(t) \/ CasesCopied(t)
  BY <1>5, CaseSteps
<1>6. CASE CopyCase(t)
  BY <1>6, CaseSteps
<1>7. CASE FindInputs(t) \/ DownloadCases(t) \/ CompileAC(t)
  BY <1>7, TrialSteps
<1>8. CASE CopyInput(t)
  BY <1>8, TrialSteps
<1>9. CASE WriteOutput(t)
  BY <1>9, TrialSteps
<1>10. CASE OutputsWritten(t)
  BY <1>10, TrialSteps DEF Archives, Assets
<1>11. CASE Handle(t)
  BY <1>11, HandleSteps DEF Archives
<1>12. CASE TakeChecker(t) \/ PrepareResource(t)
  BY <1>12, HandleSteps DEF Archives
<1>13. CASE ListResource(t) \/ ResourceCopied(t) \/ Answer(t)
  BY <1>13, HandleSteps
<1>14. CASE CopyResource(t)
  BY <1>14, HandleSteps
<1> QED
  BY <1>1, <1>2, <1>3, <1>4, <1>5, <1>6, <1>7, <1>8, <1>9, <1>10, <1>11, <1>12, <1>13,
     <1>14 DEF Use

(* Nor does it touch what the steps in the with-blocks are about.           *)
LEMMA OutsideKeeps ==
  ASSUME TypeInv, NEW t \in Threads,
         Use(t) \/ Acquire(t) \/ MakeFolder(t) \/ Leave(t) \/ Submit(t)
  PROVE  /\ UNCHANGED <<backend, redis, dir, file, overrun, cut>> /\ Kept(t)
         /\ \A u \in Threads \ {t} : trial'[u] = trial[u]
<1>1. Kept(t)
  BY RequestTypes, TrialTypes, AssetTypes, ArchiveTypes DEF Use
<1>2. UNCHANGED <<backend, redis, dir, file, overrun, cut>>
  BY DEF Use, Acquire, MakeFolder, Leave, Submit, GetMeta, NoMeta, ListCases, CopyCase,
     CasesCopied, FindInputs, DownloadCases, CopyInput, CompileAC, WriteOutput,
     OutputsWritten, Handle, TakeChecker, PrepareResource, ListResource, CopyResource,
     ResourceCopied, Answer, world, disk
<1>3. ASSUME ~FindInputs(t), ~CopyInput(t), ~WriteOutput(t) PROVE UNCHANGED trial
  BY <1>3 DEF Use, Acquire, MakeFolder, Leave, Submit, GetMeta, NoMeta, ListCases, CopyCase,
     CasesCopied, DownloadCases, CompileAC, OutputsWritten, Handle, TakeChecker,
     PrepareResource, ListResource, CopyResource, ResourceCopied, Answer, disk
<1>4. trial \in [Threads -> Trial]
  BY DEF TypeInv, TypeOK, Trial
<1>5. ASSUME FindInputs(t) PROVE \A u \in Threads \ {t} : trial'[u] = trial[u]
  BY <1>4, <1>5, TrialSteps
<1>6. ASSUME CopyInput(t) PROVE \A u \in Threads \ {t} : trial'[u] = trial[u]
  BY <1>4, <1>6, TrialSteps
<1>7. ASSUME WriteOutput(t) PROVE \A u \in Threads \ {t} : trial'[u] = trial[u]
  BY <1>4, <1>7, TrialSteps
<1> QED
  BY <1>1, <1>2, <1>3, <1>5, <1>6, <1>7

(* The steps inside the with-blocks, of the archives and of the assets.     *)
ArchiveStep(t) ==
  \/ GetKey(t) \/ Compare(t) \/ CannotCompare(t) \/ Fetch(t)
  \/ ClearPart(t) \/ ClearExtracted(t) \/ ClearFolder(t) \/ ClearRaises(t)
  \/ ExtractPart(t) \/ FetchMeta(t) \/ Store(t) \/ Raise(t)

AssetStep(t) ==
  \/ CompareFile(t) \/ NotConfigured(t) \/ Download(t) \/ OpenFile(t) \/ FillFile(t)
  \/ SumZip(t) \/ RemoveExtracted(t) \/ OpenZip(t) \/ UnzipPart(t) \/ UnzipFails(t)
  \/ StoreExtracted(t)

LEMMA InsideKeeps ==
  ASSUME TypeInv, NEW t \in Threads, ArchiveStep(t) \/ AssetStep(t)
  PROVE  /\ UNCHANGED <<backend, trial, overrun>> /\ Kept(t)
         /\ th[t].pc \in Section /\ th'[t].pc \in Section /\ Keeps(th[t], th'[t])
<1>1. Kept(t)
  BY ArchiveTypes, AssetTypes, RequestTypes DEF ArchiveStep, AssetStep
<1>2. th[t].pc \in Section /\ th'[t].pc \in Section /\ UNCHANGED overrun
  BY ArchiveSection, AssetSection DEF ArchiveStep, AssetStep
<1>3. Keeps(th[t], th'[t])
  BY ArchiveKeeps, AssetKeeps DEF ArchiveStep, AssetStep
<1>4. UNCHANGED <<backend, trial>>
  BY DEF ArchiveStep, AssetStep, GetKey, Compare, CannotCompare, Fetch, ClearPart,
     ClearExtracted, ClearFolder, ClearRaises, ExtractPart, FetchMeta, Store, Raise,
     CompareFile, NotConfigured, Download, OpenFile, FillFile, SumZip,
     RemoveExtracted, OpenZip, UnzipPart, UnzipFails, StoreExtracted, world, disk
<1> QED
  BY <1>1, <1>2, <1>3, <1>4

(* A lock that runs out changes nothing but the holder's late.              *)
LEMMA HeldKeeps ==
  ASSUME TypeInv, NEW c \in Caches, ExpireHeld(c)
  PROVE  /\ UNCHANGED <<backend, redis, dir, file, trial, cut>> /\ overrun \subseteq overrun'
         /\ \A u \in Threads :
              /\ Keeps(th[u], th'[u]) /\ th'[u].pc = th[u].pc /\ th'[u].todo = th[u].todo
              /\ th'[u].key = th[u].key /\ th'[u].data = th[u].data
<1>1. \A u \in Threads : th'[u] \in {th[u], [th[u] EXCEPT !.late = TRUE]}
  BY DEF ExpireHeld, TypeInv, TypeOK
<1>2. \A u \in Threads : th[u] \in Thread
  BY ThreadTypes
<1> QED
  BY <1>1, <1>2 DEF ExpireHeld, world, disk, Keeps, Stays, Thread

(* Every step.                                                              *)
LEMMA NextNoticed ==
  TypeInv /\ LockInv /\ NoticedInv /\ [Next]_cvars => NoticedInv'
<1> SUFFICES ASSUME TypeInv, LockInv, NoticedInv, [Next]_cvars
             PROVE  NoticedInv'
  OBVIOUS
<1>1. CASE UNCHANGED cvars
  BY <1>1 DEF cvars, NoticedInv, At
<1>2. ASSUME NEW t \in Threads,
             Use(t) \/ Acquire(t) \/ MakeFolder(t) \/ Leave(t) \/ Submit(t)
      PROVE  NoticedInv'
  <2>1. Kept(t) /\ UNCHANGED overrun
    BY <1>2, OutsideKeeps
  <2>2. /\ ~Filling(th'[t])
        /\ th'[t].at \in Archives \ ({"testdata"} \cup overrun) /\ th'[t].clean =>
             \/ th'[t].pc = "acquire"
             \/ th'[t].at = th[t].at /\ th[t].clean /\ th[t].pc # "acquire"
             \/ \A u \in Threads \ {t} : At(u) = th'[t].at => th[u].pc \notin Section
    BY <1>2, OutsideNotices
  <2> QED
    BY <2>1, <2>2, NoticedStep
<1>3. ASSUME NEW t \in Threads, ArchiveStep(t) \/ AssetStep(t)
      PROVE  NoticedInv'
  <2>1. /\ UNCHANGED overrun /\ Kept(t) /\ th[t].pc # "acquire"
        /\ th'[t].at = th[t].at /\ th'[t].clean = th[t].clean
    BY <1>3, InsideKeeps DEF Section, Keeps, Stays
  <2>2. Filling(th'[t]) => \/ Filling(th[t])
                           \/ \A u \in Threads \ {t} : At(u) = th[t].at => ~th'[u].clean
    BY <1>3, ArchiveKeeps, AssetKeeps DEF ArchiveStep, AssetStep
  <2> QED
    BY <2>1, <2>2, NoticedStep
<1>4. CASE Environment
  <2>1. ASSUME NEW c \in Caches, ExpireHeld(c) PROVE NoticedInv'
    BY <2>1, HeldKeeps DEF NoticedInv, Noticed, At, Filling, Keeps, Stays
  <2>2. CASE Crash
    BY <2>2 DEF Crash, NoticedInv, Noticed, Filling, Asleep
  <2>3. CASE \/ \E t \in Threads : EndTrial(t)
             \/ \E c \in Archives : ExpireKey(c)
             \/ \E c \in Caches : ExpireLost(c)
             \/ \E i \in Items : Update(i)
    BY <2>3 DEF EndTrial, ExpireKey, ExpireLost, Update, NoticedInv, At
  <2> QED
    BY <1>2, <1>4, <2>1, <2>2, <2>3 DEF Environment
<1> QED
  BY <1>1, <1>2, <1>3, <1>4 DEF Next, Idle, ThreadStep, Refresh, ArchiveStep, AssetStep

-----------------------------------------------------------------------------
(* What thread record r knows inside the lock of the public test data or    *)
(* the AC code, if the backend has version b and d is the directory; ok     *)
(* says that no refresh of it is under way or was cut off.                  *)
Loading(r, b, d, ok) ==
  /\ r.since <= b /\ r.pc # "fmeta"
  /\ r.pc = "compare" => /\ r.key[1] <= b
                         /\ ok /\ r.key = <<b, b>> => d = Whole(b)
  /\ r.pc \in {"clear", "extract", "store"} => ~ok /\ r.data \in r.since..b
  /\ r.pc = "extract" => \A p \in Parts \ r.todo : d[p] = r.data
  /\ r.pc = "store" => d = Whole(r.data) /\ r.key = <<r.data, r.data>>
  /\ r.pc = "release" /\ ok => Held(r, b, d)

(* A checksum that is the backend's tells the truth unless a refresh was    *)
(* cut off.                                                                 *)
Trusted(b, red, d, ok) ==
  red[1] <= b /\ (ok /\ red = <<b, b>> => d = Whole(b))

(* A step in a with-block of another cache leaves an archive alone, unless  *)
(* it removes the extracted resource data.                                  *)
LEMMA OtherDirs ==
  ASSUME TypeInv, NEW t \in Threads, ArchiveStep(t) \/ AssetStep(t),
         NEW c \in Archives, At(t) # c, c = "extracted" => ~ClearExtracted(t)
  PROVE  UNCHANGED <<redis[c], dir[c]>> /\ (c \in cut' <=> c \in cut)
<1>1. Placed(th[t]) /\ At(t) = th[t].at
  BY ThreadTypes DEF At
<1>2. redis \in [Archives -> Key] /\ dir \in [Archives -> [Parts -> 0..MaxVersion]]
  BY DEF TypeInv, TypeOK
<1>3. CASE \/ GetKey(t) \/ Compare(t) \/ CannotCompare(t)
           \/ ClearFolder(t) \/ ClearRaises(t) \/ FetchMeta(t) \/ Raise(t)
           \/ CompareFile(t) \/ NotConfigured(t) \/ Download(t)
           \/ OpenFile(t) \/ FillFile(t) \/ OpenZip(t) \/ UnzipFails(t)
  BY <1>3 DEF GetKey, Compare, CannotCompare, ClearFolder, ClearRaises, FetchMeta, Raise,
     CompareFile, NotConfigured, Download, OpenFile, FillFile, OpenZip, UnzipFails, disk
<1>4. CASE Fetch(t)
  BY <1>4 DEF Fetch, disk
<1>5. CASE ClearPart(t)
  BY <1>2, <1>5 DEF ClearPart
<1>6. CASE ClearExtracted(t)
  BY <1>2, <1>6 DEF ClearExtracted
<1>7. CASE ExtractPart(t)
  BY <1>2, <1>7 DEF ExtractPart
<1>8. CASE Store(t)
  BY <1>2, <1>8 DEF Store, disk
<1>9. CASE SumZip(t) \/ RemoveExtracted(t) \/ UnzipPart(t) \/ StoreExtracted(t)
  <2>1. th[t].pc \in Unpacking
    BY <1>9 DEF SumZip, RemoveExtracted, UnzipPart, StoreExtracted, Is, Unpacking
  <2>2. c # "extracted"
    BY <1>1, <2>1 DEF Placed
  <2>3. CASE SumZip(t)
    BY <2>2, <2>3 DEF SumZip, disk
  <2>4. CASE RemoveExtracted(t)
    BY <1>2, <2>2, <2>4 DEF RemoveExtracted
  <2>5. CASE UnzipPart(t)
    BY <1>2, <2>2, <2>5 DEF UnzipPart
  <2>6. CASE StoreExtracted(t)
    BY <1>2, <2>2, <2>6 DEF StoreExtracted, disk
  <2> QED
    BY <1>9, <2>3, <2>4, <2>5, <2>6
<1> QED
  BY <1>3, <1>4, <1>5, <1>6, <1>7, <1>8, <1>9 DEF ArchiveStep, AssetStep

(* A thread refreshes the public test data or the AC code.                  *)
LEMMA LoadingStep ==
  ASSUME TypeInv, NEW t \in Threads, NEW c \in {"public", "accode"},
         At(t) = c, ArchiveStep(t), NEW b, b = backend[c],
         Trusted(b, redis[c], dir[c], c \notin cut), Loading(th[t], b, dir[c], c \notin cut)
  PROVE  /\ Trusted(b, redis'[c], dir'[c], c \notin cut')
         /\ Loading(th'[t], b, dir'[c], c \notin cut')
         /\ UNCHANGED dir[c] \/ \A u \in Threads \ {t} : At(u) = c => ~th'[u].clean
         /\ c \notin cut' => c \notin cut \/ Filling(th[t])
<1> DEFINE red == redis[c]
<1> DEFINE d == dir[c]
<1> DEFINE r == th[t]
<1> DEFINE s == th'[t]
<1>1. th \in [Threads -> Thread] /\ r \in Thread /\ r.at = c /\ c # "testdata"
  BY DEF TypeInv, TypeOK, At
<1>2. /\ b \in Versions /\ red \in Key /\ d \in [Parts -> 0..MaxVersion]
      /\ c \in Archives /\ c # "extracted"
  BY DEF TypeInv, TypeOK, Items, Archives
<1>3. Trusted(b, red, d, c \notin cut) /\ Loading(r, b, d, c \notin cut)
  OBVIOUS
<1>4. s.at = r.at /\ s.since = r.since /\ r.since \in Versions
  BY <1>1, InsideKeeps DEF Keeps, Stays, Thread
<1> SUFFICES /\ Trusted(b, red', d', c \notin cut') /\ Loading(s, b, d', c \notin cut')
             /\ d' = d \/ \A u \in Threads \ {t} : At(u) = c => ~th'[u].clean
             /\ c \notin cut' => c \notin cut \/ Filling(r)
  OBVIOUS
<1>5. CASE GetKey(t)
  <2>1. /\ s.key = red /\ s.pc \in {"fetch", "compare"}
        /\ red' = red /\ d' = d /\ cut' = cut
    BY <1>1, <1>5 DEF GetKey, At, Thread, disk
  <2> HIDE DEF red, d, r, s
  <2> QED
    BY <1>2, <1>3, <1>4, <2>1 DEF Trusted, Loading
<1>6. CASE Compare(t)
  <2>1. /\ s.pc = IF r.key = <<b, b>> THEN "release" ELSE "fetch"
        /\ r.pc = "compare" /\ red' = red /\ d' = d /\ cut' = cut
    BY <1>1, <1>6 DEF Compare, Step, Is, At, Thread, disk
  <2> HIDE DEF red, d, r, s
  <2>2. r.key = <<b, b>> /\ c \notin cut => Held(s, b, d)
    BY <1>2, <1>3, <1>4, <2>1 DEF Loading, Held, Versions
  <2> QED
    BY <1>3, <1>4, <2>1, <2>2 DEF Trusted, Loading
<1>7. CASE CannotCompare(t) \/ ClearRaises(t) \/ Raise(t)
  <2>1. s.pc \in {"unwind", "fetch"} /\ red' = red /\ d' = d /\ cut' = cut
    BY <1>1, <1>7 DEF CannotCompare, ClearRaises, Raise, Step, At, Thread, disk
  <2> HIDE DEF red, d, r, s
  <2> QED
    BY <1>3, <1>4, <2>1 DEF Trusted, Loading
<1>8. CASE Fetch(t)
  <2> DEFINE got == [r EXCEPT !.data = b]
  <2>1. s = Cleared(got, Children(At(t))) /\ red' = red /\ d' = d /\ c \in cut'
    BY <1>1, <1>8 DEF Fetch, At, disk
  <2>2. s.data = b /\ (s.pc = "extract" => s.todo = Parts) /\ s.pc \in {"extract", "clear"}
    BY <1>1, <2>1 DEF Cleared, Thread
  <2> HIDE DEF red, d, r, s
  <2>3. b \in s.since..b
    BY <1>2, <1>3, <1>4 DEF Loading, Versions
  <2> QED
    BY <1>3, <1>4, <2>1, <2>2, <2>3 DEF Trusted, Loading
<1>9. CASE ClearPart(t)
  <2>1. PICK p : th' = [Touch(t, {At(t)}) EXCEPT ![t] = Cleared(@, @.todo \ {p})]
    BY <1>9 DEF ClearPart
  <2>2. s = Cleared(r, r.todo \ {p}) /\ r.pc = "clear" /\ red' = red /\ cut' = cut
    BY <1>9, <2>1, TouchType DEF ClearPart, Is
  <2>3. s.data = r.data /\ (s.pc = "extract" => s.todo = Parts) /\ s.pc \in {"extract", "clear"}
    BY <1>1, <2>2 DEF Cleared, Thread
  <2>4. \A u \in Threads \ {t} : th'[u] = Touch(t, {At(t)})[u]
    BY <2>1, TouchType
  <2>5. ASSUME NEW u \in Threads \ {t}, At(u) = c PROVE ~th'[u].clean
    BY <1>1, <2>4, <2>5 DEF Touch, Thread, At
  <2> HIDE DEF red, d, r, s
  <2> QED
    BY <1>3, <1>4, <2>2, <2>3, <2>5 DEF Trusted, Loading
<1>10. CASE ClearExtracted(t)
  <2>1. s = r /\ red' = red /\ d' = d /\ cut' = cut \cup {"extracted"}
    BY <1>2, <1>10, TouchType DEF ClearExtracted, TypeInv, TypeOK
  <2>2. c \notin cut' <=> c \notin cut
    BY <1>2, <2>1
  <2> HIDE DEF red, d, r, s
  <2> QED
    BY <1>3, <2>1, <2>2 DEF Trusted, Loading
<1>11. CASE ClearFolder(t)
  <2>1. PICK a : th' = [Touch(t, {a, IF a = "resource" THEN "extracted" ELSE a})
                           EXCEPT ![t] = Cleared(@, @.todo \ {a})]
    BY <1>11 DEF ClearFolder
  <2>2. s = Cleared(r, r.todo \ {a}) /\ r.pc = "clear" /\ red' = red /\ d' = d /\ cut' = cut
    BY <1>11, <2>1, TouchType DEF ClearFolder, Is
  <2>3. s.data = r.data /\ (s.pc = "extract" => s.todo = Parts) /\ s.pc \in {"extract", "clear"}
    BY <1>1, <2>2 DEF Cleared, Thread
  <2> HIDE DEF red, d, r, s
  <2> QED
    BY <1>3, <1>4, <2>2, <2>3 DEF Trusted, Loading
<1>12. CASE ExtractPart(t)
  <2> DEFINE T == Touch(t, {At(t)})
  <2>1. PICK p \in r.todo :
          /\ dir' = [dir EXCEPT ![At(t)][p] = r.data]
          /\ th' = [T EXCEPT
                ![t].todo = @ \ {p}, ![t].key = <<th[t].data, th[t].data>>,
                ![t].pc = IF th[t].todo # {p} THEN "extract"
                          ELSE IF At(t) = "testdata" THEN "fmeta" ELSE "store"]
    BY <1>12 DEF ExtractPart
  <2>2. T \in [Threads -> Thread] /\ T[t] = r
    BY TouchType
  <2>3. /\ s.data = r.data /\ s.todo = r.todo \ {p} /\ s.key = <<r.data, r.data>>
        /\ r.pc = "extract" /\ red' = red /\ cut' = cut
        /\ s.pc = IF r.todo # {p} THEN "extract" ELSE "store"
    BY <1>1, <1>12, <2>1, <2>2 DEF ExtractPart, Is, At, Thread
  <2>4. d' = [d EXCEPT ![p] = r.data]
    BY <1>1, <1>2, <2>1 DEF At, TypeInv, TypeOK
  <2>5. \A u \in Threads \ {t} : th'[u] = T[u]
    BY <2>1, <2>2
  <2>6. ASSUME NEW u \in Threads \ {t}, At(u) = c PROVE ~th'[u].clean
    BY <1>1, <2>5, <2>6 DEF Touch, Thread, At
  <2> HIDE DEF red, d, r, s
  <2>7. \A q \in Parts \ s.todo : d'[q] = s.data
    BY <1>2, <1>3, <2>3, <2>4 DEF Loading
  <2>8. s.pc = "store" => d' = Whole(s.data)
    BY <1>2, <2>3, <2>4, <2>7 DEF Whole
  <2> QED
    BY <1>3, <1>4, <2>3, <2>6, <2>7, <2>8 DEF Trusted, Loading
<1>13. CASE FetchMeta(t)
  BY <1>3, <1>13 DEF FetchMeta, Is, Loading
<1>14. CASE Store(t)
  <2>1. /\ s.pc = "release" /\ r.pc = "store" /\ red' = r.key /\ d' = d /\ c \notin cut'
    BY <1>1, <1>2, <1>14 DEF Store, Step, Is, At, Thread, disk, TypeInv, TypeOK
  <2>2. r.data \in r.since..b /\ d = Whole(r.data) /\ r.key = <<r.data, r.data>>
    BY <1>3, <2>1 DEF Loading
  <2>3. Filling(r)
    BY <2>1 DEF Filling
  <2> HIDE DEF red, d, r, s
  <2>4. Held(s, b, d')
    BY <1>4, <2>1, <2>2 DEF Held
  <2>5. Trusted(b, red', d', c \notin cut')
    BY <1>2, <1>4, <2>1, <2>2 DEF Trusted, Versions
  <2> QED
    BY <1>3, <1>4, <2>1, <2>3, <2>4, <2>5 DEF Loading
<1> QED
  BY <1>5, <1>6, <1>7, <1>8, <1>9, <1>10, <1>11, <1>12, <1>13, <1>14 DEF ArchiveStep

(* The others that use the same archive are outside the with-block then;    *)
(* those that are undisturbed copy from the directory as it was.            *)
LEMMA LoadingOthers ==
  ASSUME TypeInv, LockInv, NoticedInv, NEW t \in Threads, ArchiveStep(t) \/ AssetStep(t),
         NEW c \in {"public", "accode"}, c \notin overrun, NEW b, b = backend[c],
         Trusted(b, redis[c], dir[c], c \notin cut),
         \A u \in Threads : At(u) = c => Loading(th[u], b, dir[c], c \notin cut)
  PROVE  /\ Trusted(b, redis'[c], dir'[c], c \notin cut')
         /\ \A u \in Threads : th'[u].at = c =>
              /\ Loading(th'[u], b, dir'[c], c \notin cut')
              /\ th'[u].clean /\ c \notin cut' /\ th'[u].pc \notin Section \cup {"acquire"} =>
                   /\ u # t /\ th[u].clean /\ c \notin cut /\ dir'[c] = dir[c]
<1>1. /\ Kept(t) /\ th[t].pc \in Section /\ th'[t].pc \in Section
      /\ th'[t].at = th[t].at
  BY InsideKeeps DEF Keeps, Stays
<1>2. \A u \in Threads \ {t} :
        /\ th'[u].pc = th[u].pc /\ th'[u].at = th[u].at /\ th'[u].since = th[u].since
        /\ th'[u].key = th[u].key /\ th'[u].data = th[u].data /\ th'[u].todo = th[u].todo
        /\ th'[u].clean => th[u].clean
  BY ZenonT(30), <1>1, ThreadTypes DEF Kept, Thread
<1>3. CASE At(t) = c
  <2>1. ArchiveStep(t)
    <3>1. Placed(th[t]) /\ At(t) = th[t].at
      BY ThreadTypes DEF At
    <3>2. ASSUME AssetStep(t) PROVE FALSE
      BY <1>3, <3>1, <3>2 DEF AssetStep, CompareFile, NotConfigured, Download, OpenFile,
         FillFile, SumZip, RemoveExtracted, OpenZip, UnzipPart, UnzipFails,
         StoreExtracted, Is, Placed, Unpacking, Comparing, Assets
    <3> QED
      BY <3>2
  <2>2. Loading(th[t], b, dir[c], c \notin cut)
    BY <1>3
  <2>3. /\ Trusted(b, redis'[c], dir'[c], c \notin cut')
        /\ Loading(th'[t], b, dir'[c], c \notin cut')
        /\ UNCHANGED dir[c] \/ \A u \in Threads \ {t} : At(u) = c => ~th'[u].clean
        /\ c \notin cut' => c \notin cut \/ Filling(th[t])
    BY <1>3, <2>1, <2>2, LoadingStep
  <2>4. ASSUME NEW u \in Threads \ {t}, th'[u].at = c
        PROVE  /\ Loading(th'[u], b, dir'[c], c \notin cut')
               /\ th'[u].clean /\ c \notin cut' /\ th'[u].pc \notin Section \cup {"acquire"} =>
                    /\ u # t /\ th[u].clean /\ c \notin cut /\ dir'[c] = dir[c]
    <3>1. At(u) = c /\ th'[u].pc = th[u].pc /\ th'[u].since = th[u].since
      BY <1>2, <2>4 DEF At
    <3>2. th[u].pc \notin Section
      BY <1>1, <1>3, <3>1 DEF LockInv, Mutex
    <3>3. Loading(th[u], b, dir[c], c \notin cut)
      BY <3>1
    <3>4. Loading(th'[u], b, dir'[c], c \notin cut')
      BY <3>1, <3>2, <3>3 DEF Loading, Section
    <3>5. ASSUME th'[u].clean, c \notin cut', th'[u].pc \notin Section \cup {"acquire"}
          PROVE  /\ u # t /\ th[u].clean /\ c \notin cut /\ dir'[c] = dir[c]
      <4>1. ~Filling(th[t])
        BY <1>2, <1>3, <3>1, <3>5 DEF NoticedInv, Noticed, At, Archives
      <4> QED
        BY <1>2, <2>3, <3>1, <3>5, <4>1
    <3> QED
      BY <3>4, <3>5
  <2> QED
    BY <1>1, <2>3, <2>4
<1>4. CASE At(t) # c
  <2>1. UNCHANGED <<redis[c], dir[c]>> /\ (c \in cut' <=> c \in cut)
    BY <1>4, OtherDirs DEF Archives
  <2>2. ASSUME NEW u \in Threads, th'[u].at = c
        PROVE  /\ Loading(th'[u], b, dir'[c], c \notin cut')
               /\ th'[u].clean /\ c \notin cut' /\ th'[u].pc \notin Section \cup {"acquire"} =>
                    /\ u # t /\ th[u].clean /\ c \notin cut /\ dir'[c] = dir[c]
    <3>1. u # t
      BY <1>1, <1>4, <2>2 DEF At
    <3>2. Loading(th[u], b, dir[c], c \notin cut)
      BY <1>2, <2>2, <3>1 DEF At
    <3>3. Loading(th'[u], b, dir'[c], c \notin cut')
      BY <1>2, <2>1, <3>1, <3>2 DEF Loading, Held
    <3> QED
      BY <1>2, <2>1, <3>1, <3>3
  <2> QED
    BY <2>1, <2>2
<1> QED
  BY <1>3, <1>4

(* Outside the with-blocks a thread begins with an archive, or stays.       *)
LEMMA OutsideLoads ==
  ASSUME TypeInv, NEW t \in Threads, NEW r, r = th[t], NEW s, s = th'[t],
         Use(t) \/ Acquire(t) \/ MakeFolder(t) \/ Leave(t) \/ Submit(t)
  PROVE  /\ s.pc \notin {"compare", "fetch", "clear", "extract", "fmeta", "store", "release"}
         /\ s.at \in {"public", "accode"} =>
              \/ s.at = r.at /\ s.since = r.since /\ s.clean = r.clean
              \/ s.pc \in {"mkdir", "acquire"} /\ s.since = backend[s.at]
<1> USE DEF Keeps, Stays, Begun, Gone
<1>1. CASE Acquire(t) \/ MakeFolder(t)
  BY <1>1, CaseSteps
<1>2. CASE Leave(t)
  BY <1>2, LeaveSteps
<1>3. CASE Submit(t)
  BY <1>3, SubmitSteps
<1>4. CASE GetMeta(t) \/ NoMeta(t) \/ ListCases(t) \/ CasesCopied(t)
  BY <1>4, CaseSteps
<1>5. CASE CopyCase(t)
  BY <1>5, CaseSteps
<1>6. CASE FindInputs(t) \/ DownloadCases(t) \/ CompileAC(t)
  BY <1>6, TrialSteps
<1>7. CASE CopyInput(t)
  BY <1>7, TrialSteps
<1>8. CASE WriteOutput(t)
  BY <1>8, TrialSteps
<1>9. CASE OutputsWritten(t)
  BY <1>9, TrialSteps
<1>10. CASE Handle(t)
  BY <1>10, HandleSteps
<1>11. CASE TakeChecker(t) \/ PrepareResource(t)
  BY <1>11, HandleSteps
<1>12. CASE ListResource(t) \/ ResourceCopied(t) \/ Answer(t)
  BY <1>12, HandleSteps
<1>13. CASE CopyResource(t)
  BY <1>13, HandleSteps
<1> QED
  BY <1>1, <1>2, <1>3, <1>4, <1>5, <1>6, <1>7, <1>8, <1>9, <1>10, <1>11, <1>12, <1>13
     DEF Use

(* A record there says nothing of the archive but its age.                  *)
LEMMA LoadingOutside ==
  ASSUME TypeInv, NEW t \in Threads, NEW c \in {"public", "accode"},
         Use(t) \/ Acquire(t) \/ MakeFolder(t) \/ Leave(t) \/ Submit(t),
         NEW d, NEW ok, At(t) = c => Loading(th[t], backend[c], d, ok), th'[t].at = c
  PROVE  Loading(th'[t], backend[c], d, ok)
<1>1. backend[c] \in Versions
  BY DEF TypeInv, TypeOK, Items
<1>2. th'[t].since <= backend[c]
  BY <1>1, OutsideLoads DEF Loading, At, Versions
<1> QED
  BY <1>2, OutsideLoads DEF Loading

(* The public test cases are copied to a submission directory.              *)
LEMMA CopyPublic ==
  ASSUME TypeInv, NEW t \in Threads, GetMeta(t) \/ ListCases(t) \/ CopyCase(t) \/ CasesCopied(t),
         NEW r, r = th[t], r.kind = "public", r.stage # "trial",
         NEW s, s = th'[t], NEW d, d = dir["public"],
         NEW b \in Versions, Copying(r, b, d)
  PROVE  Copying(s, b, d)
<1>1. r \in Thread /\ d \in [Parts -> 0..MaxVersion]
  BY DEF TypeInv, TypeOK, Archives
<1>2. r.since \in Versions /\ r.copy \in [Parts -> 0..Torn]
  BY <1>1 DEF Thread
<1> USE DEF Keeps, Stays
<1>3. CASE GetMeta(t)
  <2>1. r.pc = "meta" /\ s.pc = "list" /\ s.since = r.since
    BY <1>3, CaseSteps
  <2> QED
    BY <2>1 DEF Copying, Held
<1>4. CASE ListCases(t)
  <2>1. r.pc = "list" /\ s.pc = "copy" /\ s.since = r.since /\ s.todo = Cases(t)
    BY <1>4, CaseSteps
  <2>2. PICK v \in r.since..b : d = Whole(v)
    BY <2>1 DEF Copying, Held
  <2>3. Cases(t) = Parts
    BY <1>2, <2>2 DEF Cases, Source, Whole, Absent, Versions
  <2> QED
    BY <2>1, <2>2, <2>3 DEF Copying
<1>5. CASE CopyCase(t)
  <2>1. CASE Gone(s)
    BY <2>1 DEF Gone, Copying
  <2>2. CASE ~Gone(s)
    <3>1. r.pc = "copy" /\ s.pc = "copy" /\ s.since = r.since
      BY <1>5, <2>2, CaseSteps
    <3>2. PICK p \in r.todo : /\ s.todo = r.todo \ {p}
                              /\ s.copy = [r.copy EXCEPT ![p] = d[p]]
      <4>1. Source(t) = d
        BY DEF Source
      <4>2. Copies(r, s, Cases(t), Source(t))
        BY <1>5, <2>2, CaseSteps
      <4> QED
        BY <4>1, <4>2 DEF Copies
    <3>3. PICK v \in r.since..b : d = Whole(v) /\ \A q \in Parts \ r.todo : r.copy[q] = v
      BY <3>1 DEF Copying
    <3>4. \A q \in Parts \ s.todo : s.copy[q] = v
      BY <1>2, <3>2, <3>3 DEF Whole
    <3> QED
      BY <3>1, <3>3, <3>4 DEF Copying
  <2> QED
    BY <2>1, <2>2
<1>6. CASE CasesCopied(t)
  <2>1. /\ r.pc = "copy" /\ r.todo = {} /\ s.pc = "copied"
        /\ s.since = r.since /\ s.copy = r.copy
    BY <1>6, CaseSteps
  <2>2. PICK v \in r.since..b : \A q \in Parts \ r.todo : r.copy[q] = v
    BY <2>1 DEF Copying
  <2>3. s.copy = Whole(v)
    BY <1>2, <2>1, <2>2 DEF Whole
  <2> QED
    BY <2>1, <2>2, <2>3 DEF Copying
<1> QED
  BY <1>3, <1>4, <1>5, <1>6

(* Only those steps, and the end of the with-block, lead there.             *)
LEMMA ElsewherePublic ==
  ASSUME TypeInv, KindInv, NEW t \in Threads, NEW r, r = th[t], NEW s, s = th'[t],
         \/ Acquire(t) \/ MakeFolder(t) \/ Submit(t) \/ NoMeta(t)
         \/ FindInputs(t) \/ DownloadCases(t) \/ CopyInput(t)
         \/ CompileAC(t) \/ WriteOutput(t) \/ OutputsWritten(t)
         \/ Handle(t) \/ TakeChecker(t) \/ PrepareResource(t)
         \/ ListResource(t) \/ CopyResource(t) \/ ResourceCopied(t) \/ Answer(t),
         s.at = "public"
  PROVE  s.pc \notin {"meta", "list", "copy", "copied"}
<1> USE DEF Keeps, Stays, Begun, Gone
<1>1. CASE Acquire(t) \/ MakeFolder(t) \/ NoMeta(t)
  BY <1>1, CaseSteps
<1>2. CASE Submit(t)
  BY <1>2, SubmitSteps
<1>3. CASE FindInputs(t) \/ DownloadCases(t) \/ CompileAC(t)
  BY <1>3, TrialSteps
<1>4. CASE CopyInput(t)
  BY <1>4, TrialSteps
<1>5. CASE WriteOutput(t)
  BY <1>5, TrialSteps
<1>6. CASE OutputsWritten(t)
  BY <1>6, TrialSteps DEF KindInv, Kinds
<1>7. CASE Handle(t)
  BY <1>7, HandleSteps
<1>8. CASE TakeChecker(t) \/ PrepareResource(t)
  BY <1>8, HandleSteps
<1>9. CASE ListResource(t) \/ ResourceCopied(t) \/ Answer(t)
  BY <1>9, HandleSteps
<1>10. CASE CopyResource(t)
  BY <1>10, HandleSteps
<1> QED
  BY <1>1, <1>2, <1>3, <1>4, <1>5, <1>6, <1>7, <1>8, <1>9, <1>10

(* What is said of one archive when the backend changes, a checksum or a    *)
(* lock runs out, or the process dies.                                      *)
LEMMA LoadingLater ==
  ASSUME NEW r \in Thread, NEW b \in Versions, NEW d, NEW ok, Loading(r, b, d, ok)
  PROVE  Loading(r, b + 1, d, ok)
<1>1. r.since \in Versions /\ r.key \in Key
  BY DEF Thread
<1>2. r.since..b \subseteq r.since..(b + 1) /\ r.since <= b + 1
  BY <1>1 DEF Loading, Versions
<1>3. r.pc = "compare" => r.key # <<b + 1, b + 1>> /\ r.key[1] <= b + 1
  BY <1>1 DEF Loading, Key, Versions
<1>4. r.pc = "release" /\ ok => Held(r, b + 1, d)
  BY <1>2 DEF Loading, Held
<1> QED
  BY <1>2, <1>3, <1>4 DEF Loading

LEMMA CopyingLater ==
  ASSUME NEW r \in Thread, NEW b \in Versions, NEW d, Copying(r, b, d)
  PROVE  Copying(r, b + 1, d)
<1>1. r.since \in Versions
  BY DEF Thread
<1>2. r.since..b \subseteq r.since..(b + 1)
  BY <1>1 DEF Versions
<1>3. r.pc = "copy" => \E v \in r.since..(b + 1) :
                         d = Whole(v) /\ \A p \in Parts \ r.todo : r.copy[p] = v
  BY <1>2 DEF Copying
<1>4. r.pc = "copied" => \E v \in r.since..(b + 1) : r.copy = Whole(v)
  BY <1>2 DEF Copying
<1> QED
  BY <1>2, <1>3, <1>4 DEF Copying, Held

LEMMA TrustedLater ==
  ASSUME NEW b \in Versions, NEW red \in Key, NEW d, NEW ok, Trusted(b, red, d, ok)
  PROVE  Trusted(b + 1, red, d, ok)
BY DEF Trusted, Key, Versions

LEMMA TrustedLost ==
  ASSUME NEW b \in Versions, NEW d, NEW ok
  PROVE  Trusted(b, NoKey, d, ok)
BY DEF Trusted, NoKey, Versions

LEMMA AsleepLoads ==
  ASSUME NEW b \in Versions, NEW d, NEW ok
  PROVE  Loading(Asleep, b, d, ok) /\ Copying(Asleep, b, d)
BY DEF Loading, Copying, Asleep, Versions

(* A record that differs in other fields says the same.                     *)
LEMMA SameLoads ==
  ASSUME NEW r, NEW s, NEW b, NEW d, NEW ok,
         s.pc = r.pc, s.since = r.since, s.key = r.key,
         s.data = r.data, s.todo = r.todo, s.copy = r.copy
  PROVE  /\ Loading(r, b, d, ok) => Loading(s, b, d, ok)
         /\ Copying(r, b, d) => Copying(s, b, d)
BY DEF Loading, Copying, Held

(* The public test data are refreshed, and copied afterwards.               *)
PublicInv ==
  "public" \notin overrun =>
     /\ Trusted(backend["public"], redis["public"], dir["public"], "public" \notin cut)
     /\ \A t \in Threads : At(t) = "public" =>
          /\ Loading(th[t], backend["public"], dir["public"], "public" \notin cut)
          /\ th[t].clean /\ "public" \notin cut =>
               Copying(th[t], backend["public"], dir["public"])

(* What happens around the threads: the caches' directories stay as they    *)
(* are, a checksum or a thread is lost, the backend moves on by one version.*)
EnvironmentStep ==
  \/ \E c \in Caches : ExpireHeld(c) \/ ExpireLost(c)
  \/ \E c \in Archives : ExpireKey(c)
  \/ \E t \in Threads : EndTrial(t)
  \/ \E i \in Items : Update(i)
  \/ Crash

Same(r, s) ==
  /\ s.pc = r.pc /\ s.at = r.at /\ s.kind = r.kind /\ s.stage = r.stage
  /\ s.since = r.since /\ s.key = r.key /\ s.data = r.data
  /\ s.todo = r.todo /\ s.copy = r.copy

LEMMA EnvironmentKeeps ==
  ASSUME TypeInv, EnvironmentStep
  PROVE  /\ UNCHANGED <<dir, file, cut>> /\ overrun \subseteq overrun'
         /\ \A c \in Archives : redis'[c] \in {redis[c], NoKey}
         /\ backend' \in [Items -> Versions]
         /\ \A i \in Items : backend'[i] \in {backend[i], backend[i] + 1}
         /\ \A u \in Threads :
              /\ \/ th'[u] = Asleep
                 \/ Same(th[u], th'[u]) /\ th'[u].clean = th[u].clean
              /\ \/ trial'[u] = trial[u]
                 \/ th[u].pc = "idle" /\ th'[u] = th[u]
<1>1. /\ redis \in [Archives -> Key] /\ backend \in [Items -> Versions]
      /\ trial \in [Threads -> Trial]
  BY DEF TypeInv, TypeOK, Trial
<1>0. ASSUME UNCHANGED <<backend, redis>>
      PROVE  /\ backend' \in [Items -> Versions]
             /\ \A c \in Archives : redis'[c] \in {redis[c], NoKey}
             /\ \A i \in Items : backend'[i] \in {backend[i], backend[i] + 1}
  BY <1>0, <1>1
<1>2. CASE \E c \in Caches : ExpireHeld(c)
  <2>1. PICK c \in Caches : ExpireHeld(c)
    BY <1>2
  <2>2. /\ UNCHANGED <<backend, redis, dir, file, trial, cut>> /\ overrun \subseteq overrun'
        /\ \A u \in Threads :
             /\ Keeps(th[u], th'[u]) /\ th'[u].pc = th[u].pc /\ th'[u].todo = th[u].todo
             /\ th'[u].key = th[u].key /\ th'[u].data = th[u].data
    BY <2>1, HeldKeeps
  <2>3. \A u \in Threads : Same(th[u], th'[u]) /\ th'[u].clean = th[u].clean
    BY <2>2 DEF Keeps, Stays, Same
  <2> QED
    BY <1>0, <2>2, <2>3
<1>3. CASE \E c \in Archives : ExpireKey(c)
  BY <1>1, <1>3 DEF ExpireKey, world, disk, Same
<1>4. CASE \E c \in Caches : ExpireLost(c)
  <2>1. UNCHANGED <<backend, redis, dir, file, trial, th, overrun, cut>>
    BY <1>4 DEF ExpireLost, world, disk
  <2> QED
    BY <1>0, <2>1 DEF Same
<1>5. CASE \E t \in Threads : EndTrial(t)
  <2>1. PICK t \in Threads : EndTrial(t)
    BY <1>5
  <2>2. /\ UNCHANGED <<backend, redis, dir, file, th, overrun, cut>> /\ th[t].pc = "idle"
        /\ trial' = [trial EXCEPT ![t] = [in |-> {}, out |-> Nothing]]
    BY <2>1 DEF EndTrial, Is, world
  <2>3. \A u \in Threads : u # t => trial'[u] = trial[u]
    BY <1>1, <2>2
  <2> QED
    BY <1>0, <2>2, <2>3 DEF Same
<1>6. CASE \E i \in Items : Update(i)
  <2>1. PICK i \in Items : Update(i)
    BY <1>6
  <2>2. UNCHANGED <<redis, dir, file, trial, th, overrun, cut>>
    BY <2>1 DEF Update, disk
  <2>3. backend' = [backend EXCEPT ![i] = @ + 1] /\ backend[i] < MaxVersion
    BY <2>1 DEF Update
  <2>4. backend[i] + 1 \in Versions
    BY <1>1, <2>3, CacheAssumption DEF Versions
  <2>5. /\ backend' \in [Items -> Versions]
        /\ \A j \in Items : backend'[j] \in {backend[j], backend[j] + 1}
    BY <1>1, <2>3, <2>4
  <2> QED
    BY <1>1, <2>2, <2>5 DEF Same
<1>7. CASE Crash
  <2>1. UNCHANGED <<backend, redis, dir, file, trial, overrun, cut>>
    BY <1>7 DEF Crash, world, disk
  <2>2. \A u \in Threads : th'[u] = Asleep
    BY <1>7 DEF Crash
  <2> QED
    BY <1>0, <2>1, <2>2
<1> QED
  BY <1>2, <1>3, <1>4, <1>5, <1>6, <1>7 DEF EnvironmentStep

LEMMA EnvironmentPublic ==
  ASSUME TypeInv, PublicInv, EnvironmentStep
  PROVE  PublicInv'
<1> DEFINE b == backend["public"]
<1> DEFINE red == redis["public"]
<1> DEFINE d == dir["public"]
<1> DEFINE ok == "public" \notin cut
<1>1. b \in Versions /\ red \in Key /\ \A u \in Threads : th[u] \in Thread
  BY ThreadTypes DEF TypeInv, TypeOK, Items, Archives
<1>2. /\ b' \in Versions /\ d' = d /\ ok' = ok /\ overrun \subseteq overrun'
      /\ b' \in {b, b + 1} /\ red' \in {red, NoKey}
      /\ \A u \in Threads : \/ th'[u] = Asleep
                            \/ Same(th[u], th'[u]) /\ th'[u].clean = th[u].clean
  BY EnvironmentKeeps DEF Items, Archives
<1>3. SUFFICES ASSUME "public" \notin overrun'
               PROVE  /\ Trusted(b', red', d', ok')
                      /\ \A u \in Threads : th'[u].at = "public" =>
                           /\ Loading(th'[u], b', d', ok')
                           /\ th'[u].clean /\ ok' => Copying(th'[u], b', d')
  BY DEF PublicInv, At
<1>4. /\ Trusted(b, red, d, ok)
      /\ \A u \in Threads : th[u].at = "public" =>
           /\ Loading(th[u], b, d, ok)
           /\ th[u].clean /\ ok => Copying(th[u], b, d)
  BY <1>2, <1>3 DEF PublicInv, At
<1> HIDE DEF b, red, d, ok
<1>5. Trusted(b', red', d, ok)
  BY <1>1, <1>2, <1>4, TrustedLater, TrustedLost
<1>6. ASSUME NEW u \in Threads, th'[u].at = "public"
      PROVE  /\ Loading(th'[u], b', d, ok)
             /\ th'[u].clean /\ ok => Copying(th'[u], b', d)
  <2>1. CASE th'[u] = Asleep
    BY <1>2, <2>1, AsleepLoads
  <2>2. CASE Same(th[u], th'[u]) /\ th'[u].clean = th[u].clean
    <3>1. /\ Loading(th[u], b', d, ok)
          /\ th[u].clean /\ ok => Copying(th[u], b', d)
      BY <1>1, <1>2, <1>4, <1>6, <2>2, LoadingLater, CopyingLater DEF Same
    <3>2. /\ Loading(th[u], b', d, ok) => Loading(th'[u], b', d, ok)
          /\ Copying(th[u], b', d) => Copying(th'[u], b', d)
      BY <2>2, SameLoads DEF Same
    <3> QED
      BY <2>2, <3>1, <3>2
  <2> QED
    BY <1>2, <2>1, <2>2
<1> QED
  BY <1>2, <1>5, <1>6

(* The with-block left, the directory is the version that was loaded.       *)
LEMMA LeavePublic ==
  ASSUME TypeInv, NEW t \in Threads, Leave(t), NEW r, r = th[t], NEW s, s = th'[t],
         s.at = "public", NEW b, NEW d, Loading(r, b, d, TRUE)
  PROVE  Copying(s, b, d)
<1> USE DEF Keeps, Stays, Gone
<1>1. CASE r.pc = "release" /\ s.pc = "meta" /\ Keeps(r, s)
  BY <1>1 DEF Loading, Copying, Held
<1>2. CASE s.pc \notin {"meta", "list", "copy", "copied"}
  BY <1>2 DEF Copying
<1> QED
  BY <1>1, <1>2, LeaveSteps

LEMMA NextPublic ==
  TypeInv /\ LockInv /\ KindInv /\ NoticedInv /\ PublicInv /\ [Next]_cvars => PublicInv'
<1> SUFFICES ASSUME TypeInv, LockInv, KindInv, NoticedInv, PublicInv, [Next]_cvars
             PROVE  PublicInv'
  OBVIOUS
<1> DEFINE b == backend["public"]
<1> DEFINE d == dir["public"]
<1> DEFINE ok == "public" \notin cut
<1>1. b \in Versions /\ \A u \in Threads : th[u] \in Thread /\ Kinds(th[u])
  BY ThreadTypes DEF TypeInv, TypeOK, Items, KindInv
<1>2. "public" \notin overrun =>
        /\ Trusted(b, redis["public"], d, ok)
        /\ \A u \in Threads : th[u].at = "public" =>
             /\ Loading(th[u], b, d, ok)
             /\ th[u].clean /\ ok => Copying(th[u], b, d)
  BY DEF PublicInv, At
<1>3. CASE UNCHANGED cvars
  BY <1>3 DEF cvars, world, disk, PublicInv, At
<1>4. ASSUME NEW t \in Threads,
             Use(t) \/ Acquire(t) \/ MakeFolder(t) \/ Leave(t) \/ Submit(t)
      PROVE  PublicInv'
  <2>1. UNCHANGED <<backend, redis, dir, overrun, cut>> /\ Kept(t)
    BY <1>4, OutsideKeeps
  <2>2. SUFFICES ASSUME "public" \notin overrun, NEW u \in Threads, th'[u].at = "public"
                 PROVE  /\ Loading(th'[u], b, d, ok)
                        /\ th'[u].clean /\ ok => Copying(th'[u], b, d)
    BY <1>2, <2>1 DEF PublicInv, At
  <2>3. CASE u # t
    <3>1. th'[u] \in {th[u], [th[u] EXCEPT !.clean = FALSE]}
      BY <2>1, <2>3 DEF Kept
    <3>2. /\ th'[u].pc = th[u].pc /\ th'[u].at = th[u].at /\ th'[u].since = th[u].since
          /\ th'[u].key = th[u].key /\ th'[u].data = th[u].data
          /\ th'[u].todo = th[u].todo /\ th'[u].copy = th[u].copy
          /\ th'[u].clean => th[u].clean
      BY <1>1, <3>1 DEF Thread
    <3> HIDE DEF b, d, ok
    <3>3. /\ Loading(th[u], b, d, ok) => Loading(th'[u], b, d, ok)
          /\ Copying(th[u], b, d) => Copying(th'[u], b, d)
      BY <3>2, SameLoads
    <3> QED
      BY <1>2, <2>2, <3>2, <3>3
  <2>4. CASE u = t
    <3>1. Loading(th'[t], b, d, ok)
      BY <1>2, <1>4, <2>2, <2>4, LoadingOutside DEF At
    <3>2. \/ th'[t].at = th[t].at /\ th'[t].since = th[t].since /\ th'[t].clean = th[t].clean
          \/ th'[t].pc \in {"mkdir", "acquire"}
      BY <1>4, <2>2, <2>4, OutsideLoads
    <3>3. ASSUME th'[t].clean, ok PROVE Copying(th'[t], b, d)
      <4>1. CASE th'[t].pc \notin {"meta", "list", "copy", "copied"}
        BY <4>1 DEF Copying
      <4>2. CASE th'[t].pc \in {"meta", "list", "copy", "copied"}
        <5>1. th[t].at = "public" /\ th[t].clean /\ th[t].kind = "public"
              /\ th[t].stage # "trial"
          BY <1>1, <2>2, <2>4, <3>2, <3>3, <4>2 DEF Kinds
        <5>2. Loading(th[t], b, d, TRUE) /\ Copying(th[t], b, d)
          <6>1. Loading(th[t], b, d, ok) /\ Copying(th[t], b, d)
            BY <1>2, <2>2, <3>3, <5>1
          <6>2. ok = TRUE
            BY <3>3
          <6> QED
            BY <3>3, <6>1, <6>2
        <5>3. CASE Leave(t)
          BY <2>2, <2>4, <5>2, <5>3, LeavePublic
        <5>4. CASE GetMeta(t) \/ ListCases(t) \/ CopyCase(t) \/ CasesCopied(t)
          BY <1>1, <5>1, <5>2, <5>4, CopyPublic
        <5> QED
          BY <1>4, <2>2, <2>4, <4>2, <5>3, <5>4, ElsewherePublic DEF Use
      <4> QED
        BY <4>1, <4>2
    <3> QED
      BY <2>4, <3>1, <3>3
  <2> QED
    BY <2>3, <2>4
<1>5. ASSUME NEW t \in Threads, ArchiveStep(t) \/ AssetStep(t)
      PROVE  PublicInv'
  <2>1. UNCHANGED <<backend, overrun>> /\ Kept(t)
    BY <1>5, InsideKeeps
  <2>2. SUFFICES ASSUME "public" \notin overrun
                 PROVE  /\ Trusted(b, redis'["public"], d', ok')
                        /\ \A u \in Threads : th'[u].at = "public" =>
                             /\ Loading(th'[u], b, d', ok')
                             /\ th'[u].clean /\ ok' => Copying(th'[u], b, d')
    BY <2>1 DEF PublicInv, At
  <2>3. /\ Trusted(b, redis'["public"], d', ok')
        /\ \A u \in Threads : th'[u].at = "public" =>
             /\ Loading(th'[u], b, d', ok')
             /\ th'[u].clean /\ ok' /\ th'[u].pc \notin Section \cup {"acquire"} =>
                  u # t /\ th[u].clean /\ ok /\ d' = d
    BY <1>2, <1>5, <2>2, LoadingOthers DEF At
  <2>4. ASSUME NEW u \in Threads, th'[u].at = "public", th'[u].clean, ok'
        PROVE  Copying(th'[u], b, d')
    <3>1. CASE th'[u].pc \in Section \cup {"acquire"}
      BY <3>1 DEF Copying, Section
    <3>2. CASE th'[u].pc \notin Section \cup {"acquire"}
      <4>1. u # t /\ th[u].clean /\ ok /\ d' = d
        BY <2>3, <2>4, <3>2
      <4>2. th'[u] = th[u]
        <5>1. th'[u] = th[u] \/ th'[u] = [th[u] EXCEPT !.clean = FALSE]
          BY <2>1, <4>1 DEF Kept
        <5> QED
          BY <1>1, <2>4, <5>1 DEF Thread
      <4> QED
        BY <1>2, <2>2, <2>4, <4>1, <4>2
    <3> QED
      BY <3>1, <3>2
  <2> QED
    BY <2>3, <2>4
<1>6. CASE Environment
  BY <1>4, <1>6, EnvironmentPublic DEF Environment, EnvironmentStep
<1> QED
  BY <1>3, <1>4, <1>5, <1>6 DEF Next, Idle, ThreadStep, Refresh, ArchiveStep, AssetStep

(* The beginning, for every invariant of this part.                         *)
LEMMA InitNoticed == Init => NoticedInv /\ PublicInv
<1> SUFFICES ASSUME Init PROVE NoticedInv /\ PublicInv
  OBVIOUS
<1>1. \A u \in Threads : th[u] = Asleep
  BY DEF Init
<1>2. NoticedInv
  BY <1>1 DEF NoticedInv, Noticed, Filling, Asleep
<1>3. backend["public"] = 1 /\ redis["public"] = NoKey
  BY DEF Init, Items, Archives
<1>4. 1 \in Versions
  BY Numbers
<1>5. PublicInv
  BY <1>1, <1>3, <1>4, AsleepLoads, TrustedLost DEF PublicInv
<1> QED
  BY <1>2, <1>5

(* The same for the public test data, except after a refresh that was cut   *)
(* off: its checksum may still be the backend's.                            *)
THEOREM WholePublic == Spec => []FreshPublic
<1> DEFINE Inv == TypeInv /\ LockInv /\ KindInv /\ NoticedInv /\ PublicInv
<1>1. Init => Inv
  BY InitTypes, InitLocks, InitFresh, InitNoticed
<1>2. Inv /\ [Next]_cvars => Inv'
  BY NextTypes, NextLocks, NextKinds, NextNoticed, NextPublic
<1>3. Inv => FreshPublic
  <2> SUFFICES ASSUME Inv, NEW t \in Threads, Is(t, "copied"), th[t].kind = "public",
                      th[t].clean, "public" \notin overrun \cup cut
               PROVE  FreshWhole(t)
    BY DEF FreshPublic
  <2>1. th[t].since \in Versions /\ backend["public"] \in Versions
    BY ThreadTypes DEF Thread, TypeInv, TypeOK, Items
  <2>2. At(t) = "public"
    BY DEF KindInv, Kinds, Is, At
  <2>3. PICK v \in th[t].since..backend["public"] : th[t].copy = Whole(v)
    BY <2>2 DEF PublicInv, Copying, Is
  <2>4. v \in Versions /\ v >= th[t].since
    BY <2>1, CacheAssumption DEF Versions
  <2> QED
    BY <2>3, <2>4 DEF FreshWhole
<1> QED
  BY <1>1, <1>2, <1>3, PTL DEF Spec

-----------------------------------------------------------------------------
(* The custom test data of a trial have been written.                       *)
Prepared(r) ==
  \/ r.pc \in {"list", "copy", "copied"}
  \/ r.pc = "meta" /\ r.stage # "trial"
  \/ r.at = "checker" /\ r.stage = "trial" /\ r.pc \in Section \cup {"mkdir", "acquire"}

(* The inputs in w of a custom trial have their answers from the moment     *)
(* they are all written, and so has the copy made of them.                  *)
Answered(r, w) ==
  /\ w.in = {} => w.out = Nothing
  /\ r.pc = "tdown" => w.in = {}
  /\ r.pc = "tcopy" => w.out = Nothing
  /\ r.at = "accode" /\ r.pc \in Section \cup {"acquire", "compile"} => w.out = Nothing
  /\ r.pc = "outputs" => /\ r.todo \subseteq w.in
                         /\ \A p \in w.in \ r.todo : w.out[p] # Absent
  /\ r.kind = "custom" =>
       /\ Prepared(r) => \A p \in w.in : w.out[p] # Absent
       /\ r.pc = "copy" => \A p \in w.in \ r.todo : r.copy[p] = w.out[p]
       /\ r.pc = "copied" => \A p \in w.in : r.copy[p] = w.out[p]

AnsweredInv == \A t \in Threads : Answered(th[t], trial[t])

(* A record that differs in other fields says the same.                     *)
LEMMA SameAnswers ==
  ASSUME NEW r, NEW s, NEW w, Answered(r, w),
         s.pc = r.pc, s.at = r.at, s.kind = r.kind, s.stage = r.stage,
         s.todo = r.todo, s.copy = r.copy
  PROVE  Answered(s, w)
BY DEF Answered, Prepared

(* The inputs of a trial are found or written, and then their answers.      *)
LEMMA TrialAnswers ==
  ASSUME TypeInv, NEW t \in Threads, NEW r, r = th[t], NEW s, s = th'[t],
         NEW w, w = trial[t], NEW x, x = trial'[t], Answered(r, w), Kinds(r),
         \/ FindInputs(t) \/ DownloadCases(t) \/ CopyInput(t)
         \/ CompileAC(t) \/ WriteOutput(t) \/ OutputsWritten(t)
  PROVE  Answered(s, x)
<1>1. /\ trial \in [Threads -> [in : SUBSET Parts, out : [Parts -> 0..Torn]]]
      /\ r \in Thread
  BY DEF TypeInv, TypeOK
<1>2. w \in [in : SUBSET Parts, out : [Parts -> 0..Torn]]
  BY <1>1
<1> USE DEF Keeps, Stays, Begun, Gone
<1>3. CASE FindInputs(t)
  <2>1. r.pc = "tlist"
    BY <1>3, TrialSteps
  <2>2. CASE s.pc = "tdown" /\ w.in = {} /\ x = w
    BY <2>2 DEF Answered, Prepared, Section
  <2>3. CASE s.at = "accode" /\ s.pc = "acquire" /\ trial' = [trial EXCEPT ![t].out = Nothing]
    <3>1. x.out = Nothing
      BY <1>1, <2>3
    <3> QED
      BY <2>3, <3>1 DEF Answered, Prepared, Section
  <2> QED
    BY <1>3, <2>2, <2>3, TrialSteps
<1>4. CASE DownloadCases(t)
  <2>1. x = w
    BY <1>4 DEF DownloadCases, disk
  <2> QED
    BY <1>4, <2>1, TrialSteps DEF Answered, Prepared, Section
<1>5. CASE CopyInput(t)
  <2>1. PICK p \in r.todo : trial' = [trial EXCEPT ![t].in = @ \cup {p}]
    BY <1>5, TrialSteps
  <2>2. x.in = w.in \cup {p} /\ x.out = w.out
    BY <1>1, <2>1
  <2>3. /\ r.pc = "tcopy"
        /\ \/ s.at = "accode" /\ s.pc = "acquire"
           \/ s.at = r.at /\ s.pc = "tcopy"
    BY <1>5, TrialSteps
  <2> QED
    BY <2>2, <2>3 DEF Answered, Prepared, Section
<1>6. CASE CompileAC(t)
  <2>1. x = w
    BY <1>6 DEF CompileAC, disk
  <2>2. \/ s.at = "testdata" /\ s.pc \in {"idle", "failed"}
        \/ s.at = r.at /\ s.pc = "outputs" /\ s.todo = w.in
    BY <1>6, TrialSteps
  <2> QED
    BY <2>1, <2>2 DEF Answered, Prepared, Section
<1>7. CASE WriteOutput(t)
  <2>1. PICK p \in r.todo : \E v \in Versions \cup {Torn} :
          /\ s.todo = r.todo \ {p}
          /\ trial' = [trial EXCEPT ![t].out[p] = IF @ = Absent THEN v ELSE @]
    BY <1>7, TrialSteps
  <2>2. PICK v \in Versions \cup {Torn} :
          /\ s.todo = r.todo \ {p}
          /\ trial' = [trial EXCEPT ![t].out[p] = IF @ = Absent THEN v ELSE @]
    BY <2>1
  <2>3. x.in = w.in /\ x.out = [w.out EXCEPT ![p] = IF @ = Absent THEN v ELSE @]
    BY <1>1, <2>2
  <2>4. r.pc = "outputs" /\ s.pc = "outputs" /\ s.at = r.at
    BY <1>7, TrialSteps
  <2>5. v # Absent
    BY CacheAssumption DEF Versions, Torn, Absent
  <2>6. r.todo \subseteq w.in /\ \A q \in w.in \ r.todo : w.out[q] # Absent
    BY <2>4 DEF Answered
  <2>7. \A q \in w.in \ s.todo : x.out[q] # Absent
    BY <1>2, <2>2, <2>3, <2>5, <2>6
  <2>8. s.todo \subseteq x.in /\ x.in # {}
    BY <2>1, <2>2, <2>3, <2>6
  <2> QED
    BY <2>3, <2>4, <2>7, <2>8 DEF Answered, Prepared, Section
<1>8. CASE OutputsWritten(t)
  <2>1. x = w
    BY <1>8 DEF OutputsWritten, disk
  <2>2. /\ r.pc = "outputs" /\ r.todo = {}
        /\ \/ s.at = "checker" /\ s.pc = "mkdir"
           \/ s.pc = "meta"
    BY <1>8, TrialSteps
  <2>3. \A p \in w.in : w.out[p] # Absent
    BY <2>2 DEF Answered
  <2> QED
    BY <2>1, <2>2, <2>3 DEF Answered, Prepared, Section
<1> QED
  BY <1>3, <1>4, <1>5, <1>6, <1>7, <1>8

(* What is copied is answered.                                              *)
LEMMA CopyAnswers ==
  ASSUME TypeInv, NEW t \in Threads, NEW r, r = th[t], NEW s, s = th'[t],
         NEW w, w = trial[t], Answered(r, w), Kinds(r),
         GetMeta(t) \/ NoMeta(t) \/ ListCases(t) \/ CopyCase(t) \/ CasesCopied(t)
  PROVE  Answered(s, w)
<1>1. r \in Thread /\ w \in [in : SUBSET Parts, out : [Parts -> 0..Torn]]
  BY DEF TypeInv, TypeOK
<1> USE DEF Keeps, Stays, Gone
<1>2. CASE Gone(s)
  BY <1>2 DEF Answered, Prepared, Section
<1>3. CASE GetMeta(t)
  BY <1>3, CaseSteps DEF Answered, Prepared, Section
<1>4. CASE ListCases(t)
  <2>1. r.pc = "list" /\ s.pc = "copy" /\ s.kind = r.kind /\ s.todo = Cases(t)
    BY <1>4, CaseSteps
  <2>2. r.kind = "custom" => s.todo = w.in
    BY <2>1 DEF Cases
  <2> QED
    BY <2>1, <2>2 DEF Answered, Prepared, Section
<1>5. CASE CopyCase(t) /\ ~Gone(s)
  <2>1. /\ r.pc = "copy" /\ s.pc = "copy" /\ s.kind = r.kind
        /\ Copies(r, s, Cases(t), Source(t))
    BY <1>5, CaseSteps
  <2>2. PICK p \in r.todo : /\ s.todo = r.todo \ {p}
                            /\ s.copy = [r.copy EXCEPT ![p] = Source(t)[p]]
    BY <2>1 DEF Copies
  <2>3. r.copy \in [Parts -> 0..Torn]
    BY <1>1 DEF Thread
  <2>4. ASSUME r.kind = "custom", NEW q \in w.in \ s.todo PROVE s.copy[q] = w.out[q]
    <3>1. Source(t) = w.out
      BY <2>4 DEF Source
    <3>2. q \in Parts /\ (q # p => r.copy[q] = w.out[q])
      BY <1>1, <2>1, <2>2, <2>4 DEF Answered
    <3> QED
      BY <2>2, <2>3, <3>1, <3>2
  <2> QED
    BY <2>1, <2>4 DEF Answered, Prepared, Section
<1>6. CASE CasesCopied(t)
  <2>1. /\ r.pc = "copy" /\ r.todo = {} /\ s.pc = "copied" /\ s.kind = r.kind
        /\ s.copy = r.copy
    BY <1>6, CaseSteps
  <2> QED
    BY <2>1 DEF Answered, Prepared, Section
<1> QED
  BY <1>2, <1>3, <1>4, <1>5, <1>6, CaseSteps

(* The other steps outside the with-blocks write no answers.                *)
LEMMA OtherAnswers ==
  ASSUME TypeInv, NEW t \in Threads, NEW r, r = th[t], NEW s, s = th'[t],
         NEW w, w = trial[t], Answered(r, w), Kinds(r),
         \/ Acquire(t) \/ MakeFolder(t) \/ Leave(t) \/ Submit(t)
         \/ Handle(t) \/ TakeChecker(t) \/ PrepareResource(t)
         \/ ListResource(t) \/ CopyResource(t) \/ ResourceCopied(t) \/ Answer(t)
  PROVE  Answered(s, w)
<1> USE DEF Keeps, Stays, Begun, Gone
<1>1. CASE Gone(s)
  BY <1>1 DEF Answered, Prepared, Section
<1>2. CASE Acquire(t)
  <2>1. /\ r.pc = "acquire" /\ Keeps(r, s) /\ s.pc \in {"zipsum", "checksum", "getkey"}
    BY <1>2, CaseSteps
  <2> QED
    BY <2>1 DEF Answered, Prepared, Section
<1>3. CASE MakeFolder(t)
  <2>1. r.pc = "mkdir" /\ Keeps(r, s) /\ s.pc = "acquire"
    BY <1>3, CaseSteps
  <2>2. r.at # "accode"
    BY <2>1, ThreadTypes DEF Placed, Comparing, Assets
  <2> QED
    BY <2>1, <2>2 DEF Answered, Prepared, Section
<1>4. CASE Leave(t) /\ ~Gone(s)
  <2>1. r.pc \in Section
    BY <1>4, LeaveSteps DEF Section
  <2>2. CASE Keeps(r, s) /\ r.at \in {"testdata", "public"} /\ s.pc = "meta"
    BY <2>1, <2>2 DEF Answered, Prepared, Section, Kinds
  <2>3. CASE Keeps(r, s) /\ r.at = "accode" /\ s.pc = "compile"
    BY <2>1, <2>3 DEF Answered, Prepared, Section
  <2>4. CASE Keeps(r, s) /\ s.pc \in {"listres", "done"} /\ r.at \in {"resource", "extracted"}
    BY <2>4 DEF Answered, Prepared, Section
  <2>5. CASE r.at = "checker" /\ Stays(r, s) /\ r.stage = "trial" /\ s.pc = "meta"
    BY <2>1, <2>5 DEF Answered, Prepared
  <2>6. CASE r.at = "checker" /\ Stays(r, s) /\ s.pc \in {"take", "taken"}
    BY <2>6 DEF Answered, Prepared, Section
  <2>7. CASE s.at = "extracted" /\ s.pc = "acquire"
    BY <2>7 DEF Answered, Prepared, Section
  <2> QED
    BY <1>4, <2>2, <2>3, <2>4, <2>5, <2>6, <2>7, LeaveSteps
<1>5. CASE Submit(t)
  <2>1. \/ s.at \in {"testdata", "public"} /\ s.pc = "acquire"
        \/ s.at = "testdata" /\ s.pc = "meta" /\ s.stage = "trial"
    BY <1>5, SubmitSteps
  <2> QED
    BY <2>1 DEF Answered, Prepared, Section
<1>6. CASE Handle(t)
  <2>1. \/ s.at = "checker" /\ s.pc = "mkdir" /\ s.stage = "handle"
        \/ s.at = "resource" /\ s.pc = "mkdir"
        \/ s.pc = "done"
    BY <1>6, HandleSteps
  <2> QED
    BY <2>1 DEF Answered, Prepared, Section
<1>7. CASE TakeChecker(t) \/ PrepareResource(t)
  <2>1. (s.at = "resource" /\ s.pc = "mkdir") \/ s.pc \in {"taken", "done"}
    BY <1>7, HandleSteps
  <2> QED
    BY <2>1 DEF Answered, Prepared, Section
<1>8. CASE ListResource(t) \/ ResourceCopied(t)
  BY <1>8, HandleSteps DEF Answered, Prepared, Section
<1>9. CASE CopyResource(t) /\ ~Gone(s)
  <2>1. s.pc = "copyres"
    BY <1>9, HandleSteps
  <2> QED
    BY <2>1 DEF Answered, Prepared, Section
<1> QED
  BY <1>1, <1>2, <1>3, <1>4, <1>5, <1>6, <1>7, <1>8, <1>9, HandleSteps

(* A step of one thread, whatever it is.                                    *)
LEMMA ThreadAnswers ==
  ASSUME TypeInv, KindInv, NEW t \in Threads, Answered(th[t], trial[t]),
         \/ Use(t) \/ Acquire(t) \/ MakeFolder(t) \/ Leave(t) \/ Submit(t)
         \/ ArchiveStep(t) \/ AssetStep(t)
  PROVE  /\ Answered(th'[t], trial'[t]) /\ Kept(t) /\ \A u \in Threads \ {t} : trial'[u] = trial[u]
<1>1. Kinds(th[t])
  BY DEF KindInv
<1>2. Kept(t) /\ \A u \in Threads \ {t} : trial'[u] = trial[u]
  BY OutsideKeeps, InsideKeeps
<1>3. CASE \/ FindInputs(t) \/ DownloadCases(t) \/ CopyInput(t)
           \/ CompileAC(t) \/ WriteOutput(t) \/ OutputsWritten(t)
  BY <1>1, <1>2, <1>3, TrialAnswers
<1>4. CASE GetMeta(t) \/ NoMeta(t) \/ ListCases(t) \/ CopyCase(t) \/ CasesCopied(t)
  <2>1. UNCHANGED trial
    BY <1>4 DEF GetMeta, NoMeta, ListCases, CopyCase, CasesCopied, disk
  <2> QED
    BY <1>1, <1>2, <1>4, <2>1, CopyAnswers
<1>5. CASE \/ Acquire(t) \/ MakeFolder(t) \/ Leave(t) \/ Submit(t)
           \/ Handle(t) \/ TakeChecker(t) \/ PrepareResource(t)
           \/ ListResource(t) \/ CopyResource(t) \/ ResourceCopied(t) \/ Answer(t)
  <2>1. UNCHANGED trial
    BY <1>5 DEF Acquire, MakeFolder, Leave, Submit, Handle, TakeChecker,
       PrepareResource, ListResource, CopyResource, ResourceCopied, Answer, disk
  <2> QED
    BY <1>1, <1>2, <1>5, <2>1, OtherAnswers
<1>6. CASE ArchiveStep(t) \/ AssetStep(t)
  <2>1. /\ UNCHANGED trial /\ Keeps(th[t], th'[t])
        /\ th[t].pc \in Section /\ th'[t].pc \in Section
    BY <1>6, InsideKeeps
  <2>2. Answered(th'[t], trial[t])
    BY <2>1 DEF Answered, Prepared, Section, Keeps, Stays
  <2> QED
    BY <1>2, <2>1, <2>2
<1> QED
  BY <1>3, <1>4, <1>5, <1>6 DEF Use

LEMMA NextAnswered ==
  TypeInv /\ KindInv /\ AnsweredInv /\ [Next]_cvars => AnsweredInv'
<1> SUFFICES ASSUME TypeInv, KindInv, AnsweredInv, [Next]_cvars
             PROVE  AnsweredInv'
  OBVIOUS
<1>1. CASE UNCHANGED cvars
  BY <1>1 DEF cvars, disk, AnsweredInv
<1>2. ASSUME NEW t \in Threads,
             \/ Use(t) \/ Acquire(t) \/ MakeFolder(t) \/ Leave(t) \/ Submit(t)
             \/ ArchiveStep(t) \/ AssetStep(t)
      PROVE  AnsweredInv'
  <2>1. Answered(th[t], trial[t])
    BY DEF AnsweredInv
  <2>2. /\ Answered(th'[t], trial'[t]) /\ Kept(t)
        /\ \A u \in Threads \ {t} : trial'[u] = trial[u]
    BY <1>2, <2>1, ThreadAnswers
  <2>3. ASSUME NEW u \in Threads \ {t} PROVE Answered(th'[u], trial'[u])
    <3>1. Answered(th[u], trial[u]) /\ th[u] \in Thread /\ trial'[u] = trial[u]
      BY <2>2, ThreadTypes DEF AnsweredInv
    <3>2. th'[u] = th[u] \/ th'[u] = [th[u] EXCEPT !.clean = FALSE]
      BY <2>2 DEF Kept
    <3>3. /\ th'[u].pc = th[u].pc /\ th'[u].at = th[u].at /\ th'[u].kind = th[u].kind
          /\ th'[u].stage = th[u].stage /\ th'[u].todo = th[u].todo
          /\ th'[u].copy = th[u].copy
      BY <3>1, <3>2 DEF Thread
    <3> QED
      BY <3>1, <3>3, SameAnswers
  <2> QED
    BY <2>2, <2>3 DEF AnsweredInv
<1>3. CASE Environment
  <2>1. ASSUME NEW c \in Caches, ExpireHeld(c) PROVE AnsweredInv'
    <3>1. UNCHANGED trial /\ \A u \in Threads :
            /\ th'[u].pc = th[u].pc /\ th'[u].at = th[u].at /\ th'[u].kind = th[u].kind
            /\ th'[u].stage = th[u].stage /\ th'[u].todo = th[u].todo
            /\ th'[u].copy = th[u].copy
      BY <2>1, HeldKeeps DEF Keeps, Stays
    <3>2. ASSUME NEW u \in Threads PROVE Answered(th'[u], trial[u])
      <4>1. Answered(th[u], trial[u])
        BY DEF AnsweredInv
      <4> QED
        BY <3>1, <4>1, SameAnswers
    <3> QED
      BY <3>1, <3>2 DEF AnsweredInv
  <2>2. CASE Crash
    <3>1. UNCHANGED trial /\ \A u \in Threads : th'[u] = Asleep
      BY <2>2 DEF Crash, disk
    <3> QED
      BY <3>1 DEF AnsweredInv, Answered, Prepared, Section, Asleep
  <2>3. ASSUME NEW t \in Threads, EndTrial(t) PROVE AnsweredInv'
    <3>1. /\ UNCHANGED th /\ th[t].pc = "idle"
          /\ trial' = [trial EXCEPT ![t] = [in |-> {}, out |-> Nothing]]
      BY <2>3 DEF EndTrial, Is
    <3>2. trial \in [Threads -> Trial]
      BY DEF TypeInv, TypeOK, Trial
    <3>3. ASSUME NEW u \in Threads PROVE Answered(th[u], trial'[u])
      <4>1. CASE u = t
        <5>1. trial'[u].in = {} /\ trial'[u].out = Nothing /\ th[u].pc = "idle"
          BY <3>1, <3>2, <4>1
        <5> QED
          BY <5>1 DEF Answered, Prepared, Section
      <4>2. CASE u # t
        BY <3>1, <3>2, <4>2 DEF AnsweredInv
      <4> QED
        BY <4>1, <4>2
    <3> QED
      BY <3>1, <3>3 DEF AnsweredInv
  <2>4. CASE \/ \E c \in Archives : ExpireKey(c)
             \/ \E c \in Caches : ExpireLost(c)
             \/ \E i \in Items : Update(i)
    BY <2>4 DEF ExpireKey, ExpireLost, Update, AnsweredInv, disk
  <2> QED
    BY <1>2, <1>3, <2>1, <2>2, <2>3, <2>4 DEF Environment
<1> QED
  BY <1>1, <1>2, <1>3 DEF Next, Idle, ThreadStep, Refresh, ArchiveStep, AssetStep

(* The answers come from one version of the AC code, d, or are errors.      *)
Answering(r, w, b, d) ==
  /\ r.pc = "compile" => Held(r, b, d)
  /\ r.pc = "outputs" => \E v \in r.since..b :
                           d = Whole(v) /\ \A p \in w.in : w.out[p] \in {Absent, v, Torn}
  /\ r.pc \in {"list", "copy", "copied"} \/ (r.pc = "meta" /\ r.stage # "trial") =>
       \E v \in r.since..b : \A p \in w.in : w.out[p] \in {v, Torn}

AnsweringInv ==
  "accode" \notin overrun =>
     /\ Trusted(backend["accode"], redis["accode"], dir["accode"], "accode" \notin cut)
     /\ \A t \in Threads : At(t) = "accode" =>
          /\ Loading(th[t], backend["accode"], dir["accode"], "accode" \notin cut)
          /\ th[t].clean /\ "accode" \notin cut =>
               Answering(th[t], trial[t], backend["accode"], dir["accode"])

LEMMA SameAnswering ==
  ASSUME NEW r, NEW s, NEW w, NEW b, NEW d, Answering(r, w, b, d),
         s.pc = r.pc, s.stage = r.stage, s.since = r.since
  PROVE  Answering(s, w, b, d)
BY DEF Answering, Held

LEMMA AnsweringLater ==
  ASSUME NEW r \in Thread, NEW w, NEW b \in Versions, NEW d, Answering(r, w, b, d)
  PROVE  Answering(r, w, b + 1, d)
<1>1. r.since..b \subseteq r.since..(b + 1)
  BY DEF Thread, Versions
<1>2. r.pc = "compile" => Held(r, b + 1, d)
  BY <1>1 DEF Answering, Held
<1>3. r.pc = "outputs" => \E v \in r.since..(b + 1) :
                            d = Whole(v) /\ \A p \in w.in : w.out[p] \in {Absent, v, Torn}
  BY <1>1 DEF Answering
<1>4. r.pc \in {"list", "copy", "copied"} \/ (r.pc = "meta" /\ r.stage # "trial") =>
        \E v \in r.since..(b + 1) : \A p \in w.in : w.out[p] \in {v, Torn}
  BY <1>1 DEF Answering
<1> QED
  BY <1>2, <1>3, <1>4 DEF Answering

LEMMA EnvironmentAnswering ==
  ASSUME TypeInv, AnsweringInv, EnvironmentStep
  PROVE  AnsweringInv'
<1> DEFINE b == backend["accode"]
<1> DEFINE red == redis["accode"]
<1> DEFINE d == dir["accode"]
<1> DEFINE ok == "accode" \notin cut
<1>1. b \in Versions /\ red \in Key /\ \A u \in Threads : th[u] \in Thread
  BY ThreadTypes DEF TypeInv, TypeOK, Items, Archives
<1>2. /\ b' \in Versions /\ d' = d /\ ok' = ok /\ overrun \subseteq overrun'
      /\ b' \in {b, b + 1} /\ red' \in {red, NoKey}
      /\ \A u \in Threads : /\ \/ th'[u] = Asleep
                               \/ Same(th[u], th'[u]) /\ th'[u].clean = th[u].clean
                            /\ \/ trial'[u] = trial[u]
                               \/ th[u].pc = "idle" /\ th'[u] = th[u]
  BY EnvironmentKeeps DEF Items, Archives
<1>3. SUFFICES ASSUME "accode" \notin overrun'
               PROVE  /\ Trusted(b', red', d', ok')
                      /\ \A u \in Threads : th'[u].at = "accode" =>
                           /\ Loading(th'[u], b', d', ok')
                           /\ th'[u].clean /\ ok' => Answering(th'[u], trial'[u], b', d')
  BY DEF AnsweringInv, At
<1>4. /\ Trusted(b, red, d, ok)
      /\ \A u \in Threads : th[u].at = "accode" =>
           /\ Loading(th[u], b, d, ok)
           /\ th[u].clean /\ ok => Answering(th[u], trial[u], b, d)
  BY <1>2, <1>3 DEF AnsweringInv, At
<1> HIDE DEF b, red, d, ok
<1>5. Trusted(b', red', d, ok)
  BY <1>1, <1>2, <1>4, TrustedLater, TrustedLost
<1>6. ASSUME NEW u \in Threads, th'[u].at = "accode"
      PROVE  /\ Loading(th'[u], b', d, ok)
             /\ th'[u].clean /\ ok => Answering(th'[u], trial'[u], b', d)
  <2>1. CASE th'[u] = Asleep
    <3>1. Answering(Asleep, trial'[u], b', d)
      BY DEF Answering, Asleep
    <3> QED
      BY <1>2, <2>1, <3>1, AsleepLoads
  <2>2. CASE Same(th[u], th'[u]) /\ th'[u].clean = th[u].clean
    <3>1. /\ Loading(th[u], b', d, ok)
          /\ th[u].clean /\ ok => Answering(th[u], trial[u], b', d)
      BY <1>1, <1>2, <1>4, <1>6, <2>2, LoadingLater, AnsweringLater DEF Same
    <3>2. Loading(th'[u], b', d, ok)
      BY <2>2, <3>1, SameLoads DEF Same
    <3>3. CASE trial'[u] = trial[u]
      BY <2>2, <3>1, <3>2, <3>3, SameAnswering DEF Same
    <3>4. CASE th'[u].pc = "idle"
      BY <3>2, <3>4 DEF Answering
    <3> QED
      BY <1>2, <3>3, <3>4
  <2> QED
    BY <1>2, <2>1, <2>2
<1> QED
  BY <1>2, <1>5, <1>6

(* A trial goes on with the AC code it has: the compilation, the answers.   *)
LEMMA AnsweringSteps ==
  ASSUME TypeInv, NEW t \in Threads, NEW r, r = th[t], NEW s, s = th'[t],
         NEW w, w = trial[t], NEW x, x = trial'[t], Answered(r, w),
         r.at = "accode", s.since = r.since, NEW d, d = dir["accode"],
         NEW b \in Versions, Answering(r, w, b, d),
         CompileAC(t) \/ WriteOutput(t) \/ OutputsWritten(t)
  PROVE  Answering(s, x, b, d)
<1>1. trial \in [Threads -> Trial] /\ w \in Trial /\ r.since \in Versions
  BY ThreadTypes DEF TypeInv, TypeOK, Trial, Thread
<1> USE DEF Keeps, Stays, Begun, Gone
<1>2. CASE CompileAC(t)
  <2>1. x = w
    BY <1>2 DEF CompileAC, disk
  <2>2. CASE Gone(s)
    BY <2>2 DEF Answering
  <2>3. CASE ~Gone(s)
    <3>1. r.pc = "compile" /\ s.pc = "outputs"
      BY <1>2, <2>3, TrialSteps
    <3>2. w.out = Nothing
      BY <3>1 DEF Answered
    <3>3. PICK v \in r.since..b : d = Whole(v)
      BY <3>1 DEF Answering, Held
    <3>4. \A p \in w.in : w.out[p] \in {Absent, v, Torn}
      BY <1>1, <3>2 DEF Nothing, Trial
    <3> QED
      BY <2>1, <3>1, <3>3, <3>4 DEF Answering
  <2> QED
    BY <2>2, <2>3
<1>3. CASE WriteOutput(t)
  <2>1. r.pc = "outputs" /\ s.pc = "outputs"
    BY <1>3, TrialSteps
  <2>2. r.todo \subseteq w.in
    BY <2>1 DEF Answered
  <2>3. PICK p \in r.todo : \E v \in Versions \cup {Torn} :
          /\ v # Torn => dir["accode"] = Whole(v)
          /\ trial' = [trial EXCEPT ![t].out[p] = IF @ = Absent THEN v ELSE @]
    BY <1>3, TrialSteps
  <2>4. PICK v \in Versions \cup {Torn} :
          /\ v # Torn => dir["accode"] = Whole(v)
          /\ trial' = [trial EXCEPT ![t].out[p] = IF @ = Absent THEN v ELSE @]
    BY <2>3
  <2>5. x.in = w.in /\ x.out = [w.out EXCEPT ![p] = IF @ = Absent THEN v ELSE @]
    BY <1>1, <2>4 DEF Trial
  <2>6. PICK n \in r.since..b : /\ d = Whole(n)
                                /\ \A q \in w.in : w.out[q] \in {Absent, n, Torn}
    BY <2>1 DEF Answering
  <2>7. p \in Parts
    BY <1>1, <2>2 DEF Trial
  <2>8. v \in {n, Torn}
    <3>1. v # Torn => Whole(v)[p] = Whole(n)[p]
      BY <2>4, <2>6
    <3> QED
      BY <2>7, <3>1 DEF Whole
  <2>9. \A q \in x.in : x.out[q] \in {Absent, n, Torn}
    BY <1>1, <2>5, <2>6, <2>8 DEF Trial
  <2> QED
    BY <2>1, <2>6, <2>9 DEF Answering
<1>4. CASE OutputsWritten(t)
  <2>1. x = w
    BY <1>4 DEF OutputsWritten, disk
  <2>2. r.pc = "outputs" /\ r.todo = {} /\ s.pc \in {"mkdir", "meta"}
    BY <1>4, TrialSteps
  <2>3. \A p \in w.in : w.out[p] # Absent
    BY <2>2 DEF Answered
  <2>4. PICK n \in r.since..b : \A q \in w.in : w.out[q] \in {Absent, n, Torn}
    BY <2>2 DEF Answering
  <2>5. \A q \in w.in : w.out[q] \in {n, Torn}
    BY <2>3, <2>4
  <2> QED
    BY <2>1, <2>2, <2>4, <2>5 DEF Answering
<1> QED
  BY <1>2, <1>3, <1>4

(* Elsewhere it leaves the with-block, or copies what is answered.          *)
LEMMA OtherAnswering ==
  ASSUME TypeInv, NEW t \in Threads, NEW r, r = th[t], NEW s, s = th'[t], NEW w,
         r.at = "accode", s.at = "accode", s.since = r.since,
         NEW b, NEW d, Loading(r, b, d, TRUE), Answering(r, w, b, d),
         Use(t) \/ Acquire(t) \/ MakeFolder(t) \/ Leave(t) \/ Submit(t),
         ~CompileAC(t), ~WriteOutput(t), ~OutputsWritten(t)
  PROVE  Answering(s, w, b, d)
<1> USE DEF Keeps, Stays, Begun, Gone
<1>1. CASE s.pc \notin {"compile", "outputs", "meta", "list", "copy", "copied"}
  BY <1>1 DEF Answering
<1>2. CASE Leave(t)
  <2>1. r.pc = "release" /\ s.pc = "compile"
    BY <1>2, LeaveSteps
  <2> QED
    BY <2>1 DEF Answering, Loading, Held
<1>3. CASE GetMeta(t)
  <2>1. r.pc = "meta" /\ s.pc = (IF r.stage = "trial" THEN "tlist" ELSE "list")
        /\ s.stage = r.stage
    BY <1>3, CaseSteps
  <2> QED
    BY <2>1 DEF Answering
<1>4. CASE ListCases(t)
  <2>1. r.pc = "list" /\ s.pc = "copy" /\ s.stage = r.stage
    BY <1>4, CaseSteps
  <2> QED
    BY <2>1 DEF Answering
<1>5. CASE CopyCase(t)
  <2>1. r.pc = "copy" /\ s.pc = "copy" /\ s.stage = r.stage
    BY <1>5, CaseSteps
  <2> QED
    BY <2>1 DEF Answering
<1>6. CASE CasesCopied(t)
  <2>1. r.pc = "copy" /\ s.pc = "copied" /\ s.stage = r.stage
    BY <1>6, CaseSteps
  <2> QED
    BY <2>1 DEF Answering
<1>7. CASE Acquire(t) \/ MakeFolder(t) \/ NoMeta(t)
  BY <1>1, <1>7, CaseSteps
<1>8. CASE Submit(t)
  BY <1>8, SubmitSteps
<1>9. CASE FindInputs(t) \/ DownloadCases(t) \/ CopyInput(t)
  <2>1. s.pc \notin {"compile", "outputs", "meta", "list", "copy", "copied"}
    BY <1>9, TrialSteps
  <2> QED
    BY <1>1, <2>1
<1>10. CASE \/ Handle(t) \/ TakeChecker(t) \/ PrepareResource(t)
            \/ ListResource(t) \/ CopyResource(t) \/ ResourceCopied(t) \/ Answer(t)
  <2>1. s.pc \notin {"compile", "outputs", "meta", "list", "copy", "copied"}
    BY <1>10, HandleSteps
  <2> QED
    BY <1>1, <2>1
<1> QED
  BY <1>2, <1>3, <1>4, <1>5, <1>6, <1>7, <1>8, <1>9, <1>10 DEF Use

LEMMA NextAnswering ==
  ASSUME TypeInv, LockInv, NoticedInv, AnsweredInv, AnsweringInv, [Next]_cvars
  PROVE  AnsweringInv'
<1> DEFINE b == backend["accode"]
<1> DEFINE d == dir["accode"]
<1> DEFINE ok == "accode" \notin cut
<1>1. b \in Versions /\ \A u \in Threads : th[u] \in Thread
  BY ThreadTypes DEF TypeInv, TypeOK, Items
<1>2. "accode" \notin overrun =>
        /\ Trusted(b, redis["accode"], d, ok)
        /\ \A u \in Threads : th[u].at = "accode" =>
             /\ Loading(th[u], b, d, ok)
             /\ th[u].clean /\ ok => Answering(th[u], trial[u], b, d)
  BY DEF AnsweringInv, At
<1>3. CASE UNCHANGED cvars
  BY <1>3 DEF cvars, world, disk, AnsweringInv, At
<1>4. ASSUME NEW t \in Threads,
             Use(t) \/ Acquire(t) \/ MakeFolder(t) \/ Leave(t) \/ Submit(t)
      PROVE  AnsweringInv'
  <2>1. /\ UNCHANGED <<backend, redis, dir, overrun, cut>> /\ Kept(t)
        /\ \A u \in Threads \ {t} : trial'[u] = trial[u]
    BY <1>4, OutsideKeeps
  <2>2. SUFFICES ASSUME "accode" \notin overrun, NEW u \in Threads, th'[u].at = "accode"
                 PROVE  /\ Loading(th'[u], b, d, ok)
                        /\ th'[u].clean /\ ok => Answering(th'[u], trial'[u], b, d)
    BY <1>2, <2>1 DEF AnsweringInv, At
  <2>3. CASE u # t
    <3>1. th'[u] \in {th[u], [th[u] EXCEPT !.clean = FALSE]} /\ trial'[u] = trial[u]
      BY <2>1, <2>3 DEF Kept
    <3>2. /\ th'[u].pc = th[u].pc /\ th'[u].at = th[u].at /\ th'[u].since = th[u].since
          /\ th'[u].key = th[u].key /\ th'[u].data = th[u].data
          /\ th'[u].todo = th[u].todo /\ th'[u].copy = th[u].copy
          /\ th'[u].stage = th[u].stage
          /\ th'[u].clean => th[u].clean
      BY <1>1, <3>1 DEF Thread
    <3> HIDE DEF b, d, ok
    <3>3. /\ Loading(th[u], b, d, ok) => Loading(th'[u], b, d, ok)
          /\ Answering(th[u], trial[u], b, d) => Answering(th'[u], trial[u], b, d)
      BY <3>2, SameLoads, SameAnswering
    <3> QED
      BY <1>2, <2>2, <3>1, <3>2, <3>3
  <2>4. CASE u = t
    <3>1. Loading(th'[t], b, d, ok)
      BY <1>2, <1>4, <2>2, <2>4, LoadingOutside DEF At
    <3>2. \/ th'[t].at = th[t].at /\ th'[t].since = th[t].since /\ th'[t].clean = th[t].clean
          \/ th'[t].pc \in {"mkdir", "acquire"}
      BY <1>4, <2>2, <2>4, OutsideLoads
    <3>3. ASSUME th'[t].clean, ok PROVE Answering(th'[t], trial'[t], b, d)
      <4>1. CASE th'[t].pc \in {"mkdir", "acquire"}
        BY <4>1 DEF Answering
      <4>2. CASE th'[t].at = th[t].at /\ th'[t].since = th[t].since /\ th'[t].clean = th[t].clean
        <5>1. th[t].at = "accode" /\ th[t].clean
          BY <2>2, <2>4, <3>3, <4>2
        <5>2. Loading(th[t], b, d, TRUE) /\ Answering(th[t], trial[t], b, d)
          <6>1. Loading(th[t], b, d, ok) /\ Answering(th[t], trial[t], b, d)
            BY <1>2, <2>2, <3>3, <5>1
          <6>2. ok = TRUE
            BY <3>3
          <6> QED
            BY <6>1, <6>2
        <5>3. Answered(th[t], trial[t])
          BY DEF AnsweredInv
        <5>4. CASE CompileAC(t) \/ WriteOutput(t) \/ OutputsWritten(t)
          BY <1>1, <4>2, <5>1, <5>2, <5>3, <5>4, AnsweringSteps
        <5>5. CASE ~CompileAC(t) /\ ~WriteOutput(t) /\ ~OutputsWritten(t)
          <6>1. Answering(th'[t], trial[t], b, d)
            BY <1>4, <2>2, <2>4, <4>2, <5>1, <5>2, <5>5, OtherAnswering
          <6>2. CASE FindInputs(t) \/ CopyInput(t)
            <7>1. th'[t].pc \notin {"compile", "outputs", "meta", "list", "copy", "copied"}
              BY <6>2, TrialSteps DEF Keeps, Stays, Begun
            <7> QED
              BY <7>1 DEF Answering
          <6>3. CASE ~FindInputs(t) /\ ~CopyInput(t)
            <7>1. UNCHANGED trial
              BY <1>4, <5>5, <6>3 DEF Use, Acquire, MakeFolder, Leave, Submit, GetMeta, NoMeta,
                 ListCases, CopyCase, CasesCopied, DownloadCases, Handle, TakeChecker,
                 PrepareResource, ListResource, CopyResource, ResourceCopied, Answer, disk
            <7> QED
              BY <6>1, <7>1
          <6> QED
            BY <6>2, <6>3
        <5> QED
          BY <5>4, <5>5
      <4> QED
        BY <3>2, <4>1, <4>2
    <3> QED
      BY <2>4, <3>1, <3>3
  <2> QED
    BY <2>3, <2>4
<1>5. ASSUME NEW t \in Threads, ArchiveStep(t) \/ AssetStep(t)
      PROVE  AnsweringInv'
  <2>1. UNCHANGED <<backend, trial, overrun>> /\ Kept(t)
    BY <1>5, InsideKeeps
  <2>2. SUFFICES ASSUME "accode" \notin overrun
                 PROVE  /\ Trusted(b, redis'["accode"], d', ok')
                        /\ \A u \in Threads : th'[u].at = "accode" =>
                             /\ Loading(th'[u], b, d', ok')
                             /\ th'[u].clean /\ ok' => Answering(th'[u], trial[u], b, d')
    BY <2>1 DEF AnsweringInv, At
  <2>3. /\ Trusted(b, redis'["accode"], d', ok')
        /\ \A u \in Threads : th'[u].at = "accode" =>
             /\ Loading(th'[u], b, d', ok')
             /\ th'[u].clean /\ ok' /\ th'[u].pc \notin Section \cup {"acquire"} =>
                  u # t /\ th[u].clean /\ ok /\ d' = d
    BY <1>2, <1>5, <2>2, LoadingOthers DEF At
  <2>4. ASSUME NEW u \in Threads, th'[u].at = "accode", th'[u].clean, ok'
        PROVE  Answering(th'[u], trial[u], b, d')
    <3>1. CASE th'[u].pc \in Section \cup {"acquire"}
      BY <3>1 DEF Answering, Section
    <3>2. CASE th'[u].pc \notin Section \cup {"acquire"}
      <4>1. u # t /\ th[u].clean /\ ok /\ d' = d
        BY <2>3, <2>4, <3>2
      <4>2. th'[u] = th[u]
        <5>1. th'[u] = th[u] \/ th'[u] = [th[u] EXCEPT !.clean = FALSE]
          BY <2>1, <4>1 DEF Kept
        <5> QED
          BY <1>1, <2>4, <5>1 DEF Thread
      <4> QED
        BY <1>2, <2>2, <2>4, <4>1, <4>2
    <3> QED
      BY <3>1, <3>2
  <2> QED
    BY <2>3, <2>4
<1>6. CASE Environment
  BY <1>4, <1>6, EnvironmentAnswering DEF Environment, EnvironmentStep
<1> QED
  BY <1>3, <1>4, <1>5, <1>6 DEF Next, Idle, ThreadStep, Refresh, ArchiveStep, AssetStep

LEMMA InitAnswered == Init => AnsweredInv /\ AnsweringInv
<1> SUFFICES ASSUME Init PROVE AnsweredInv /\ AnsweringInv
  OBVIOUS
<1>1. \A u \in Threads : th[u] = Asleep /\ trial[u] = [in |-> {}, out |-> Nothing]
  BY DEF Init
<1>2. AnsweredInv
  BY <1>1 DEF AnsweredInv, Answered, Prepared, Section, Asleep
<1>3. backend["accode"] = 1 /\ redis["accode"] = NoKey
  BY DEF Init, Items, Archives
<1>4. 1 \in Versions
  BY Numbers
<1>5. \A w, d : Answering(Asleep, w, 1, d)
  BY DEF Answering, Asleep
<1>6. AnsweringInv
  BY <1>1, <1>3, <1>4, <1>5, AsleepLoads, TrustedLost DEF AnsweringInv
<1> QED
  BY <1>2, <1>6

(* Every case of an accepted custom trial has an answer, and the answers    *)
(* come from one version of the AC code, unless it was cut off or changed.  *)
THEOREM TrialAnswered == Spec => []CustomAnswered
<1> DEFINE Inv == TypeInv /\ LockInv /\ KindInv /\ NoticedInv /\ AnsweredInv /\ AnsweringInv
<1>1. Init => Inv
  BY InitTypes, InitLocks, InitFresh, InitNoticed, InitAnswered
<1>2. Inv /\ [Next]_cvars => Inv'
  BY NextTypes, NextLocks, NextKinds, NextNoticed, NextAnswered, NextAnswering
<1>3. Inv => CustomAnswered
  <2> SUFFICES ASSUME Inv, NEW t \in Threads, Is(t, "copied"), th[t].kind = "custom"
               PROVE  /\ \A p \in trial[t].in : th[t].copy[p] # Absent
                      /\ (At(t) = "accode" /\ th[t].clean /\ "accode" \notin overrun \cup cut) =>
                           \E v \in th[t].since..MaxVersion :
                             \A p \in trial[t].in : th[t].copy[p] \in {v, Torn}
    BY DEF CustomAnswered
  <2>1. th[t].since \in Versions /\ backend["accode"] \in Versions
    BY ThreadTypes DEF Thread, TypeInv, TypeOK, Items
  <2>2. \A p \in trial[t].in : th[t].copy[p] = trial[t].out[p] /\ trial[t].out[p] # Absent
    BY DEF AnsweredInv, Answered, Prepared, Is
  <2>3. ASSUME At(t) = "accode", th[t].clean, "accode" \notin overrun \cup cut
        PROVE  \E v \in th[t].since..MaxVersion :
                 \A p \in trial[t].in : th[t].copy[p] \in {v, Torn}
    <3>1. PICK v \in th[t].since..backend["accode"] :
            \A p \in trial[t].in : trial[t].out[p] \in {v, Torn}
      BY <2>3 DEF AnsweringInv, Answering, Is
    <3>2. v \in th[t].since..MaxVersion
      BY <2>1, <3>1, CacheAssumption DEF Versions
    <3> QED
      BY <2>2, <3>1, <3>2
  <2> QED
    BY <2>2, <2>3
<1> QED
  BY <1>1, <1>2, <1>3, PTL DEF Spec

-----------------------------------------------------------------------------
(* What thread record r knows of the cached zip f of the resource data, if  *)
(* the backend has version b of it, and of the directory d it is extracted  *)
(* to, while it ensures them and copies them.                               *)
Zipped(r, b, f) ==
  /\ r.since <= b
  /\ r.pc \in Section \cup {"mkdir", "acquire"} => r.copy = Nothing
  /\ r.pc \in {"write", "fill"} => r.data \in r.since..b
  /\ r.clean => /\ r.pc = "fill" => f # Absent
                /\ r.pc = "release" => f \in r.since..b

Unzipped(r, b, f, d, ok) ==
  /\ r.since <= b
  /\ r.pc \in Section \cup {"acquire", "listres"} => r.copy = Nothing
  /\ r.pc \in {"rmext", "unzip", "storeext"} => ~ok
  /\ r.clean =>
       /\ r.pc \in Section \cup {"acquire"} => f \in r.since..b
       /\ r.pc = "rmext" => r.data = f
       /\ r.pc \in {"unzip", "storeext"} => r.data = f /\ r.key = <<f, f>>
       /\ r.pc = "unzip" => \A p \in Parts \ r.todo : d[p] = f
       /\ r.pc = "storeext" => d = Whole(f)
       /\ ok => /\ r.pc \in {"release", "listres"} => Held(r, b, d)
                /\ r.pc = "copyres" => \E v \in r.since..b :
                     d = Whole(v) /\ \A p \in Parts \ r.todo : r.copy[p] = v
                /\ r.pc = "done" =>
                     r.copy = Nothing \/ \E v \in r.since..b : r.copy = Whole(v)

(* What the stored checksum says of the directory.                          *)
Extracted(red, d, ok) ==
  ok => \A v \in Versions : red = <<v, v>> => d = Whole(v)

Resourced(r, b, f, d, ok) ==
  /\ r.at = "resource" => Zipped(r, b, f)
  /\ r.at = "extracted" => Unzipped(r, b, f, d, ok)
  /\ r.pc \in {"listres", "copyres"} => r.at = "extracted"
  /\ r.pc = "done" /\ r.at # "extracted" => r.copy = Nothing

ResourceInv ==
  {"resource", "extracted"} \cap overrun = {} =>
     /\ Extracted(redis["extracted"], dir["extracted"], "extracted" \notin cut)
     /\ \A t \in Threads :
          Resourced(th[t], backend["resource"], file["resource"], dir["extracted"],
                    "extracted" \notin cut)

(* The types of what the invariant relates.                                 *)
LEMMA ResourceTypes ==
  ASSUME TypeInv
  PROVE  /\ backend["resource"] \in Versions /\ file["resource"] \in 0..Torn
         /\ redis["extracted"] \in Key /\ dir["extracted"] \in [Parts -> 0..MaxVersion]
BY DEF TypeInv, TypeOK, Items, Assets, Archives

(* Whoever changes the zip tells the others that rely on it, or on what was *)
(* extracted from it.                                                       *)
LEMMA FileStep ==
  ASSUME TypeInv, NEW t \in Threads, ArchiveStep(t) \/ AssetStep(t)
  PROVE  \/ UNCHANGED file["resource"]
         \/ \A u \in Threads \ {t} : At(u) \in {"resource", "extracted"} => ~th'[u].clean
<1>1. /\ file \in [Assets -> 0..Torn] /\ th \in [Threads -> Thread]
      /\ \A C : Touch(t, C) \in [Threads -> Thread]
  BY TouchType DEF TypeInv, TypeOK
<1>2. CASE OpenFile(t) \/ FillFile(t)
  <2>1. CASE At(t) # "resource"
    <3>1. \/ UNCHANGED file
          \/ \E x : file' = [file EXCEPT ![At(t)] = x]
      BY <1>2 DEF OpenFile, FillFile
    <3> QED
      BY <1>1, <2>1, <3>1 DEF Assets
  <2>2. CASE At(t) = "resource"
    <3> DEFINE C == {"resource", "extracted"}
    <3>1. \/ UNCHANGED file
          \/ \E pc : th' = [Touch(t, C) EXCEPT ![t].pc = pc]
      BY <1>2, <2>2 DEF OpenFile, FillFile, Relying
    <3>2. ASSUME NEW pc, th' = [Touch(t, C) EXCEPT ![t].pc = pc],
                 NEW u \in Threads \ {t}, At(u) \in C
          PROVE  ~th'[u].clean
      <4>1. th'[u] = Touch(t, C)[u] /\ th[u] \in Thread
        BY <1>1, <3>2
      <4> QED
        BY <3>2, <4>1 DEF Touch, Thread
    <3> QED
      BY <3>1, <3>2
  <2> QED
    BY <2>1, <2>2
<1>3. CASE ClearFolder(t)
  <2> DEFINE C(a) == {a, IF a = "resource" THEN "extracted" ELSE a}
  <2>1. PICK a : /\ file' = [file EXCEPT ![a] = Absent]
                 /\ th' = [Touch(t, C(a)) EXCEPT ![t] = Cleared(@, @.todo \ {a})]
    BY <1>3 DEF ClearFolder
  <2>2. CASE a # "resource"
    BY <1>1, <2>1, <2>2
  <2>3. CASE a = "resource"
    <3>1. ASSUME NEW u \in Threads \ {t}, At(u) \in {"resource", "extracted"}
          PROVE  ~th'[u].clean
      <4>1. th'[u] = Touch(t, C(a))[u] /\ th[u] \in Thread
        BY <1>1, <2>1
      <4> QED
        BY <2>3, <3>1, <4>1 DEF Touch, Thread
    <3> QED
      BY <3>1
  <2> QED
    BY <2>2, <2>3
<1>4. CASE ~OpenFile(t) /\ ~FillFile(t) /\ ~ClearFolder(t)
  BY <1>4 DEF ArchiveStep, AssetStep, GetKey, Compare, CannotCompare, Fetch, ClearPart,
     ClearExtracted, ClearRaises, ExtractPart, FetchMeta, Store, Raise,
     CompareFile, NotConfigured, Download, SumZip, RemoveExtracted, OpenZip,
     UnzipPart, UnzipFails, StoreExtracted, disk
<1> QED
  BY <1>2, <1>3, <1>4

(* A thread fetches the zip.                                                *)
LEMMA ZippedStep ==
  ASSUME TypeInv, NEW t \in Threads, At(t) = "resource", ArchiveStep(t) \/ AssetStep(t),
         NEW b, b = backend["resource"], NEW f, f = file["resource"],
         NEW f2, f2 = file'["resource"],
         NEW r, r = th[t], NEW s, s = th'[t], Zipped(r, b, f)
  PROVE  Zipped(s, b, f2)
<1>1. /\ th \in [Threads -> Thread] /\ r \in Thread /\ r.at = "resource" /\ Placed(r)
      /\ file \in [Assets -> 0..Torn] /\ "resource" \in Assets
  BY ThreadTypes DEF TypeInv, TypeOK, At, Assets
<1>2. b \in Versions /\ r.since \in Versions /\ r.since <= b /\ r.copy = Nothing
  BY <1>1, ResourceTypes, InsideKeeps DEF Thread, Zipped
<1>3. s.since = r.since /\ s.copy = r.copy /\ s.clean = r.clean
  BY InsideKeeps DEF Keeps, Stays
<1>4. b \in r.since..b
  BY <1>2 DEF Versions
<1>5. CASE CompareFile(t)
  <2>1. s.pc = (IF f = b THEN "release" ELSE "download") /\ f2 = f
    BY <1>1, <1>5 DEF CompareFile, Step, At, Thread, disk
  <2> QED
    BY <1>2, <1>3, <1>4, <2>1 DEF Zipped
<1>6. CASE NotConfigured(t) \/ Raise(t)
  <2>1. s.pc \in {"none", "unwind"}
    BY <1>1, <1>6 DEF NotConfigured, Raise, Step, Thread
  <2> QED
    BY <1>2, <1>3, <2>1 DEF Zipped
<1>7. CASE Download(t)
  <2>1. s.pc = "write" /\ s.data = b
    BY <1>1, <1>7 DEF Download, At, Thread
  <2> QED
    BY <1>2, <1>3, <1>4, <2>1 DEF Zipped
<1>8. CASE OpenFile(t)
  <2>1. r.pc = "write"
    BY <1>8 DEF OpenFile, Is
  <2>2. CASE At(t) \in folders
    <3>1. f2 = Torn /\ th' = [Touch(t, Relying(At(t))) EXCEPT ![t].pc = "fill"]
      BY <1>1, <1>8, <2>2 DEF OpenFile, At
    <3>2. s = [r EXCEPT !.pc = "fill"]
      BY <3>1, TouchType
    <3>3. s.pc = "fill" /\ s.data = r.data
      BY <1>1, <3>2 DEF Thread
    <3>4. Torn # Absent
      BY CacheAssumption DEF Torn, Absent
    <3> QED
      BY <1>2, <1>3, <2>1, <3>1, <3>3, <3>4 DEF Zipped
  <2>3. CASE At(t) \notin folders
    <3>1. s.pc = "unwind"
      BY <1>1, <1>8, <2>3 DEF OpenFile, Step, Thread
    <3> QED
      BY <1>2, <1>3, <3>1 DEF Zipped
  <2> QED
    BY <2>2, <2>3
<1>9. CASE FillFile(t)
  <2>1. /\ r.pc = "fill" /\ f2 = (IF f = Absent THEN Absent ELSE r.data)
        /\ th' = [Touch(t, Relying(At(t))) EXCEPT ![t].pc = "release"]
    BY <1>1, <1>9 DEF FillFile, Is, At
  <2>2. s = [r EXCEPT !.pc = "release"]
    BY <2>1, TouchType
  <2>3. s.pc = "release"
    BY <1>1, <2>2 DEF Thread
  <2> QED
    BY <1>2, <1>3, <2>1, <2>3 DEF Zipped
<1>10. CASE \/ GetKey(t) \/ Compare(t) \/ CannotCompare(t) \/ Fetch(t)
            \/ ClearPart(t) \/ ClearExtracted(t) \/ ClearFolder(t) \/ ClearRaises(t)
            \/ ExtractPart(t) \/ FetchMeta(t) \/ Store(t)
            \/ SumZip(t) \/ RemoveExtracted(t) \/ OpenZip(t)
            \/ UnzipPart(t) \/ UnzipFails(t) \/ StoreExtracted(t)
  BY <1>1, <1>10 DEF Placed, Fetching, Unpacking, Is, Archives, GetKey, Compare,
     CannotCompare, Fetch, ClearPart, ClearExtracted, ClearFolder, ClearRaises,
     ExtractPart, FetchMeta, Store, SumZip, RemoveExtracted, OpenZip, UnzipPart,
     UnzipFails, StoreExtracted
<1> QED
  BY <1>5, <1>6, <1>7, <1>8, <1>9, <1>10 DEF ArchiveStep, AssetStep

(* A thread extracts the zip.                                               *)
LEMMA UnzippedStep ==
  ASSUME TypeInv, NEW t \in Threads, At(t) = "extracted", ArchiveStep(t) \/ AssetStep(t),
         NEW b, b = backend["resource"], NEW f, f = file["resource"],
         Extracted(redis["extracted"], dir["extracted"], "extracted" \notin cut),
         Unzipped(th[t], b, f, dir["extracted"], "extracted" \notin cut)
  PROVE  /\ file'["resource"] = f
         /\ Extracted(redis'["extracted"], dir'["extracted"], "extracted" \notin cut')
         /\ Unzipped(th'[t], b, f, dir'["extracted"], "extracted" \notin cut')
         /\ \/ UNCHANGED dir["extracted"]
            \/ \A u \in Threads \ {t} : At(u) = "extracted" => ~th'[u].clean
         /\ "extracted" \notin cut' => "extracted" \notin cut \/ Filling(th[t])
<1> DEFINE red == redis["extracted"]
<1> DEFINE d == dir["extracted"]
<1> DEFINE ok == "extracted" \notin cut
<1> DEFINE r == th[t]
<1> DEFINE s == th'[t]
<1>1. th \in [Threads -> Thread] /\ r \in Thread /\ r.at = "extracted" /\ Placed(r)
  BY ThreadTypes DEF TypeInv, TypeOK, At
<1>2. /\ b \in Versions /\ f \in 0..Torn /\ red \in Key /\ d \in [Parts -> 0..MaxVersion]
      /\ "extracted" \in Archives /\ r.since \in Versions
  BY <1>1, ResourceTypes DEF Archives, Thread
<1>3. Extracted(red, d, ok) /\ Unzipped(r, b, f, d, ok)
  OBVIOUS
<1>4. s.since = r.since /\ s.copy = r.copy /\ s.clean = r.clean
      /\ r.pc \in Section /\ s.pc \in Section
  BY InsideKeeps DEF Keeps, Stays
<1> DEFINE told == \A u \in Threads \ {t} : At(u) = "extracted" => ~th'[u].clean
<1> SUFFICES /\ file'["resource"] = f /\ Extracted(red', d', ok') /\ Unzipped(s, b, f, d', ok')
             /\ d' = d \/ told
             /\ ok' => ok \/ Filling(r)
  OBVIOUS
<1>5. r.since <= b /\ r.copy = Nothing /\ (r.clean => f \in r.since..b)
  BY <1>3, <1>4 DEF Unzipped
<1>6. ASSUME file'["resource"] = f, red' = red, d' = d, ok' = ok, s.pc \in {"none", "unwind"}
      PROVE  /\ file'["resource"] = f /\ Extracted(red', d', ok') /\ Unzipped(s, b, f, d', ok')
             /\ d' = d \/ told
             /\ ok' => ok \/ Filling(r)
  <2> HIDE DEF red, d, ok, r, s, told
  <2> QED
    BY <1>3, <1>4, <1>5, <1>6 DEF Unzipped
<1>7. CASE SumZip(t)
  <2>1. red' = red /\ d' = d /\ file'["resource"] = f
    BY <1>7 DEF SumZip, disk
  <2>2. CASE f = Absent
    <3>1. s.pc = "unwind" /\ ok' = ok
      BY <1>1, <1>7, <2>2 DEF SumZip, Step, Thread
    <3> QED
      BY <1>6, <2>1, <3>1
  <2>3. CASE f # Absent /\ ExtractedHit(f)
    <3>1. s.pc = "release" /\ ok' = ok
      BY <1>1, <1>7, <2>3 DEF SumZip, Step, Thread
    <3>2. f # Torn /\ red = <<f, f>>
      BY <2>3 DEF ExtractedHit
    <3>3. f \in Versions
      BY <1>2, <2>3, <3>2, CacheAssumption DEF Versions, Absent, Torn
    <3> HIDE DEF red, d, ok, r, s, told
    <3>4. ok => d = Whole(f)
      BY <1>3, <3>2, <3>3 DEF Extracted
    <3>5. ok /\ s.clean => Held(s, b, d)
      BY <1>4, <1>5, <3>4 DEF Held
    <3> QED
      BY <1>3, <1>4, <1>5, <2>1, <3>1, <3>5 DEF Unzipped
  <2>4. CASE f # Absent /\ ~ExtractedHit(f)
    <3>1. s.pc = "rmext" /\ s.data = f /\ ~ok'
      BY <1>1, <1>7, <2>4 DEF SumZip, Thread
    <3> HIDE DEF red, d, ok, r, s, told
    <3> QED
      BY <1>3, <1>4, <1>5, <2>1, <3>1 DEF Unzipped, Extracted
  <2> QED
    BY <2>2, <2>3, <2>4
<1>8. CASE RemoveExtracted(t)
  <2>1. PICK p \in r.todo :
          IF dir["extracted"][p] = Absent
          THEN Step(t, "unwind") /\ UNCHANGED dir
          ELSE /\ dir' = [dir EXCEPT !["extracted"][p] = Absent]
               /\ th' = [Touch(t, {"extracted"}) EXCEPT ![t].todo = @ \ {p}]
    BY <1>8 DEF RemoveExtracted
  <2>2. r.pc = "rmext" /\ red' = red /\ ok' = ok /\ file'["resource"] = f
    BY <1>8 DEF RemoveExtracted, Is
  <2>3. CASE dir["extracted"][p] = Absent
    <3>1. s.pc = "unwind" /\ d' = d
      BY <1>1, <2>1, <2>3 DEF Step, Thread
    <3> QED
      BY <1>6, <2>2, <3>1
  <2>4. CASE dir["extracted"][p] # Absent
    <3>1. th' = [Touch(t, {"extracted"}) EXCEPT ![t].todo = @ \ {p}]
      BY <2>1, <2>4
    <3>2. s = [r EXCEPT !.todo = @ \ {p}]
      BY <3>1, TouchType
    <3>3. s.pc = r.pc /\ s.data = r.data
      BY <1>1, <3>2 DEF Thread
    <3>4. \A u \in Threads \ {t} : th'[u] = Touch(t, {"extracted"})[u]
      BY <3>1, TouchType
    <3>5. told
      BY ZenonT(30), <1>1, <3>4 DEF Touch, Thread, At
    <3>6. ~ok
      BY <1>3, <2>2 DEF Unzipped
    <3> HIDE DEF red, d, ok, r, s, told
    <3> QED
      BY <1>3, <1>4, <1>5, <2>2, <3>3, <3>5, <3>6 DEF Unzipped, Extracted
  <2> QED
    BY <2>3, <2>4
<1>9. CASE OpenZip(t)
  <2>1. /\ r.pc = "rmext" /\ red' = red /\ d' = d /\ ok' = ok /\ file'["resource"] = f
        /\ th' = [th EXCEPT ![t].pc = "unzip", ![t].todo = Parts,
              ![t].key = IF th[t].data = Torn THEN NoKey ELSE <<th[t].data, th[t].data>>,
              ![t].data = file["resource"]]
    BY <1>9 DEF OpenZip, Is, world
  <2>2. /\ s.pc = "unzip" /\ s.todo = Parts /\ s.data = f
        /\ s.key = IF r.data = Torn THEN NoKey ELSE <<r.data, r.data>>
    BY <1>1, <2>1 DEF Thread
  <2>3. r.clean => r.data = f /\ f # Torn
    BY <1>2, <1>3, <1>5, <2>1, CacheAssumption DEF Unzipped, Versions, Torn
  <2> HIDE DEF red, d, ok, r, s, told
  <2> QED
    BY <1>3, <1>4, <1>5, <2>1, <2>2, <2>3 DEF Unzipped
<1>10. CASE UnzipPart(t)
  <2> DEFINE T == Touch(t, {"extracted"})
  <2>1. PICK p \in r.todo :
          /\ dir' = [dir EXCEPT !["extracted"][p] = r.data]
          /\ th' = [T EXCEPT ![t].todo = @ \ {p},
                      ![t].pc = IF th[t].todo = {p} THEN "storeext" ELSE "unzip"]
    BY <1>10 DEF UnzipPart
  <2>2. T \in [Threads -> Thread] /\ T[t] = r
    BY TouchType
  <2>3. /\ s.data = r.data /\ s.key = r.key /\ s.todo = r.todo \ {p}
        /\ s.pc = IF r.todo = {p} THEN "storeext" ELSE "unzip"
    BY <1>1, <2>1, <2>2 DEF Thread
  <2>4. r.pc = "unzip" /\ red' = red /\ ok' = ok /\ file'["resource"] = f
    BY <1>10 DEF UnzipPart, Is
  <2>5. d' = [d EXCEPT ![p] = r.data]
    BY <1>2, <2>1 DEF TypeInv, TypeOK
  <2>6. \A u \in Threads \ {t} : th'[u] = T[u]
    BY <2>1, <2>2
  <2>7. told
    BY ZenonT(30), <1>1, <2>6 DEF Touch, Thread, At
  <2> HIDE DEF red, d, ok, r, s, told, T
  <2>8. ~ok /\ (r.clean => r.data = f /\ r.key = <<f, f>> /\ \A q \in Parts \ r.todo : d[q] = f)
    BY <1>3, <2>4 DEF Unzipped
  <2>9. r.clean => \A q \in Parts \ s.todo : d'[q] = f
    BY <1>2, <2>3, <2>5, <2>8
  <2>10. r.clean /\ s.pc = "storeext" => d' = Whole(f)
    BY <1>2, <2>3, <2>5, <2>9 DEF Whole
  <2> QED
    BY <1>3, <1>4, <1>5, <2>3, <2>4, <2>7, <2>8, <2>9, <2>10 DEF Unzipped, Extracted
<1>11. CASE UnzipFails(t)
  <2>1. s.pc = "none" /\ red' = red /\ d' = d /\ ok' = ok /\ file'["resource"] = f
    BY <1>1, <1>11 DEF UnzipFails, Step, Thread, disk
  <2> QED
    BY <1>6, <2>1
<1>12. CASE StoreExtracted(t)
  <2>1. /\ r.pc = "storeext" /\ s.pc = "release" /\ d' = d /\ file'["resource"] = f
        /\ red' = r.key
    BY <1>1, <1>2, <1>12 DEF StoreExtracted, Step, Is, Thread, disk, TypeInv, TypeOK
  <2>2. (~r.clean => ok' = ok) /\ Filling(r)
    BY <1>12, <2>1 DEF StoreExtracted, Filling
  <2> HIDE DEF red, d, ok, r, s, told
  <2>3. ~ok /\ (r.clean => d = Whole(f) /\ r.key = <<f, f>>)
    BY <1>3, <2>1 DEF Unzipped
  <2>4. CASE r.clean
    <3>1. Held(s, b, d)
      BY <1>4, <1>5, <2>3, <2>4 DEF Held
    <3>2. Extracted(red', d', ok')
      BY <2>1, <2>3, <2>4 DEF Extracted
    <3> QED
      BY <1>4, <1>5, <2>1, <2>2, <3>1, <3>2 DEF Unzipped
  <2>5. CASE ~r.clean
    BY <1>4, <1>5, <2>1, <2>2, <2>3, <2>5 DEF Unzipped, Extracted
  <2> QED
    BY <2>4, <2>5
<1>13. CASE \/ GetKey(t) \/ Compare(t) \/ CannotCompare(t) \/ Fetch(t)
            \/ ClearPart(t) \/ ClearExtracted(t) \/ ClearFolder(t) \/ ClearRaises(t)
            \/ ExtractPart(t) \/ FetchMeta(t) \/ Store(t) \/ Raise(t)
            \/ CompareFile(t) \/ NotConfigured(t) \/ Download(t)
            \/ OpenFile(t) \/ FillFile(t)
  BY <1>1, <1>13 DEF Placed, Fetching, Comparing, Is, Archives, Assets, GetKey, Compare,
     CannotCompare, Fetch, ClearPart, ClearExtracted, ClearFolder, ClearRaises,
     ExtractPart, FetchMeta, Store, Raise, CompareFile, NotConfigured, Download,
     OpenFile, FillFile
<1> QED
  BY <1>7, <1>8, <1>9, <1>10, <1>11, <1>12, <1>13 DEF ArchiveStep, AssetStep

(* At another cache it leaves the extracted files alone, or tells everybody *)
(* that relies on them that it removes one.                                 *)
LEMMA ElsewhereUnzips ==
  ASSUME TypeInv, NEW t \in Threads, At(t) # "extracted", ArchiveStep(t) \/ AssetStep(t),
         Extracted(redis["extracted"], dir["extracted"], "extracted" \notin cut)
  PROVE  /\ Extracted(redis'["extracted"], dir'["extracted"], "extracted" \notin cut')
         /\ \/ UNCHANGED dir["extracted"]
            \/ \A u \in Threads \ {t} : At(u) = "extracted" => ~th'[u].clean
         /\ "extracted" \notin cut' => "extracted" \notin cut
<1>1. CASE ClearExtracted(t)
  <2>1. th' = Touch(t, {"extracted"}) /\ "extracted" \in cut'
    BY <1>1 DEF ClearExtracted
  <2>2. ASSUME NEW u \in Threads \ {t}, At(u) = "extracted" PROVE ~th'[u].clean
    BY <2>1, <2>2, ThreadTypes DEF Touch, Thread
  <2> QED
    BY <2>1, <2>2 DEF Extracted
<1>2. CASE ~ClearExtracted(t)
  <2>1. /\ UNCHANGED <<redis["extracted"], dir["extracted"]>>
        /\ "extracted" \in cut' <=> "extracted" \in cut
    BY <1>2, OtherDirs DEF Archives
  <2> QED
    BY <2>1
<1> QED
  BY <1>1, <1>2

(* What a record says goes on while others work, if they are told.          *)
LEMMA SameResourced ==
  ASSUME NEW r, NEW s, Same(r, s), NEW b, NEW f, NEW d, NEW ok, NEW f2, NEW d2, NEW ok2,
         Resourced(r, b, f, d, ok),
         s.at \in {"resource", "extracted"} /\ s.clean => r.clean /\ f2 = f,
         s.at = "extracted" /\ s.clean => d2 = d,
         s.at = "extracted" /\ ok2 =>
           \/ ok
           \/ s.pc \notin Section /\ (s.clean => s.pc = "acquire")
  PROVE  Resourced(s, b, f2, d2, ok2)
<1> USE DEF Same
<1>1. ASSUME s.at = "resource" PROVE Zipped(s, b, f2)
  BY <1>1 DEF Resourced, Zipped
<1>2. ASSUME s.at = "extracted" PROVE Unzipped(s, b, f2, d2, ok2)
  <2>1. Unzipped(r, b, f, d, ok)
    BY <1>2 DEF Resourced
  <2>2. s.pc \in {"rmext", "unzip", "storeext"} => ~ok2
    BY <1>2, <2>1 DEF Unzipped, Section
  <2>3. ASSUME s.clean
        PROVE  /\ s.pc \in Section \cup {"acquire"} => f2 \in s.since..b
               /\ s.pc = "rmext" => s.data = f2
               /\ s.pc \in {"unzip", "storeext"} => s.data = f2 /\ s.key = <<f2, f2>>
               /\ s.pc = "unzip" => \A p \in Parts \ s.todo : d2[p] = f2
               /\ s.pc = "storeext" => d2 = Whole(f2)
    BY <1>2, <2>1, <2>3 DEF Unzipped
  <2>4. ASSUME s.clean, ok2
        PROVE  /\ s.pc \in {"release", "listres"} => Held(s, b, d2)
               /\ s.pc = "copyres" => \E v \in s.since..b :
                    d2 = Whole(v) /\ \A p \in Parts \ s.todo : s.copy[p] = v
               /\ s.pc = "done" =>
                    s.copy = Nothing \/ \E v \in s.since..b : s.copy = Whole(v)
    <3>1. CASE ok
      BY <1>2, <2>1, <2>4, <3>1 DEF Unzipped, Held
    <3>2. CASE s.pc = "acquire"
      BY <3>2
    <3> QED
      BY <1>2, <2>4, <3>1, <3>2
  <2> QED
    BY <2>1, <2>2, <2>3, <2>4 DEF Unzipped
<1> QED
  BY <1>1, <1>2 DEF Resourced

(* All of this, inside the with-blocks.                                     *)
LEMMA InsideResource ==
  ASSUME TypeInv, LockInv, NoticedInv, ResourceInv,
         NEW t \in Threads, ArchiveStep(t) \/ AssetStep(t)
  PROVE  ResourceInv'
<1> DEFINE b == backend["resource"]
<1> DEFINE f == file["resource"]
<1> DEFINE red == redis["extracted"]
<1> DEFINE d == dir["extracted"]
<1> DEFINE ok == "extracted" \notin cut
<1>1. /\ UNCHANGED <<backend, overrun>> /\ Kept(t)
      /\ th[t].pc \in Section /\ th'[t].pc \in Section /\ th'[t].at = th[t].at
  BY InsideKeeps DEF Keeps, Stays
<1>2. SUFFICES ASSUME {"resource", "extracted"} \cap overrun = {}
               PROVE  /\ Extracted(red', d', ok')
                      /\ \A u \in Threads : Resourced(th'[u], b, f', d', ok')
  BY <1>1 DEF ResourceInv
<1>3. Extracted(red, d, ok) /\ \A u \in Threads : Resourced(th[u], b, f, d, ok)
  BY <1>2 DEF ResourceInv
<1>4. At(t) = "extracted" => Unzipped(th[t], b, f, d, ok)
  BY <1>3 DEF Resourced, At
<1>5. /\ Extracted(red', d', ok')
      /\ d' = d \/ \A u \in Threads \ {t} : At(u) = "extracted" => ~th'[u].clean
      /\ ok' => ok \/ (At(t) = "extracted" /\ Filling(th[t]))
  <2>1. CASE At(t) = "extracted"
    BY <1>3, <1>4, <2>1, UnzippedStep
  <2>2. CASE At(t) # "extracted"
    BY <1>3, <2>2, ElsewhereUnzips
  <2> QED
    BY <2>1, <2>2
<1>6. Resourced(th'[t], b, f', d', ok')
  <2>1. CASE At(t) = "extracted"
    <3>1. f' = f /\ Unzipped(th'[t], b, f, d', ok')
      BY <1>3, <1>4, <2>1, UnzippedStep
    <3> QED
      BY <1>1, <2>1, <3>1 DEF Resourced, At
  <2>2. CASE At(t) = "resource"
    <3>1. Zipped(th[t], b, f)
      BY <1>3, <2>2 DEF Resourced, At
    <3>2. Zipped(th'[t], b, f')
      BY <2>2, <3>1, ZippedStep
    <3> QED
      BY <1>1, <2>2, <3>2 DEF Resourced, At, Section
  <2>3. CASE At(t) \notin {"resource", "extracted"}
    BY <1>1, <2>3 DEF Resourced, At, Section
  <2> QED
    BY <2>1, <2>2, <2>3
<1>7. ASSUME NEW u \in Threads \ {t} PROVE Resourced(th'[u], b, f', d', ok')
  <2>1. Same(th[u], th'[u]) /\ (th'[u].clean => th[u].clean)
    <3>1. th'[u] = th[u] \/ th'[u] = [th[u] EXCEPT !.clean = FALSE]
      BY <1>1 DEF Kept
    <3>2. th[u] \in Thread
      BY ThreadTypes
    <3> QED
      BY <3>1, <3>2 DEF Thread, Same
  <2>2. th'[u].at \in {"resource", "extracted"} /\ th'[u].clean => th[u].clean /\ f' = f
    BY <2>1, FileStep DEF Same, At
  <2>3. th'[u].at = "extracted" /\ th'[u].clean => d' = d
    BY <1>5, <2>1 DEF Same, At
  <2>4. ASSUME th'[u].at = "extracted", ok', ~ok
        PROVE  th'[u].pc \notin Section /\ (th'[u].clean => th'[u].pc = "acquire")
    <3>1. At(u) = "extracted" /\ At(t) = "extracted" /\ Filling(th[t])
      BY <1>5, <2>1, <2>4 DEF Same, At
    <3>2. th[u].pc \notin Section
      BY <1>1, <1>2, <3>1 DEF LockInv, Mutex
    <3>3. Noticed(th[t], th[u])
      BY <1>2, <3>1 DEF NoticedInv, Archives
    <3> QED
      BY <2>1, <3>1, <3>2, <3>3 DEF Noticed, Same, At
  <2>5. Resourced(th[u], b, f, d, ok)
    BY <1>3
  <2> HIDE DEF b, f, d, ok
  <2> QED
    BY <2>1, <2>2, <2>3, <2>4, <2>5, SameResourced
<1> QED
  BY <1>5, <1>6, <1>7

(* Outside the with-blocks it begins anew, keeps waiting, or copies.        *)
LEMMA CopyExtracted ==
  ASSUME TypeInv, NEW t \in Threads, ListResource(t) \/ CopyResource(t) \/ ResourceCopied(t),
         NEW r, r = th[t], NEW s, s = th'[t], NEW b \in Versions, NEW f, NEW ok,
         NEW d, d = dir["extracted"], Resourced(r, b, f, d, ok)
  PROVE  Resourced(s, b, f, d, ok)
<1>1. r \in Thread /\ d \in [Parts -> 0..MaxVersion]
  BY DEF TypeInv, TypeOK, Archives
<1>2. r.since \in Versions /\ r.copy \in [Parts -> 0..Torn]
  BY <1>1 DEF Thread
<1> USE DEF Keeps, Stays
<1>3. r.pc \in {"listres", "copyres"}
  BY DEF ListResource, CopyResource, ResourceCopied, Is
<1>4. r.at = "extracted" /\ Unzipped(r, b, f, d, ok)
  BY <1>3 DEF Resourced
<1>5. CASE ListResource(t)
  <2>1. r.pc = "listres" /\ Keeps(r, s) /\ s.pc = "copyres" /\ s.todo = Present("extracted")
    BY <1>5, HandleSteps
  <2>2. ASSUME r.clean, ok
        PROVE  \E v \in r.since..b : d = Whole(v) /\ \A p \in Parts \ s.todo : s.copy[p] = v
    <3>1. PICK v \in r.since..b : d = Whole(v)
      BY <1>4, <2>1, <2>2 DEF Unzipped, Held
    <3>2. s.todo = Parts
      BY <1>2, <2>1, <3>1 DEF Present, Whole, Absent, Versions
    <3> QED
      BY <3>1, <3>2
  <2> QED
    BY <1>4, <2>1, <2>2 DEF Resourced, Unzipped, Section
<1>6. CASE CopyResource(t)
  <2>1. CASE Gone(s)
    BY <2>1 DEF Gone, Resourced
  <2>2. CASE ~Gone(s)
    <3>1. r.pc = "copyres" /\ Stays(r, s) /\ s.pc = "copyres"
      BY <1>6, <2>2, HandleSteps
    <3>2. Copies(r, s, r.todo, d)
      BY <1>6, <2>2, HandleSteps
    <3>3. PICK p \in r.todo : /\ s.todo = r.todo \ {p}
                              /\ s.copy = [r.copy EXCEPT ![p] = d[p]]
      BY <3>2 DEF Copies
    <3>4. ASSUME r.clean, ok
          PROVE  \E v \in r.since..b : d = Whole(v) /\ \A q \in Parts \ s.todo : s.copy[q] = v
      <4>1. PICK v \in r.since..b : d = Whole(v) /\ \A q \in Parts \ r.todo : r.copy[q] = v
        BY <1>4, <3>1, <3>4 DEF Unzipped
      <4>2. \A q \in Parts \ s.todo : s.copy[q] = v
        BY <1>2, <3>3, <4>1 DEF Whole
      <4> QED
        BY <4>1, <4>2
    <3> QED
      BY <1>4, <3>1, <3>4 DEF Resourced, Unzipped, Section
  <2> QED
    BY <2>1, <2>2
<1>7. CASE ResourceCopied(t)
  <2>1. r.pc = "copyres" /\ r.todo = {} /\ Keeps(r, s) /\ s.pc = "done"
    BY <1>7, HandleSteps
  <2>2. ASSUME r.clean, ok PROVE \E v \in s.since..b : s.copy = Whole(v)
    <3>1. PICK v \in r.since..b : \A q \in Parts \ r.todo : r.copy[q] = v
      BY <1>4, <2>1, <2>2 DEF Unzipped
    <3>2. s.copy = Whole(v)
      BY <1>2, <2>1, <3>1 DEF Whole
    <3> QED
      BY <2>1, <3>1, <3>2
  <2> QED
    BY <1>4, <2>1, <2>2 DEF Resourced, Unzipped, Section
<1> QED
  BY <1>5, <1>6, <1>7

(* The with-block of the zip leads to that of the extracted files, and that *)
(* one to the copy.                                                         *)
LEMMA LeaveResource ==
  ASSUME TypeInv, NEW t \in Threads, Leave(t), NEW r, r = th[t], NEW s, s = th'[t],
         NEW b, NEW f, NEW d, NEW ok, Resourced(r, b, f, d, ok)
  PROVE  Resourced(s, b, f, d, ok)
<1> USE DEF Keeps, Stays
<1>1. r.pc \in Section
  BY LeaveSteps DEF Section
<1>2. CASE Gone(s)
  BY <1>2 DEF Gone, Resourced
<1>3. CASE s.at \notin {"resource", "extracted"} /\ s.pc \notin {"done", "listres", "copyres"}
  BY <1>3 DEF Resourced
<1>4. CASE r.pc = "release" /\ Keeps(r, s) /\ r.at = "extracted" /\ s.pc = "listres"
  BY <1>1, <1>4 DEF Resourced, Unzipped, Held, Section
<1>5. CASE /\ r.pc = "release" /\ r.at = "resource"
           /\ s.at = "extracted" /\ s.pc = "acquire" /\ s.copy = Nothing
           /\ s.since = r.since /\ s.clean = r.clean
  BY <1>5 DEF Resourced, Zipped, Unzipped, Section
<1>6. CASE r.at \in {"resource", "extracted"} /\ Keeps(r, s) /\ s.pc = "done"
  <2>1. s.copy = Nothing
    BY <1>1, <1>6 DEF Resourced, Zipped, Unzipped
  <2> QED
    BY <1>6, <2>1 DEF Resourced, Zipped, Unzipped, Section
<1> QED
  BY <1>2, <1>3, <1>4, <1>5, <1>6, LeaveSteps

LEMMA OutsideResource ==
  ASSUME TypeInv, NEW t \in Threads,
         Use(t) \/ Acquire(t) \/ MakeFolder(t) \/ Leave(t) \/ Submit(t),
         NEW r, r = th[t], NEW s, s = th'[t],
         NEW b \in Versions, b = backend["resource"], NEW f, NEW ok,
         NEW d, d = dir["extracted"], Resourced(r, b, f, d, ok)
  PROVE  Resourced(s, b, f, d, ok)
<1> USE DEF Keeps, Stays, Begun
<1>1. CASE Gone(s)
  BY <1>1 DEF Gone, Resourced
<1>2. CASE Begun(s, "resource", "mkdir")
  BY <1>2 DEF Resourced, Zipped, Section, Versions
<1>3. CASE s.at \notin {"resource", "extracted"} /\ s.pc \notin {"done", "listres", "copyres"}
  BY <1>3 DEF Resourced
<1>4. CASE Stays(r, s) /\ s.pc = "done" /\ s.copy = Nothing
  BY <1>4 DEF Resourced, Zipped, Unzipped, Section
<1>5. CASE /\ Stays(r, s)
           /\ s.pc \in {"meta", "list", "copy", "copied", "tlist", "tdown", "tcopy",
                        "compile", "outputs", "take", "taken"}
  BY <1>5 DEF Resourced, Zipped, Unzipped, Section
<1>6. CASE Acquire(t)
  <2>1. r.pc = "acquire" /\ Keeps(r, s) /\ s.pc \in {"zipsum", "checksum", "getkey"}
    BY <1>6, CaseSteps
  <2> QED
    BY <2>1 DEF Resourced, Zipped, Unzipped, Section
<1>7. CASE MakeFolder(t)
  <2>1. r.pc = "mkdir" /\ Keeps(r, s) /\ s.pc = "acquire"
    BY <1>7, CaseSteps
  <2>2. r.at # "extracted"
    BY <2>1, ThreadTypes DEF Placed, Comparing, Assets
  <2> QED
    BY <2>1, <2>2 DEF Resourced, Zipped
<1>8. CASE Leave(t)
  BY <1>8, LeaveResource
<1>9. CASE ListResource(t) \/ CopyResource(t) \/ ResourceCopied(t)
  BY <1>9, CopyExtracted
<1>10. CASE Submit(t)
  BY <1>3, <1>10, SubmitSteps
<1>11. CASE GetMeta(t) \/ NoMeta(t) \/ ListCases(t) \/ CasesCopied(t)
  BY <1>1, <1>5, <1>11, CaseSteps
<1>12. CASE CopyCase(t)
  BY <1>1, <1>5, <1>12, CaseSteps
<1>13. CASE FindInputs(t) \/ DownloadCases(t) \/ CompileAC(t)
  BY <1>1, <1>3, <1>5, <1>13, TrialSteps
<1>14. CASE CopyInput(t)
  BY <1>3, <1>5, <1>14, TrialSteps
<1>15. CASE WriteOutput(t)
  BY <1>5, <1>15, TrialSteps
<1>16. CASE OutputsWritten(t)
  BY <1>3, <1>5, <1>16, TrialSteps
<1>17. CASE Handle(t)
  BY <1>2, <1>3, <1>4, <1>17, HandleSteps
<1>18. CASE TakeChecker(t) \/ PrepareResource(t)
  BY <1>2, <1>4, <1>5, <1>18, HandleSteps
<1>19. CASE Answer(t)
  BY <1>1, <1>19, HandleSteps
<1> QED
  BY <1>6, <1>7, <1>8, <1>9, <1>10, <1>11, <1>12, <1>13, <1>14, <1>15, <1>16, <1>17,
     <1>18, <1>19 DEF Use

(* Nothing that happens around the threads disturbs it.                     *)
LEMMA ResourcedLater ==
  ASSUME NEW r \in Thread, NEW b \in Versions, NEW f, NEW d, NEW ok, Resourced(r, b, f, d, ok)
  PROVE  Resourced(r, b + 1, f, d, ok)
<1>1. r.since \in Versions
  BY DEF Thread
<1>2. r.since <= b => r.since..b \subseteq r.since..(b + 1) /\ r.since <= b + 1
  BY <1>1 DEF Versions
<1>3. ASSUME r.at = "resource" PROVE Zipped(r, b + 1, f)
  BY <1>2, <1>3 DEF Resourced, Zipped
<1>4. ASSUME r.at = "extracted" PROVE Unzipped(r, b + 1, f, d, ok)
  BY <1>2, <1>4 DEF Resourced, Unzipped, Held
<1> QED
  BY <1>3, <1>4 DEF Resourced

LEMMA EnvironmentResource ==
  ASSUME TypeInv, ResourceInv, EnvironmentStep
  PROVE  ResourceInv'
<1> DEFINE b == backend["resource"]
<1> DEFINE f == file["resource"]
<1> DEFINE red == redis["extracted"]
<1> DEFINE d == dir["extracted"]
<1> DEFINE ok == "extracted" \notin cut
<1>1. b \in Versions /\ \A u \in Threads : th[u] \in Thread
  BY ResourceTypes, ThreadTypes
<1>2. /\ b' \in {b, b + 1} /\ red' \in {red, NoKey} /\ overrun \subseteq overrun'
      /\ f' = f /\ d' = d /\ ok' = ok
      /\ \A u \in Threads : \/ th'[u] = Asleep
                            \/ Same(th[u], th'[u]) /\ th'[u].clean = th[u].clean
  BY EnvironmentKeeps DEF Items, Assets, Archives
<1>3. SUFFICES ASSUME {"resource", "extracted"} \cap overrun' = {}
               PROVE  /\ Extracted(red', d', ok')
                      /\ \A u \in Threads : Resourced(th'[u], b', f', d', ok')
  BY DEF ResourceInv
<1>4. Extracted(red, d, ok) /\ \A u \in Threads : Resourced(th[u], b, f, d, ok)
  BY <1>2, <1>3 DEF ResourceInv
<1> HIDE DEF b, f, red, d, ok
<1>5. Extracted(red', d, ok)
  BY <1>2, <1>4 DEF Extracted, NoKey, Versions
<1>6. ASSUME NEW u \in Threads PROVE Resourced(th'[u], b', f, d, ok)
  <2>1. CASE th'[u] = Asleep
    BY <2>1 DEF Resourced, Asleep
  <2>2. CASE Same(th[u], th'[u]) /\ th'[u].clean = th[u].clean
    <3>1. Resourced(th[u], b', f, d, ok)
      BY <1>1, <1>2, <1>4, ResourcedLater
    <3> QED
      BY <2>2, <3>1, SameResourced
  <2> QED
    BY <1>2, <2>1, <2>2
<1> QED
  BY <1>2, <1>5, <1>6

LEMMA InitResource == Init => ResourceInv
<1> SUFFICES ASSUME Init PROVE ResourceInv
  OBVIOUS
<1>1. redis["extracted"] = NoKey /\ \A u \in Threads : th[u] = Asleep
  BY DEF Init, Archives
<1>2. \A v \in Versions : NoKey # <<v, v>>
  BY DEF NoKey, Versions
<1> QED
  BY <1>1, <1>2 DEF ResourceInv, Extracted, Resourced, Asleep

LEMMA NextResource ==
  TypeInv /\ LockInv /\ NoticedInv /\ ResourceInv /\ [Next]_cvars => ResourceInv'
<1> SUFFICES ASSUME TypeInv, LockInv, NoticedInv, ResourceInv, [Next]_cvars
             PROVE  ResourceInv'
  OBVIOUS
<1>1. CASE UNCHANGED cvars
  BY <1>1 DEF cvars, world, disk, ResourceInv
<1>2. ASSUME NEW t \in Threads,
             Use(t) \/ Acquire(t) \/ MakeFolder(t) \/ Leave(t) \/ Submit(t)
      PROVE  ResourceInv'
  <2> DEFINE b == backend["resource"]
  <2> DEFINE f == file["resource"]
  <2> DEFINE d == dir["extracted"]
  <2> DEFINE ok == "extracted" \notin cut
  <2>1. UNCHANGED <<backend, redis, dir, file, overrun, cut>> /\ Kept(t)
    BY <1>2, OutsideKeeps
  <2>2. SUFFICES ASSUME {"resource", "extracted"} \cap overrun = {}, NEW u \in Threads
                 PROVE  Resourced(th'[u], b, f, d, ok)
    BY <2>1 DEF ResourceInv
  <2>3. b \in Versions /\ Resourced(th[u], b, f, d, ok)
    BY <2>2, ResourceTypes DEF ResourceInv
  <2>4. CASE u = t
    BY <1>2, <2>3, <2>4, OutsideResource
  <2>5. CASE u # t
    <3>1. th'[u] = th[u] \/ th'[u] = [th[u] EXCEPT !.clean = FALSE]
      BY <2>1, <2>5 DEF Kept
    <3>2. th[u] \in Thread
      BY ThreadTypes
    <3>3. Same(th[u], th'[u]) /\ (th'[u].clean => th[u].clean)
      BY <3>1, <3>2 DEF Thread, Same
    <3> HIDE DEF b, f, d, ok
    <3> QED
      BY <2>3, <3>3, SameResourced
  <2> QED
    BY <2>4, <2>5
<1>3. ASSUME NEW t \in Threads, ArchiveStep(t) \/ AssetStep(t)
      PROVE  ResourceInv'
  BY <1>3, InsideResource
<1>4. CASE Environment
  BY <1>2, <1>4, EnvironmentResource DEF Environment, EnvironmentStep
<1> QED
  BY <1>1, <1>2, <1>3, <1>4 DEF Next, Idle, ThreadStep, Refresh, ArchiveStep, AssetStep

(* The resource data that an accepted submission gets are missing or whole  *)
(* and current, unless a lock ran out, a refresh was cut off, or the files  *)
(* were written to meanwhile.                                               *)
THEOREM ResourceIsWhole == Spec => []ResourceWhole
<1> DEFINE Inv == TypeInv /\ LockInv /\ NoticedInv /\ ResourceInv
<1>1. Init => Inv
  BY InitTypes, InitLocks, InitNoticed, InitResource
<1>2. Inv /\ [Next]_cvars => Inv'
  BY NextTypes, NextLocks, NextNoticed, NextResource
<1>3. Inv => ResourceWhole
  <2> SUFFICES ASSUME Inv, NEW t \in Threads, Is(t, "done"), th[t].clean,
                      {"resource", "extracted"} \cap overrun = {}, "extracted" \notin cut
               PROVE  th[t].copy = Nothing \/ FreshWhole(t)
    BY DEF ResourceWhole
  <2>1. th[t].since \in Versions /\ backend["resource"] \in Versions
    BY ThreadTypes, ResourceTypes DEF Thread
  <2>2. Resourced(th[t], backend["resource"], file["resource"], dir["extracted"],
                  "extracted" \notin cut)
    BY DEF ResourceInv
  <2>3. CASE th[t].at # "extracted"
    BY <2>2, <2>3 DEF Resourced, Is
  <2>4. CASE th[t].at = "extracted" /\ th[t].copy # Nothing
    <3>1. PICK v \in th[t].since..backend["resource"] : th[t].copy = Whole(v)
      BY <2>2, <2>4 DEF Resourced, Unzipped, Is
    <3>2. v \in Versions /\ v >= th[t].since
      BY <2>1, CacheAssumption DEF Versions
    <3> QED
      BY <3>1, <3>2 DEF FreshWhole
  <2> QED
    BY <2>3, <2>4
<1> QED
  BY <1>1, <1>2, <1>3, PTL DEF Spec
=============================================================================
