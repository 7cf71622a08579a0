----------------------------- MODULE AssetCache -----------------------------
(***************************************************************************)
(* The other two caches of a problem (dispatcher/asset_cache.py): single   *)
(* asset files, which are compared with the backend by their own checksum, *)
(* and the resource data extracted from one of them.  Both live below the  *)
(* directory that ensure_testdata clears under another lock.               *)
(***************************************************************************)
EXTENDS ProblemCache

(* cache_dir.mkdir(parents=True, exist_ok=True), before the lock is taken.  *)
MakeFolder(t) ==
  /\ Is(t, "mkdir")
  /\ folders' = folders \cup {At(t)}
  /\ Step(t, "acquire")
  /\ UNCHANGED <<world, redis, locks, dir, file, meta,
                 trial, overrun, cut, faults>>

(* Mutant of CompareFile: a file that is there is taken as it is.           *)
FileExists(t) ==
  /\ Is(t, "checksum")
  /\ Step(t, IF file[At(t)] \in Versions THEN "release" ELSE "download")
  /\ UNCHANGED <<world, redis, locks, disk, overrun, cut, faults>>

(* The backend's checksum against that of the local file; the checksum in   *)
(* Redis is refreshed but decides nothing.                                  *)
CompareFile(t) ==
  /\ Is(t, "checksum")
  /\ Step(t, IF file[At(t)] = backend[At(t)] THEN "release" ELSE "download")
  /\ UNCHANGED <<world, redis, locks, disk, overrun, cut, faults>>

(* get_asset_checksum answers None for every failed response, and the asset *)
(* counts as not configured (AssetNotFoundError).                           *)
NotConfigured(t) ==
  /\ Is(t, "checksum") /\ Fault
  /\ Step(t, "none")
  /\ UNCHANGED <<world, redis, locks, disk, overrun, cut>>

Download(t) ==
  /\ Is(t, "download")
  /\ th' = [th EXCEPT ![t].data = backend[At(t)], ![t].pc = "write"]
  /\ UNCHANGED <<world, redis, locks, disk, overrun, cut, faults>>

(* write_bytes truncates the file and then fills it.                        *)
Relying(a) == IF a = "resource" THEN {"resource", "extracted"} ELSE {a}

OpenFile(t) ==
  /\ Is(t, "write")
  /\ IF At(t) \in folders
     THEN /\ file' = [file EXCEPT ![At(t)] = Torn]
          /\ th' = [Touch(t, Relying(At(t))) EXCEPT ![t].pc = "fill"]
     ELSE Step(t, "unwind") /\ UNCHANGED file
  /\ UNCHANGED <<world, redis, locks, dir, folders, meta,
                 trial, overrun, cut, faults>>

(* The file may have been unlinked in between: its name stays away.         *)
FillFile(t) ==
  /\ Is(t, "fill")
  /\ file' = [file EXCEPT ![At(t)] = IF @ = Absent THEN Absent ELSE th[t].data]
  /\ th' = [Touch(t, Relying(At(t))) EXCEPT ![t].pc = "release"]
  /\ UNCHANGED <<world, redis, locks, dir, folders, meta,
                 trial, overrun, cut, faults>>

-----------------------------------------------------------------------------
(* Mutant of ExtractedHit: some extraction is there.                        *)
AnyExtracted(zip) == zip # Torn /\ Present("extracted") # {}

(* The zip as it is now is what was extracted last, and something is there. *)
ExtractedHit(zip) ==
  zip # Torn /\ redis["extracted"] = <<zip, zip>> /\ Present("extracted") # {}

(* ensure_extracted_resource, in its own lock: the checksum of the zip as   *)
(* it is now, compared with what was extracted last.                        *)
SumZip(t) ==
  /\ Is(t, "zipsum")
  /\ LET zip == file["resource"]
     IN IF zip = Absent THEN Step(t, "unwind") /\ UNCHANGED cut
        ELSE IF ExtractedHit(zip) THEN Step(t, "release") /\ UNCHANGED cut
        ELSE /\ cut' = cut \cup {"extracted"}
             /\ th' = [th EXCEPT ![t].pc = "rmext", ![t].data = zip,
                                 ![t].todo = Present("extracted")]
  /\ UNCHANGED <<world, redis, locks, disk, overrun, faults>>

(* rmtree(extracted_dir); a part that is gone already makes it raise.       *)
RemoveExtracted(t) ==
  /\ Is(t, "rmext")
  /\ \E p \in th[t].todo :
       IF dir["extracted"][p] = Absent
       THEN Step(t, "unwind") /\ UNCHANGED dir
       ELSE /\ dir' = [dir EXCEPT !["extracted"][p] = Absent]
            /\ th' = [Touch(t, {"extracted"}) EXCEPT ![t].todo = @ \ {p}]
  /\ UNCHANGED <<world, redis, locks, file, folders, meta,
                 trial, overrun, cut, faults>>

(* mkdir(parents=True), and the zip is opened again.                        *)
OpenZip(t) ==
  /\ Is(t, "rmext") /\ th[t].todo = {}
  /\ folders' = folders \cup {"resource"}
  /\ th' = [th EXCEPT ![t].pc = "unzip", ![t].todo = Parts,
              ![t].key = IF th[t].data = Torn THEN NoKey ELSE <<th[t].data, th[t].data>>,
              ![t].data = file["resource"]]
  /\ UNCHANGED <<world, redis, locks, dir, file,
                 meta, trial, overrun, cut, faults>>

(* _safe_extract_zip makes the folder of every file anew, should somebody   *)
(* have removed it.                                                         *)
UnzipPart(t) ==
  /\ Is(t, "unzip")
  /\ th[t].data \in Versions /\ file["resource"] \in {th[t].data, Absent}
  /\ folders' = folders \cup {"resource"}
  /\ \E p \in th[t].todo :
       /\ dir' = [dir EXCEPT !["extracted"][p] = th[t].data]
       /\ th' = [Touch(t, {"extracted"}) EXCEPT
                   ![t].todo = @ \ {p},
                   ![t].pc = IF th[t].todo = {p} THEN "storeext" ELSE "unzip"]
  /\ UNCHANGED <<world, redis, locks, file, meta,
                 trial, overrun, cut, faults>>

(* No zip, a torn one, one that is overwritten while it is read, a full     *)
(* disk: the function answers None, like for an asset that is not           *)
(* configured, and leaves the old key.                                      *)
UnzipFails(t) ==
  /\ Is(t, "unzip")
  /\ IF th[t].data \in Versions /\ file["resource"] \in {th[t].data, Absent}
     THEN Fault ELSE UNCHANGED faults
  /\ Step(t, "none")
  /\ UNCHANGED <<world, redis, locks, disk, overrun, cut>>

StoreExtracted(t) ==
  /\ Is(t, "storeext")
  /\ redis' = [redis EXCEPT !["extracted"] = th[t].key]
  /\ cut' = IF th[t].clean THEN cut \ {"extracted"} ELSE cut
  /\ Step(t, "release")
  /\ UNCHANGED <<world, locks, disk, overrun, faults>>
=============================================================================
