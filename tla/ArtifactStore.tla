---------------------------- MODULE ArtifactStore ----------------------------
(***************************************************************************)
(* dispatcher/artifact_collector.py.  One ArtifactCollector object keeps,  *)
(* by submission id and without a lock, the snapshots of the case          *)
(* directories, the case artifacts, the compiled program, and whether the  *)
(* program was uploaded.  Case threads, the build or compile thread and    *)
(* the thread that completes the submission all use these entries.         *)
(*                                                                         *)
(* An artifact is labelled with the attempt that recorded it; extra says   *)
(* that it contains a resource file of the judge.  A program is labelled   *)
(* with the attempt whose directory it was read from.                      *)
(***************************************************************************)
EXTENDS JudgingState

(* snapshot_before_case: every file of the case directory is known.         *)
Snapshot(n) == collector' = [collector EXCEPT !.snaps = @ \cup {n}]

(* record_case_artifact: the zip holds what changed since the snapshot; a   *)
(* resource file that the program wrote to, or any when there is no         *)
(* snapshot, is among it unless it was removed before.                      *)
RecordArtifact(a, n, resourceLeft, resourceWritten) ==
  collector' = [collector EXCEPT !.arts[n] =
    [att |-> a, extra |-> resourceLeft /\ (resourceWritten \/ n \notin collector.snaps)]]

(* collect_binary: nothing when there is a program already, or no main to   *)
(* be read in the directory.                                                *)
Collected ==
  IF collector.binary = 0 /\ src.main # "none"
    THEN [collector EXCEPT !.binary = home]
    ELSE collector

(* Mutant of Uploaded: the outcome is not looked at.                        *)
UploadedAnyhow(ok) == [collector EXCEPT !.sent = TRUE, !.binary = 0]

(* upload_binary_only after its three tries: only a program that reached    *)
(* the backend is dropped.                                                  *)
Uploaded(ok) ==
  IF ok THEN [collector EXCEPT !.sent = TRUE, !.binary = 0] ELSE collector

Upload(kind, of, by) == [kind |-> kind, of |-> of, by |-> by]

(* upload_all: every case artifact of the id is sent,                       *)
CaseUploads(a) ==
  {Upload("case", collector.arts[n].att, a) :
     n \in {i \in CaseIds : collector.arts[i].att # 0}}
    \cup {Upload("resource", collector.arts[n].att, a) :
            n \in {i \in CaseIds : collector.arts[i].extra}}

(* and the program it found on entry, unless it was uploaded by then.       *)
BinaryUploads(a, program) ==
  IF program # 0 /\ ~collector.sent THEN {Upload("binary", program, a)} ELSE {}

(* Mutant of Forgotten: the case artifacts stay.                            *)
KeepArtifacts == [NoStore EXCEPT !.arts = collector.arts]

(* cleanup()                                                                *)
Forgotten == NoStore
=============================================================================
