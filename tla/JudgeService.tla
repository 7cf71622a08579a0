---------------------------- MODULE JudgeService ----------------------------
(***************************************************************************)
(* What the judge service promises to those outside, the backend and the   *)
(* students: of a submission id it holds the files of one request at a     *)
(* time; it executes student code only after it has screened it; it        *)
(* delivers one result for a request, when nothing of it executes any      *)
(* more; and it lets the files of a request it accepted go only for a      *)
(* result that was delivered or into the archive.                          *)
(*                                                                         *)
(* Module Service says how the state of the program stands for this one.   *)
(***************************************************************************)
CONSTANTS
  Ids,       \* submission ids
  Requests   \* the requests made for an id

VARIABLES
  held,       \* the requests whose files are in the submission directories
  promised,   \* the requests answered with "accepted"
  screened,   \* the requests whose files passed the static analysis
  executing,  \* the requests of which a program or a build is running
  delivered,  \* the requests whose result the backend has
  archive     \* the requests whose files were moved to the backup

vars == <<held, promised, screened, executing, delivered, archive>>

Request == Ids \X Requests
HeldOf(s) == {r \in held : r[1] = s}

Init ==
  /\ held = {} /\ promised = {} /\ screened = {}
  /\ executing = {} /\ delivered = {} /\ archive = {}

Receive(r) ==
  /\ HeldOf(r[1]) = {}
  /\ r \notin promised \cup delivered \cup archive
  /\ held' = held \cup {r}
  /\ UNCHANGED <<promised, screened, executing, delivered, archive>>

Promise(r) ==
  /\ r \in held \ delivered
  /\ promised' = promised \cup {r}
  /\ UNCHANGED <<held, screened, executing, delivered, archive>>

Screen(r) ==
  /\ r \in (held \cap promised) \ delivered
  /\ screened' = screened \cup {r}
  /\ UNCHANGED <<held, promised, executing, delivered, archive>>

Execute(r) ==
  /\ r \in (held \cap screened) \ delivered
  /\ executing' = executing \cup {r}
  /\ UNCHANGED <<held, promised, screened, delivered, archive>>

Stop(r) ==
  /\ executing' = executing \ {r}
  /\ UNCHANGED <<held, promised, screened, delivered, archive>>

Deliver(r) ==
  /\ r \in held \ (delivered \cup executing)
  /\ delivered' = delivered \cup {r}
  /\ UNCHANGED <<held, promised, screened, executing, archive>>

(* The files of a request that was refused, or is settled, are removed.     *)
Discard(r) ==
  /\ r \in held \ executing
  /\ r \in promised => r \in delivered
  /\ held' = held \ {r}
  /\ UNCHANGED <<promised, screened, executing, delivered, archive>>

Preserve(r) ==
  /\ r \in held \ executing
  /\ held' = held \ {r}
  /\ archive' = archive \cup {r}
  /\ UNCHANGED <<promised, screened, executing, delivered>>

Next ==
  \E r \in Request :
    Receive(r) \/ Promise(r) \/ Screen(r) \/ Execute(r) \/ Stop(r)
      \/ Deliver(r) \/ Discard(r) \/ Preserve(r)

Spec == Init /\ [][Next]_vars

-----------------------------------------------------------------------------
(* Whatever was promised is held, or delivered, or archived.                *)
Settled == promised \subseteq held \cup delivered \cup archive

(* Only screened code executes, and only while its files are there and its  *)
(* result is not delivered.                                                 *)
ExecutesScreened == executing \subseteq (screened \cap held) \ delivered

(* An id has the files of one request.                                      *)
OneAtATime == \A q, r \in held : q[1] = r[1] => q = r
=============================================================================
