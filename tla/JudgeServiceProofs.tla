-------------------------- MODULE JudgeServiceProofs --------------------------
(***************************************************************************)
(* What follows from the promises of module JudgeService, for any set of   *)
(* ids and any number of requests.                                         *)
(***************************************************************************)
EXTENDS JudgeService, TLAPS

(* Typing and the three promises, which are inductive together.             *)
Types ==
  /\ held \subseteq Request /\ promised \subseteq Request
  /\ executing \subseteq Request

IInv == Types /\ Settled /\ ExecutesScreened /\ OneAtATime

(* The inductive invariant holds at the start.                              *)
LEMMA InitPromises == Init => IInv
BY DEF Init, IInv, Types, Settled, ExecutesScreened, OneAtATime

(* A request that is discarded was refused or delivered, one that is        *)
(* preserved is archived, and neither executes.                             *)
LEMMA NextPromises == IInv /\ [Next]_vars => IInv'
<1> SUFFICES ASSUME IInv, [Next]_vars PROVE IInv'
  OBVIOUS
<1> USE DEF IInv, Types, Settled, ExecutesScreened, OneAtATime
<1>1. CASE UNCHANGED vars
  BY <1>1 DEF vars
<1>2. ASSUME NEW r \in Request, Receive(r) PROVE IInv'
  <2>1. \A q \in held : q[1] # r[1]
    BY <1>2 DEF Receive, HeldOf
  <2>2. held' = held \cup {r} /\ UNCHANGED <<promised, screened, executing, delivered, archive>>
    BY <1>2 DEF Receive
  <2>3. OneAtATime'
    BY <2>1, <2>2
  <2> QED BY <2>2, <2>3
<1>3. ASSUME NEW r \in Request, Promise(r) PROVE IInv'
  BY <1>3 DEF Promise
<1>4. ASSUME NEW r \in Request, Screen(r) PROVE IInv'
  BY <1>4 DEF Screen
<1>5. ASSUME NEW r \in Request, Execute(r) PROVE IInv'
  BY <1>5 DEF Execute
<1>6. ASSUME NEW r \in Request, Stop(r) PROVE IInv'
  BY <1>6 DEF Stop
<1>7. ASSUME NEW r \in Request, Deliver(r) PROVE IInv'
  BY <1>7 DEF Deliver
<1>8. ASSUME NEW r \in Request, Discard(r) PROVE IInv'
  BY <1>8 DEF Discard
<1>9. ASSUME NEW r \in Request, Preserve(r) PROVE IInv'
  BY <1>9 DEF Preserve
<1> QED BY <1>1, <1>2, <1>3, <1>4, <1>5, <1>6, <1>7, <1>8, <1>9 DEF Next

(* A service that keeps the promises of JudgeService loses no request it    *)
(* accepted, executes nothing but screened code whose result is still due,  *)
(* and never mixes the files of two requests of an id.                      *)
THEOREM Promises == Spec => [](Settled /\ ExecutesScreened /\ OneAtATime)
<1>1. IInv => Settled /\ ExecutesScreened /\ OneAtATime
  BY DEF IInv
<1> QED BY InitPromises, NextPromises, <1>1, PTL DEF Spec
=============================================================================
