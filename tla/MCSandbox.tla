----------------------------- MODULE MCSandbox -----------------------------
(* Instances of Sandbox for TLC. *)
EXTENDS Service, TLC

CONSTANTS s1, s2

(* A Python problem, a C problem and an interactive problem built with      *)
(* make; a trial of the first, and the first with a custom checker.         *)
Plain == [trial |-> FALSE, make |-> FALSE, compiled |-> FALSE,
          mode |-> "general", custom |-> FALSE, cases |-> 1]
Compiled == [Plain EXCEPT !.compiled = TRUE]
Built    == [Compiled EXCEPT !.make = TRUE, !.mode = "interactive"]
Trial    == [Plain EXCEPT !.trial = TRUE]
Custom   == [Plain EXCEPT !.custom = TRUE]

TwoCases(profiles) == {[p EXCEPT !.cases = 2] : p \in profiles}

OneCaseProfiles == {Plain, Compiled, Built}
LiveProfiles    == OneCaseProfiles \cup {Trial}
NormalProfiles  == TwoCases(OneCaseProfiles)
MixedProfiles   == TwoCases({Custom, Compiled, Built}) \cup {Trial}
CustomOnly      == {Custom}

OneSid  == {s1}
TwoSids == {s1, s2}
Sym     == Permutations(Sids)
=============================================================================
