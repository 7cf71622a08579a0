------------------------------ MODULE MCIntake ------------------------------
(* Instances of SubmissionIntake for TLC.                                   *)
EXTENDS SubmissionIntake, TLC

CONSTANTS t1, t2, p1, p2

MCThreads == {t1, t2}
MCParts == {p1, p2}

(* The problems: with a checker, with resource data, or neither.            *)
P(assets, kinds, changing, requests, wrong) ==
  [assets |-> assets, kinds |-> kinds, changing |-> changing,
   requests |-> requests, faults |-> wrong]

MCProblems ==
  {P({"checker"}, {"normal"}, {"testdata", "checker"}, 2, 1),
   P({"resource"}, {"normal"}, {"testdata", "resource"}, 2, 1),
   P({"resource"}, {"normal", "public"}, {}, 3, 0),
   P({"checker", "resource"}, {"normal", "custom"}, {}, 1, 1),
   P({}, {"public", "custom"}, {"public", "accode"}, 2, 1),
   P({}, {"public"}, {"public"}, 3, 2),
   P({}, {"normal"}, {"testdata"}, 3, 2)}

Sym == Permutations(MCThreads) \cup Permutations(MCParts)
=============================================================================
