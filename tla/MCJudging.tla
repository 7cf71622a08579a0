----------------------------- MODULE MCJudging -----------------------------
(* Instances of Judging for TLC.                                            *)
EXTENDS Judging

Plain ==
  [strategy |-> "compile", py |-> FALSE, zip |-> FALSE, rules |-> FALSE,
   short |-> FALSE, checker |-> "none", scorer |-> FALSE, keep |-> FALSE,
   binary |-> FALSE, teacherFirst |-> FALSE, again |-> FALSE, tasks |-> <<1>>]

MCProblems ==
  {\* everything kept, judged twice
   [Plain EXCEPT !.keep = TRUE, !.binary = TRUE, !.again = TRUE],
   \* Python, two cases, a custom checker
   [Plain EXCEPT !.py = TRUE, !.checker = "ai", !.tasks = <<1, 1>>, !.scorer = TRUE],
   [Plain EXCEPT !.checker = "plain", !.again = TRUE],
   \* a time limit below 200 ms; an empty task before another; no case
   [Plain EXCEPT !.short = TRUE, !.keep = TRUE, !.tasks = <<2>>],
   [Plain EXCEPT !.py = TRUE, !.tasks = <<0, 1>>],
   [Plain EXCEPT !.py = TRUE, !.tasks = <<0>>],
   \* the other strategies, with rules
   [Plain EXCEPT !.py = TRUE, !.rules = TRUE],
   [Plain EXCEPT !.strategy = "makeNormal", !.zip = TRUE, !.rules = TRUE, !.binary = TRUE],
   [Plain EXCEPT !.strategy = "makeNormal", !.zip = TRUE, !.py = TRUE, !.rules = TRUE],
   [Plain EXCEPT !.strategy = "functionOnly", !.rules = TRUE],
   [Plain EXCEPT !.strategy = "makeInteractive", !.keep = TRUE],
   [Plain EXCEPT !.strategy = "makeInteractive", !.py = TRUE, !.teacherFirst = TRUE]}

MCUploads == {{"entry"}, {"entry", "extra", "makefile"}, {"entry", "other"},
              {"makefile", "aout"}, {"makefile", "extra", "main"}}

MCCalls == {<<"sys", "exit">>}
MCRules == {{<<"recursive">>}, {<<"exit">>}}
=============================================================================
