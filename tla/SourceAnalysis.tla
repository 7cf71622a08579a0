--------------------------- MODULE SourceAnalysis ---------------------------
(***************************************************************************)
(* dispatcher/static_analysis.py, run by the dispatcher thread between the *)
(* preparation of a submission and its build: which rules apply, which     *)
(* files are read, what the visitors report of a file, and the comparison  *)
(* with the black or white list.                                           *)
(*                                                                         *)
(* A source file is abstracted to what the visitors collect from it: the   *)
(* functions it defines, whom each of them calls, and the library          *)
(* functions it calls.  A name with dots is a sequence.                    *)
(***************************************************************************)
EXTENDS BuildPlans, SequencesExt

CONSTANTS
  Calls,    \* library calls a source file may contain
  RuleSets  \* the lists of names a problem may forbid or allow

Recursive == <<"recursive">>

AnalysisDone(pc, files) ==
  analysis' = [NoAnalysis EXCEPT !.pc = pc, !.files = files]

(* success: NetworkSetup, and then the pending jobs, reach the queue.       *)
Pass(pc, files) ==
  /\ AnalysisDone(pc, files)
  /\ stage' = "work"
  /\ StartTools
  /\ UNCHANGED <<results, closing>>

(* _handle_sa_failure.                                                      *)
Fail(files) ==
  /\ AnalysisDone("failed", files)
  /\ FailAll("AE")
  /\ UNCHANGED tools

Screening == UNCHANGED <<problem, att, info, disk, built, cases, orch, boxes,
                         store, hist>>

(* fetch_problem_rules: an error answer or an unreadable one counts as no   *)
(* rules, and without rules nothing is analysed.                            *)
NoRules ==
  /\ stage = "rules"
  /\ Pass("none", {})
  /\ Screening

(* No answer at all: the exception reaches the dispatcher.                  *)
FetchRaises ==
  /\ stage = "rules"
  /\ Fail({})
  /\ Screening

FetchRules ==
  /\ stage = "rules" /\ problem.rules
  /\ \E rules \in RuleSets, white \in BOOLEAN :
       analysis' = [NoAnalysis EXCEPT !.pc = "files", !.rules = rules,
                                      !.white = white]
  /\ stage' = "analysis"
  /\ UNCHANGED <<results, closing, tools>>
  /\ Screening

-----------------------------------------------------------------------------
Present(names) == {f \in names : src[f] # "none"}

(* Mutant of Target: the template's main file is read.                      *)
EntryOnly == "entry"

(* The one file of a CODE submission that is read.                          *)
Target == IF problem.strategy = "functionOnly" THEN "impl" ELSE "entry"

(* Mutant of ZipSources: whatever the Makefile names is read.               *)
AllFiles == SUBSET Present(Names) \ {{}}

(* Of a ZIP submission: the sources the Makefile names and, when it names   *)
(* none or there is none, all of the language.                              *)
ZipSources ==
  IF src.makefile # "none" THEN (SUBSET Present(Sources) \ {{}}) \cup {Present(Sources)}
                           ELSE {Present(Sources)}

(* A ZIP with code of another language, or without any, is refused.  The    *)
(* file of any other submission is there: the strategy has looked.          *)
ChooseSources ==
  /\ analysis.pc = "files"
  /\ IF problem.zip
       THEN \E files \in ZipSources :
              IF files = {} \/ src.other # "none"
                THEN Fail({})
                ELSE /\ analysis' = [analysis EXCEPT !.pc = "visit",
                                       !.files = files, !.todo = files]
                     /\ UNCHANGED <<stage, results, closing, tools>>
       ELSE /\ analysis' = [analysis EXCEPT !.pc = "visit",
                              !.files = {Target}, !.todo = {Target}]
            /\ UNCHANGED <<stage, results, closing, tools>>
  /\ Screening

(* C or C++ and no libclang: the analysis is skipped and passes.            *)
SkipAnalysis ==
  /\ analysis.pc = "visit" /\ ~problem.py /\ analysis.todo = analysis.files
  /\ Pass("skipped", {})
  /\ Screening

-----------------------------------------------------------------------------
(* The visitors: one file, the calls among its functions, its library       *)
(* calls.                                                                   *)
VisitFile ==
  /\ analysis.pc = "visit"
  /\ \E f \in analysis.todo, graph \in [Funcs -> SUBSET Funcs], calls \in SUBSET Calls :
       analysis' = [analysis EXCEPT !.pc = "search", !.todo = @ \ {f},
                                    !.graph = graph, !.left = graph, !.found = FALSE,
                                    !.facts = @ \cup calls]
  /\ UNCHANGED <<stage, results, closing, tools>>
  /\ Screening

(* detect_cycles: depth first search from every caller that was not visited *)
(* yet, in C and C++ also from functions defined there that call nobody.    *)
(* The functions it is inside of are its stack, and left has the calls it   *)
(* has not followed.                                                        *)
Callers == {u \in Funcs : analysis.graph[u] # {}}
Inside  == analysis.stack[Len(analysis.stack)]

(* Mutant of OnStack: a function stays in recursion_stack when it is done.  *)
EverSeen(u) == u \in analysis.seen
OnStack(u)  == u \in ToSet(analysis.stack)

Enter(u) ==
  /\ u \in Callers \/ ~problem.py
  /\ analysis.stack = <<>> /\ u \notin analysis.seen
  /\ analysis' = [analysis EXCEPT !.seen = @ \cup {u}, !.stack = <<u>>]

Follow(v) ==
  analysis' = [analysis EXCEPT
                 !.left[Inside] = @ \ {v},
                 !.seen  = @ \cup {v},
                 !.stack = IF v \in analysis.seen THEN @ ELSE Append(@, v),
                 !.found = @ \/ (v \in analysis.seen /\ OnStack(v))]

Leave ==
  /\ analysis.left[Inside] = {}
  /\ analysis' = [analysis EXCEPT !.stack = Front(@)]

SearchEnds ==
  /\ analysis.stack = <<>> /\ Callers \subseteq analysis.seen
  /\ analysis' = [analysis EXCEPT !.pc = "visit", !.seen = {}, !.left = NoCalls,
                                  !.facts = @ \cup {r \in {Recursive} : analysis.found}]

DetectCycles ==
  /\ analysis.pc = "search"
  /\ \/ \E u \in Funcs : Enter(u)
     \/ analysis.stack # <<>> /\ \E v \in analysis.left[Inside] : Follow(v)
     \/ analysis.stack # <<>> /\ Leave
     \/ SearchEnds
  /\ UNCHANGED <<stage, results, closing, tools>>
  /\ Screening

(* The file does not parse.                                                 *)
SyntaxError ==
  /\ analysis.pc = "visit" /\ analysis.todo # {}
  /\ Fail({})
  /\ Screening

(* _check_items: a rule matches its name and every qualified form of it.    *)
Matches(name, rule) == IsSuffix(rule, name)
Listed(name) == \E rule \in analysis.rules : Matches(name, rule)
Violations == {name \in analysis.facts : Listed(name) # analysis.white}

CheckItems ==
  /\ analysis.pc = "visit" /\ analysis.todo = {}
  /\ IF Violations = {} THEN Pass("passed", analysis.files) ELSE Fail(analysis.files)
  /\ Screening

Analysis ==
  NoRules \/ FetchRaises \/ FetchRules \/ ChooseSources \/ SkipAnalysis
    \/ VisitFile \/ DetectCycles \/ SyntaxError \/ CheckItems

-----------------------------------------------------------------------------
(* A function that may call itself through functions of the file, by the    *)
(* definition the search stands for: calls that lead around.                *)
Around(graph, k) ==
  {path \in [1..k -> Funcs] :
     /\ \A i \in 1..(k - 1) : path[i + 1] \in graph[path[i]]
     /\ path[1] \in graph[path[k]]}
HasCycle(graph) == \E k \in 1..Cardinality(Funcs) : Around(graph, k) # {}
=============================================================================
