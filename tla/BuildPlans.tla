----------------------------- MODULE BuildPlans -----------------------------
(***************************************************************************)
(* dispatcher/build_strategy.py: which files a build strategy asks for and *)
(* lays out, and what its finalize() makes of the outcome of make; with    *)
(* the build and compile threads of dispatcher.py that carry it out, and   *)
(* SubmissionRunner.compile, .compile_at_path and .build_with_make.        *)
(***************************************************************************)
EXTENDS ArtifactStore

Files(names, who) == [f \in Names |-> IF f \in names THEN who ELSE "none"]

(* A CODE upload is one source; a ZIP has whatever the student put there,   *)
(* executables of the student's machine included, and extract() refuses it  *)
(* without main.py or, in C and C++, a Makefile: no more than what the      *)
(* strategies ask for.                                                      *)
Arrivals ==
  IF problem.zip
    THEN {Files(names, "student") :
            names \in {z \in ZipUploads : (IF problem.py THEN "entry" ELSE "makefile") \in z}}
    ELSE {Files({"entry"}, "student")}

(* handle() up to the entry in self.result: the checker of a problem that   *)
(* is not interactive is prepared, or its information holds the error.      *)
Submit ==
  /\ ~Registered
  /\ att < IF problem.again THEN MaxAttempts ELSE 1
  /\ att' = att + 1 /\ home' = att + 1
  /\ stage' = "prepare"
  /\ src' \in Arrivals /\ teacher' = FALSE
  /\ info' \in IF problem.checker = "none" \/ Interactive THEN {info}
                                                          ELSE {"ready", "error"}
  /\ results' = Unjudged
  /\ overlap' = (overlap \/ tools # {} \/ cases # {} \/ closing # {})
  /\ UNCHANGED <<problem, built, analysis, tools, cases, orch, boxes, store,
                 closing, refused, died>>

-----------------------------------------------------------------------------
(* A strategy's plan: whether make is to run.                               *)
NeedsMake ==
  \/ problem.strategy = "functionOnly"
  \/ /\ ~problem.py
     /\ \/ problem.strategy = "makeNormal"
        \/ problem.strategy = "makeInteractive" /\ problem.zip

(* A function-only submission: the directory is emptied, the problem's      *)
(* makefile.zip unpacked, and the student's code written over the template. *)
Laid(f) ==
  IF problem.strategy = "functionOnly"
    THEN {[Files(names, "staff") EXCEPT !.impl = f.entry] :
            names \in {{"makefile"}, {"makefile", "entry", "impl"}}}
    ELSE {f}

(* The rest of handle(): _prepare_with_build_strategy, for an interactive   *)
(* problem with the teacher's source fetched and, in C, compiled.  Nothing  *)
(* is to be built for Python without make: it counts as prebuilt.           *)
Prepare ==
  /\ stage = "prepare"
  /\ src' \in Laid(src)
  /\ teacher' = Interactive
  /\ prebuilt' = (problem.py /\ ~NeedsMake)
  /\ stage' = "rules"
  /\ UNCHANGED <<problem, att, results, info, home, compiled, analysis, tools,
                 cases, orch, boxes, store, closing, hist>>

(* The problem's makefile.zip or its teacher cannot be fetched, is not      *)
(* configured or does not compile.  All cases get AE.                       *)
PrepareFails ==
  /\ stage = "prepare"
  /\ problem.strategy \in {"functionOnly", "makeInteractive"}
  /\ FailAll("AE")
  /\ UNCHANGED <<problem, att, info, disk, built, analysis, tools, cases, orch,
                 boxes, store, hist>>

-----------------------------------------------------------------------------
(* The threads.                                                             *)
Tool(job) == [job |-> job, att |-> att, pc |-> "work", data |-> 0]
Advance(t, pc, data) ==
  tools' = (tools \ {t}) \cup {[t EXCEPT !.pc = pc, !.data = data]}
EndTool(t) == tools' = tools \ {t}

(* The program goes to the artifact collector when the problem asks for it. *)
Built(t) == IF problem.binary THEN Advance(t, "collect", 0) ELSE EndTool(t)

(* The analysis passed: the pending jobs go to the queue.                   *)
StartTools ==
  tools' = tools \cup (IF NeedsMake THEN {Tool("build")}
                       ELSE IF ~problem.py THEN {Tool("compile")} ELSE {})

(* What a successful make may leave.                                        *)
MakeResults(f) ==
  {[n \in Names |-> IF n \in made THEN "judge" ELSE f[n]] :
     made \in SUBSET ({"aout", "main"} \cup (IF problem.py THEN {"entry"} ELSE {}))}

(* _finalize_compiled_binary wants a.out and no other executable; Python    *)
(* needs its main.py.                                                       *)
Finalizable(f) ==
  IF problem.py THEN f.entry # "none" ELSE f.aout # "none" /\ f.main = "none"
Finalized(f) ==
  IF problem.py THEN f ELSE [f EXCEPT !.main = f.aout, !.aout = "none"]

Build(t) ==
  /\ t.job = "build" /\ t.pc = "work"
  /\ \E f \in MakeResults(src) :
       /\ Finalizable(f)
       /\ src' = Finalized(f)
  /\ prebuilt' = TRUE
  /\ Built(t)
  /\ UNCHANGED <<reg, home, teacher, compiled, analysis, cases, orch, boxes,
                 store, closing, hist>>

(* make or finalize() fails: _handle_build_failure.                         *)
BuildFails(t) ==
  /\ t.job = "build" /\ t.pc = "work"
  /\ src' \in {src} \cup {f \in MakeResults(src) : ~Finalizable(f)}
  /\ FailAll("CE")
  /\ EndTool(t)
  /\ UNCHANGED <<problem, att, info, home, teacher, built, analysis, cases, orch,
                 boxes, store, hist>>

(* compile(): JE when Docker fails.  The cases may start from here on.      *)
Compile(t) ==
  /\ t.job = "compile" /\ t.pc = "work"
  /\ compiled' \in {"AC", "CE", "JE"}
  /\ IF compiled' = "AC" THEN src' = [src EXCEPT !.main = "judge"] /\ Built(t)
                         ELSE UNCHANGED src /\ EndTool(t)
  /\ UNCHANGED <<reg, home, teacher, prebuilt, analysis, cases, orch, boxes,
                 store, closing, hist>>

(* Docker refuses a call and the runner raises: build_with_make removes its *)
(* container, Sandbox.run has no handler around the start of one.           *)
ToolDies(t) ==
  /\ t.pc = "work"
  /\ EndTool(t)
  /\ died' = TRUE
  /\ \E left \in SUBSET {Box(t.job, t.att, <<0, 0>>)} :
       /\ t.job = "build" => left = {}
       /\ boxes' = boxes \cup left /\ refused' = refused \cup left
  /\ UNCHANGED <<reg, disk, built, analysis, cases, orch, store, closing, overlap>>

(* collect_binary, unless the id is not in self.result any more, and the    *)
(* start of upload_binary_only.                                             *)
CollectAndSend(t) ==
  /\ t.pc = "collect"
  /\ IF Registered
       THEN LET program == Collected.binary IN
            /\ collector' = Collected
            /\ IF program = 0 THEN EndTool(t) ELSE Advance(t, "send", program)
       ELSE EndTool(t) /\ UNCHANGED collector
  /\ UNCHANGED <<reg, disk, built, analysis, cases, orch, boxes, uploads, closing,
                 hist>>

(* The end of the upload; its attempt may be over by then.                  *)
FinishSend(t) ==
  /\ t.pc = "send"
  /\ \E ok \in BOOLEAN :
       /\ collector' = Uploaded(ok)
       /\ uploads' = IF ok THEN uploads \cup {Upload("binary", t.data, t.att)}
                           ELSE uploads
  /\ EndTool(t)
  /\ UNCHANGED <<reg, disk, built, analysis, cases, orch, boxes, closing, hist>>

ToolStep(t) ==
  Build(t) \/ BuildFails(t) \/ Compile(t) \/ ToolDies(t) \/ CollectAndSend(t)
    \/ FinishSend(t)
=============================================================================
