----------------------------- MODULE JudgeState -----------------------------
(***************************************************************************)
(* The shared state of the judge service: what dispatcher/dispatcher.py    *)
(* keeps in the attributes of its one Dispatcher object, the submission    *)
(* directories on disk, and the threads that work on both.                 *)
(*                                                                         *)
(* Three kinds of thread touch this state without a common lock:           *)
(*   - HTTP threads of app.py (module SubmitApi),                          *)
(*   - the dispatcher thread, Dispatcher.run (module DispatchLoop),        *)
(*   - one thread per build, compile and case (module CaseWorkers);        *)
(* each of them may end up in on_submission_complete (module Reporting).   *)
(* Module Sandbox composes the four.                                       *)
(*                                                                         *)
(* A submission id may be submitted more than once.  Every request carries *)
(* a ghost number, its attempt, which the code does not have: jobs, lock   *)
(* objects, directories and results are labelled with the attempt that     *)
(* made them, so that properties can tell one run of an id from another.   *)
(***************************************************************************)
EXTENDS Naturals, Sequences, FiniteSets

CONSTANTS
  Sids,          \* submission ids
  Profiles,      \* the problem and request configurations explored
  MaxCases,      \* the largest number of cases of a problem
  MaxRequests,   \* bound: requests per submission id
  QueueSize,     \* MAX_TASK_COUNT, the capacity of Dispatcher.queue
  MaxContainers, \* MAX_CONTAINER_SIZE
  HttpThreads,   \* gunicorn's thread count
  MayExpire,     \* whether the 300 s submission timeout can pass
  MayRaise       \* whether worker threads can die of an exception

Cases    == 1..MaxCases
Attempts == 1..MaxRequests

(* What of a request and of its problem's meta the control flow looks at:   *)
(* the trial flag, whether the build strategy needs make, compile_need of   *)
(* the language, the execution mode (an interactive problem may lack its    *)
(* teacherLang), a custom checker or scorer, and the number of cases.       *)
Profile == [trial : BOOLEAN, make : BOOLEAN, compiled : BOOLEAN,
            mode : {"general", "interactive", "noTeacher"},
            custom : BOOLEAN, cases : 0..MaxCases]

ASSUME ConstantsAssumption ==
  /\ Profiles \subseteq Profile
  /\ MaxCases \in Nat \ {0}
  /\ MaxRequests \in Nat \ {0}
  /\ QueueSize \in Nat \ {0}
  /\ MaxContainers \in Nat \ {0}
  /\ HttpThreads \in Nat \ {0}
  /\ MayExpire \in BOOLEAN
  /\ MayRaise \in BOOLEAN

VARIABLES
  \* attributes of the Dispatcher object
  queue,      \* the bounded FIFO of jobs
  ctx,        \* ctx[s]: the entries of s in the dictionaries release() clears
  trials,     \* trial_submissions
  custom,     \* ids with an enabled custom_checker_info/custom_scorer_info
  containers, \* container_count
  \* the file system
  dirs,       \* dirs[s]: whose files SUBMISSION_DIR/s holds
  backups,    \* whose files were moved to SUBMISSION_BACKUP_DIR
  \* threads
  handlers,   \* HTTP threads inside submit()
  disp,       \* the dispatcher thread
  workers,    \* build, compile and case threads
  completing, \* threads inside on_submission_complete
  \* inputs and history
  prof,       \* the profile of each id, fixed for the whole run
  requests,   \* requests[s]: number of requests made for s so far
  accepted,   \* attempts answered with 200 by submit()
  saPassed,   \* attempts whose files static analysis accepted
  reports     \* reports[s][a]: results of a that the backend received

files == <<dirs, backups>>
ghost == <<prof, requests, accepted, saPassed, reports>>
vars  == <<queue, ctx, trials, custom, containers, files, handlers, disp,
           workers, completing, ghost>>

-----------------------------------------------------------------------------
(* Jobs (dispatcher/job.py); "http" and "disp" only identify a thread.      *)
JobKinds == {"sa", "net", "build", "compile", "exec"}
Job      == [kind : JobKinds, sid : Sids, case : 0..MaxCases, att : Attempts]

MkJob(k, s, c, a) == [kind |-> k, sid |-> s, case |-> c, att |-> a]

(* What the Dispatcher knows of an id:                                      *)
(*   att, cases, rec   its entry in result: whose it is (0: no entry), the  *)
(*                     registered cases, and for each case the attempt      *)
(*                     whose files its verdict judges (0: still None)       *)
(*   lock              locks, compile_locks and created_at: who set them    *)
(*   expired           whether is_timed_out() would find 300 s passed       *)
(*   plan              build_plans and build_locks: who set them            *)
(*   prebuilt          membership in prebuilt_submissions                   *)
(*   compiled          compile_results                                      *)
(*   pending           pending_tasks                                        *)
Blank == [c \in Cases |-> 0]
NoContext ==
  [att |-> 0, cases |-> {}, rec |-> Blank, lock |-> 0, expired |-> FALSE,
   plan |-> 0, prebuilt |-> FALSE, compiled |-> "none", pending |-> <<>>]

(* Dispatcher.contains: the id has an entry in self.result.                 *)
Contains(s) == ctx[s].att # 0

(* The content of a submission directory: nothing there, the files of an    *)
(* attempt, or none of theirs: the empty tree that _common_dir() makes for  *)
(* a missing one, or the files an earlier process left.                     *)
NoDir    == 0
EmptyDir == MaxRequests + 1
DirVals  == 0..(MaxRequests + 1)

(* _common_dir(): mkdir(parents=True) when the directory is not there.      *)
CommonDir(s) == IF dirs[s] = NoDir THEN EmptyDir ELSE dirs[s]

(* Mutant of AllCases: one case too many.                                   *)
OneCaseMore(s) == 1..(prof[s].cases + 1)

(* make_all_cases_result: every case of the problem gets the failure's      *)
(* verdict, here the label of the attempt the failure is about.             *)
AllCases(s) == 1..prof[s].cases
FailAll(s, att, label) ==
  ctx' = [ctx EXCEPT ![s].att = att, ![s].cases = AllCases(s),
            ![s].rec = [c \in Cases |-> IF c \in AllCases(s) THEN label ELSE 0]]

(* release() up to the call of network_controller.cleanup: every dictionary *)
(* entry of the id but its trial mark; queued jobs stay where they are.     *)
ForgetContext(s) == ctx' = [ctx EXCEPT ![s] = NoContext]

(* Mutant of ForgetCustom: the tables are cleared, not popped.              *)
ForgetAllCustom(s) == custom' = {}

(* The rest of release(): after the Docker calls of network_controller's    *)
(* cleanup, the checker, scorer, artifact and resource tables are popped.   *)
ForgetCustom(s) == custom' = custom \ {s}

(* A thread enters on_submission_complete: it takes the results, which it   *)
(* may just have written, and the trial flag.                               *)
Complete(by, lk) ==
  completing' = completing \cup
    {[by |-> by, lk |-> lk, att |-> ctx'[by.sid].att,
      cases |-> ctx'[by.sid].cases, rec |-> ctx'[by.sid].rec,
      trial |-> by.sid \in trials, pc |-> "put"]}

(* An HTTP thread and the dispatcher thread as the owner of a completion.   *)
HttpThread(h) == MkJob("http", h.sid, 0, h.att)
DispThread(s) == MkJob("disp", s, 0, 1)

-----------------------------------------------------------------------------
WorkerPC == {"start", "busy", "clear", "fail", "run", "lock", "record"}
Worker == [job : Job, pc : WorkerPC, src : DirVals, lk : 0..MaxRequests,
           back : Seq(Job)]
MkWorker(j) == [job |-> j, pc |-> "start", src |-> NoDir, lk |-> 0, back |-> <<>>]

DispPC == {"loop", "check", "sa", "saexc", "net", "put", "report", "dead"}

HandlerPC == {"forget", "wipe", "again", "handle", "check",
              "register", "plan", "enqueue", "unwind"}
Handler == [sid : Sids, att : Attempts, pc : HandlerPC]

(* A new process: nothing in memory, and in SUBMISSION_DIR what an earlier  *)
(* process left there, files that belong to no request of this one.         *)
Init ==
  /\ queue = <<>>
  /\ ctx = [s \in Sids |-> NoContext]
  /\ trials = {} /\ custom = {}
  /\ containers = 0
  /\ dirs \in [Sids -> {NoDir, EmptyDir}]
  /\ backups = {}
  /\ handlers = {} /\ workers = {} /\ completing = {}
  /\ disp = [pc |-> "loop", hand |-> <<>>, fatal |-> FALSE]
  /\ prof \in [Sids -> Profiles]
  /\ requests = [s \in Sids |-> 0]
  /\ accepted = {} /\ saPassed = {}
  /\ reports = [s \in Sids |-> [a \in Attempts |-> 0]]
=============================================================================
