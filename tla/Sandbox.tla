------------------------------- MODULE Sandbox -------------------------------
(***************************************************************************)
(* The judge service: HTTP threads, the dispatcher thread, the build,      *)
(* compile and case threads and the completion of submissions, working on  *)
(* one Dispatcher object.                                                  *)
(***************************************************************************)
EXTENDS DispatchLoop, Integers, Functions

HandlersStep    == \E h \in handlers : HandlerStep(h)
WorkersStep     == \E w \in workers : WorkerStep(w)
CompletionsStep == \E c \in completing : CompletionStep(c)

Request == \E s \in Sids : CreateDir(s) \/ FindLeftover(s)
Clock   == \E s \in Sids : Expire(s)

(* Nothing is left to do, or nobody is left to do it: the service waits for *)
(* requests.                                                                *)
Idle ==
  /\ handlers = {} /\ workers = {} /\ completing = {}
  /\ (queue = <<>> /\ disp.pc = "loop") \/ disp.pc = "dead"
  /\ UNCHANGED vars

Next ==
  Request \/ Clock \/ HandlersStep \/ DispatcherStep \/ WorkersStep
    \/ CompletionsStep \/ Idle

Spec == Init /\ [][Next]_vars

(* The operating system runs every thread.  Worker, HTTP and completing     *)
(* threads take finitely many steps each, so that fairness to each of these *)
(* groups is enough.  Requests and the clock owe nothing.                   *)
Fairness ==
  /\ WF_vars(HandlersStep)
  /\ WF_vars(DispatcherStep)
  /\ WF_vars(WorkersStep)
  /\ WF_vars(CompletionsStep)

FairSpec == Spec /\ Fairness

-----------------------------------------------------------------------------
(* The type of every variable.                                              *)
Context == [att : 0..MaxRequests, cases : SUBSET Cases, rec : [Cases -> DirVals],
            lock : 0..MaxRequests, expired : BOOLEAN, plan : 0..MaxRequests,
            prebuilt : BOOLEAN, compiled : {"none", "AC", "CE"},
            pending : Seq(Job)]

TypeOK ==
  /\ prof \in [Sids -> Profiles]
  /\ queue \in Seq(Job)
  /\ ctx \in [Sids -> Context]
  /\ trials \subseteq Sids /\ custom \subseteq Sids
  /\ containers \in Int
  /\ dirs \in [Sids -> DirVals]
  /\ backups \subseteq (Sids \X DirVals)
  /\ handlers \subseteq Handler
  /\ disp \in [pc : DispPC, hand : Seq(Job), fatal : BOOLEAN]
  /\ workers \subseteq Worker
  /\ completing \subseteq Completion
  /\ requests \in [Sids -> 0..MaxRequests]
  /\ accepted \subseteq (Sids \X Attempts)
  /\ saPassed \subseteq (Sids \X DirVals)
  /\ reports \in [Sids -> [Attempts -> 0..2]]

-----------------------------------------------------------------------------
(* container_count is the number of cases whose container runs: no path     *)
(* through create_container, an exception of the runner included, leaves it *)
(* too high (the dispatcher would stop taking jobs) or too low.             *)
ContainersExact ==
  containers = Cardinality({w \in workers : Is(w, "exec", "run")})

(* No compiler, make or case thread ever works for a submission id of which *)
(* static analysis has accepted nothing: build, compile and exec jobs leave *)
(* pending_tasks only after the analysis of that id.                        *)
NeverUnscreened ==
  \A w \in workers : \E f \in DirVals : <<w.job.sid, f>> \in saPassed

(* Student files reach the compiler, make or a case container only after    *)
(* static analysis has accepted these very files.                           *)
ScreenedBeforeRun ==
  \A w \in workers :
    w.src \in Attempts => <<w.job.sid, w.src>> \in saPassed

(* What is reported for an attempt is complete and its own: every case has  *)
(* a verdict, and every verdict judges the files of that attempt.           *)
ReportsOwnVerdicts ==
  \A c \in completing :
    /\ c.cases = AllCases(c.by.sid)
    /\ \A n \in c.cases : c.rec[n] = c.att

(* on_submission_complete runs at most once for an attempt: the backend     *)
(* never gets a second, possibly different, result.                         *)
ReportedOnce ==
  \A s \in Sids, a \in Attempts :
    reports[s][a] + Cardinality({c \in completing :
                       c.by.sid = s /\ c.att = a /\ c.pc = "put"}) <= 1

(* When an attempt is released without an exception, the backend has its    *)
(* result or the backup has its files, not those of a later attempt that    *)
(* came into its directory.                                                 *)
NothingLost ==
  \A c \in completing :
    c.pc \in {"drop", "cleanup"} =>
      reports[c.by.sid][c.att] > 0 \/ <<c.by.sid, c.att>> \in backups

(* A case that is about to run finds the outcome of the compile or make     *)
(* step of its submission: no case is judged CE because the result is not   *)
(* there yet, and none runs a program that was not built.                   *)
CaseFindsProgram ==
  \A w \in workers :
    Is(w, "exec", "busy") => ctx[w.job.sid].prebuilt \/ ctx[w.job.sid].compiled # "none"

(* Jobs somewhere between the pending list and a running thread.            *)
InFlight ==
  UNION ({Range(queue), Range(disp.hand)}
           \cup {Range(ctx[s].pending) : s \in Sids}
           \cup {{w.job} \cup Range(w.back) : w \in workers})

(* Every case of an accepted attempt that has no verdict yet is still on    *)
(* its way, in one of the queue, the dispatcher's hand, the pending list, a *)
(* thread, or a thread that is putting other submissions' jobs back; or its *)
(* submission is being marked failed, or the dispatcher died.               *)
NoCaseLost ==
  \A s \in Sids : \A n \in ctx[s].cases :
    ctx[s].rec[n] = 0 =>
      \/ \E j \in InFlight : j.sid = s /\ j.kind = "exec" /\ j.case = n
      \/ \E w \in workers : w.job.sid = s /\ Is(w, "build", "fail")
      \/ disp.pc = "dead"

(* A job is in one place at a time, whatever requeues it, puts it back or   *)
(* releases it: no case, compile or make is started twice for one request.  *)
NoJobTwice ==
  LET line == queue \o disp.hand
  IN /\ \A s \in Sids : IsInjective(line \o ctx[s].pending)
     /\ \A w \in workers : IsInjective(line \o w.back \o <<w.job>>)

(* The files of an accepted attempt leave its directory only after the      *)
(* backend got its result, or into the backup: no request for the same id   *)
(* wipes the directory under a submission that is being judged.             *)
FilesKept ==
  [][\A s \in Sids :
       (<<s, dirs[s]>> \in accepted /\ dirs'[s] # dirs[s])
          => reports[s][dirs[s]] > 0 \/ <<s, dirs[s]>> \in backups']_dirs

(* The result goes to the endpoint of its kind of submission.               *)
EndpointMatches ==
  \A c \in completing : c.pc = "put" => c.trial = prof[c.by.sid].trial

(* A registered attempt keeps the checker and scorer handle() prepared.     *)
CustomKept ==
  \A s \in Sids : Contains(s) /\ prof[s].custom => s \in custom

(* The dispatcher thread survives.                                          *)
DispatcherAlive == disp.pc # "dead"

(* The only thread that takes jobs never waits to put one while nobody else *)
(* can make room.                                                           *)
NoSelfBlock ==
  ~(/\ disp.pc = "put" /\ Len(queue) = QueueSize
    /\ \A w \in workers : w.job.kind # "build")

(* No more case containers than MAX_CONTAINER_SIZE.                         *)
ContainerLimit == containers <= MaxContainers

(* Every accepted submission is reported, or its files are kept, unless the *)
(* dispatcher thread died.                                                  *)
AcceptedResolved ==
  \A s \in Sids, a \in Attempts :
    <<s, a>> \in accepted
      ~> (reports[s][a] > 0 \/ <<s, a>> \in backups \/ disp.pc = "dead")
=============================================================================
