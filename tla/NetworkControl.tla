--------------------------- MODULE NetworkControl ---------------------------
(***************************************************************************)
(* NetworkController as a whole: provision_network, cleanup() in release() *)
(* and after a failure, Docker, and the submissions of the id that come,   *)
(* are judged and go.                                                      *)
(***************************************************************************)
EXTENDS NetworkProvision

(* cleanup(): a thread with the record it works on.                         *)
Cleaner == [by : {"release", "abort"}, pc : {"pop", "disconnect", "stop", "remove", "nets"},
            att : Attempts, res : Record, todo : SUBSET Ids, tries : 0..2]
CleanerOf(by, k, pc, res) ==
  [by |-> by, pc |-> pc, att |-> k, res |-> res, todo |-> {}, tries |-> 2]

Replace(c, d) == cleaners' = (cleaners \ {c}) \cup {d}

(* The except clause of _setup_topology: the ids that the record does not   *)
(* have are forgotten.                                                      *)
BeginAbort ==
  /\ pv.pc = "abort"
  /\ cleaners' = cleaners \cup {CleanerOf("abort", taken, "disconnect", pv.rec)}
  /\ lost' = lost \cup pv.fresh
  /\ Goto("aborting")
  /\ UNCHANGED <<docker, builds, resources, sids, prob, faults, overtaken>>

(* release(): the attempt leaves Dispatcher.result before cleanup() begins. *)
BeginRelease(by) ==
  /\ cleaners' = cleaners \cup {CleanerOf(by, live, "pop", NoRecord)}
  /\ live' = 0

(* Then the exception leaves provision_network.  Whatever attempt the id    *)
(* has now is marked failed and released by the same thread.                *)
FailAttempt ==
  /\ pv.pc = "aborting" /\ \A c \in cleaners : c.by # "abort"
  /\ IF live = 0 THEN pv' = Quiet /\ UNCHANGED <<live, cleaners>>
                 ELSE Goto("failed") /\ BeginRelease("abort")
  /\ overtaken' = (overtaken \/ live \notin {0, taken})
  /\ UNCHANGED <<docker, builds, resources, attempts, taken, prob, faults,
                 lost>>

EndFailure ==
  /\ pv.pc = "failed" /\ \A c \in cleaners : c.by # "abort"
  /\ pv' = Quiet
  /\ UNCHANGED <<docker, builds, resources, sids, cleaners, prob, faults,
                 ghosts>>

(* The cases of an attempt run.                                             *)
Judging == live # 0 /\ live = taken /\ pv.pc = "idle"

(* The thread that records the last case completes the submission; or a     *)
(* thread left over from an earlier attempt marks this one as failed.       *)
Complete ==
  /\ live # 0 /\ BeginRelease("release")
  /\ IF Judging THEN UNCHANGED <<faults, overtaken>>
                ELSE NetFault /\ overtaken' = TRUE
  /\ UNCHANGED <<docker, builds, resources, attempts, taken, pv, prob, lost>>

(* Mutant of TakeRecord: the record is not popped.                          *)
KeepRecord == UNCHANGED resources

TakeRecord == resources' = NoRecord

Pop(c) ==
  /\ c.pc = "pop" /\ TakeRecord
  /\ Replace(c, [c EXCEPT !.res = resources, !.pc = "disconnect"])
  /\ overtaken' = (overtaken \/ resources.of \notin {0, c.att})
  /\ UNCHANGED <<docker, builds, sids, pv, prob, faults, lost>>

(* disconnect_container_from_network, whose errors are ignored; then stop   *)
(* for every container.                                                     *)
Disconnect(c) ==
  /\ c.pc = "disconnect"
  /\ joined' = joined \ (IdsOf(c.res) \X c.res.nets)
  /\ Replace(c, [c EXCEPT !.pc = "stop"])
  /\ UNCHANGED <<boxes, nets, gate, builds, resources, sids, pv, prob, faults,
                 ghosts>>

StopBoxes(c) ==
  /\ c.pc = "stop"
  /\ up' = up \ IdsOf(c.res)
  /\ dead' = dead \cup (IdsOf(c.res) \cap NetLive)
  /\ Replace(c, [c EXCEPT !.todo = IdsOf(c.res), !.pc = "remove"])
  /\ UNCHANGED <<box, nets, joined, gate, builds, resources, sids, pv, prob,
                 faults, ghosts>>

(* Mutant of Doomed: containers are removed by name.                        *)
ByName(id) == {<<id[1], box[id[1]]>>}

Doomed(id) == {id}

RemoveBox(c) ==
  /\ c.pc = "remove"
  /\ \E id \in c.todo :
       /\ Replace(c, [c EXCEPT !.todo = @ \ {id}])
       /\ \/ RemoveBoxes(Doomed(id)) /\ UNCHANGED <<faults, lost>>
          \/ NetFault /\ lost' = lost \cup {id} /\ UNCHANGED <<boxes, joined>>
  /\ UNCHANGED <<nets, gate, builds, resources, sids, pv, prob, overtaken>>

BoxesRemoved(c) ==
  /\ c.pc = "remove" /\ c.todo = {}
  /\ Replace(c, [c EXCEPT !.pc = "nets"])
  /\ UNCHANGED <<docker, builds, resources, sids, pv, prob, faults, ghosts>>

(* Mutant of LastTry: one try too many.                                     *)
NoTryLeft(c) == c.tries < 0

LastTry(c) == c.tries = 0

(* remove_network, up to three times.                                       *)
RemoveNetwork(c) ==
  /\ c.pc = "nets"
  /\ \A n \in c.res.nets \cap nets : ~Active(n)
  /\ nets' = nets \ c.res.nets
  /\ cleaners' = cleaners \ {c}
  /\ UNCHANGED <<boxes, joined, gate, builds, resources, sids, pv, prob, faults,
                 ghosts>>

NetworkStays(c) ==
  /\ c.pc = "nets" /\ c.res.nets # {}
  /\ IF \E n \in c.res.nets \cap nets : Active(n) THEN UNCHANGED faults ELSE NetFault
  /\ IF LastTry(c) THEN cleaners' = cleaners \ {c}
                    ELSE Replace(c, [c EXCEPT !.tries = @ - 1])
  /\ UNCHANGED <<docker, builds, resources, sids, pv, prob, ghosts>>

-----------------------------------------------------------------------------
(* The id is submitted (again): nothing of it is in Dispatcher.result.      *)
Accept ==
  /\ live = 0 /\ attempts < MaxAttempts /\ pv.pc \notin {"startup", "purge"}
  /\ attempts' = attempts + 1 /\ live' = attempts + 1
  /\ UNCHANGED <<docker, builds, resources, taken, pv, cleaners, prob, faults,
                 ghosts>>

(* The dispatcher thread comes to the NetworkSetup job.                     *)
TakeSetup ==
  /\ pv.pc = "idle" /\ live > taken
  /\ taken' = live /\ Goto("list")
  /\ UNCHANGED <<docker, builds, resources, live, attempts, cleaners, prob,
                 faults, ghosts>>

(* Docker: a started container runs, exits or, when it runs, dies.          *)
BoxRuns(id) ==
  /\ Exists(id) /\ id \notin up \cup dead
  /\ \/ up' = up \cup {id} /\ UNCHANGED <<dead, faults>>
     \/ NetFault /\ dead' = dead \cup {id} /\ UNCHANGED up
  /\ UNCHANGED <<box, nets, joined, gate, builds, resources, sids, pv, cleaners,
                 prob, ghosts>>

BoxDies(id) ==
  /\ id \in up /\ NetFault
  /\ up' = up \ {id} /\ dead' = dead \cup {id}
  /\ UNCHANGED <<box, nets, joined, gate, builds, resources, sids, pv, cleaners,
                 prob, ghosts>>

(* The entrypoint of the router: rules first, then dnsmasq.                 *)
RunEntrypoint ==
  /\ \E id \in up : id[1] = Router
  /\ \/ gate = "open"  /\ gate' = "rules"
     \/ gate = "rules" /\ gate' = "serving"
  /\ UNCHANGED <<boxes, nets, joined, builds, resources, sids, pv, cleaners,
                 prob, faults, ghosts>>

(* The course staff changes the dockerfiles.                                *)
UpdateDockerfiles ==
  /\ prob.dockerfile /\ dockerfiles < MaxVersion
  /\ dockerfiles' = dockerfiles + 1
  /\ UNCHANGED <<docker, image, resources, sids, pv, cleaners, prob, faults,
                 ghosts>>

(* The process dies and starts again, with a clean-up of all there is.      *)
Restart ==
  /\ NetFault
  /\ resources' = NoRecord /\ live' = 0 /\ taken' = attempts /\ cleaners' = {}
  /\ pv' = [Quiet EXCEPT !.pc = "startup"]
  /\ UNCHANGED <<docker, builds, attempts, prob, ghosts>>

Provision ==
  \/ ListStale \/ RemoveStale \/ RemoveStaleNets
  \/ ReadConfig \/ FindDockerfiles \/ BuildImage \/ ImagesBuilt
  \/ DecideTopology \/ CreateNetwork
  \/ StartHost \/ CannotStartHost \/ HostCreatedOnly \/ HostsStarted
  \/ WaitFor \/ WaitTimesOut \/ CollectAddresses
  \/ StartRouter \/ CannotStartRouter \/ ConnectRouter \/ Settle \/ AllRunning
  \/ Publish \/ BeginAbort \/ FailAttempt \/ EndFailure \/ TakeSetup

CleanUp(c) ==
  \/ Pop(c) \/ Disconnect(c) \/ StopBoxes(c) \/ RemoveBox(c) \/ BoxesRemoved(c)
  \/ RemoveNetwork(c) \/ NetworkStays(c)

CleanUps == \E c \in cleaners : CleanUp(c)

Containers == RunEntrypoint \/ \E id \in Ids : BoxRuns(id)

NetIdle == live = 0 /\ pv.pc = "idle" /\ cleaners = {} /\ UNCHANGED nvars

Next ==
  \/ Provision \/ CleanUps \/ Containers
  \/ Accept \/ Complete \/ UpdateDockerfiles \/ Restart \/ NetIdle
  \/ \E id \in Ids : BoxDies(id)

(* The threads run and Docker starts what it was asked to start.  When the  *)
(* cases of an attempt end is left open.                                    *)
Fairness == WF_nvars(Provision) /\ WF_nvars(CleanUps) /\ WF_nvars(Containers)

Spec == Init /\ [][Next]_nvars /\ Fairness

-----------------------------------------------------------------------------
ProvisionPC ==
  {"idle", "startup", "purge", "list", "stale", "config", "checksum", "extract",
   "build", "topology", "network", "start", "waithosts", "router", "connect",
   "settle", "wait", "publish", "abort", "aborting", "failed"}

TypeOK ==
  /\ box \in [Names -> 0..MaxAttempts]
  /\ up \subseteq Ids /\ dead \subseteq Ids /\ nets \subseteq Attempts
  /\ joined \subseteq Ids \X Attempts
  /\ gate \in {"none", "open", "rules", "serving"}
  /\ image \in [Envs -> [label : 0..MaxVersion, content : 0..MaxVersion]]
  /\ dockerfiles \in Versions
  /\ resources \in Record
  /\ {live, attempts, taken} \subseteq 0..MaxAttempts
  /\ DOMAIN pv = DOMAIN Quiet /\ pv.pc \in ProvisionPC
  /\ pv.rec \in Record /\ pv.seen \cup pv.fresh \subseteq Ids
  /\ cleaners \subseteq Cleaner
  /\ faults \in 0..prob.faults /\ lost \subseteq Ids \cup {NetId(n) : n \in Attempts}

(* While the cases of an attempt run, their network is the one that was set *)
(* up for them, with all its containers: no clean-up of another attempt or  *)
(* by name touches it, unless a release came at the wrong time.             *)
OwnNetwork ==
  (Judging /\ ~overtaken) =>
    /\ resources.of = live
    /\ IdsOf(resources) \subseteq NetLive /\ resources.nets \subseteq nets

(* When the id is released and everybody is done, no container is left but  *)
(* those whose id never reached the record or that Docker would not remove, *)
(* and no network unless there is such a container.                         *)
NothingLeft ==
  (live = 0 /\ pv.pc = "idle" /\ cleaners = {} /\ ~overtaken) =>
    NetLive \subseteq lost /\ (nets # {} => lost # {})

(* What an earlier attempt left behind, however it ended, is gone before    *)
(* the next one starts anything, so that its names are free; except custom  *)
(* environments, which the clean-up by name never finds.                    *)
RetryFindsRoom ==
  (pv.pc \in {"config", "checksum", "extract", "build", "topology", "network"}
     /\ ~pv.missed) => \A id \in NetLive : IsEnv(id[1])

(* The cases of an attempt are released only after every container of its   *)
(* network was seen running: one that has crashed makes provisioning fail,  *)
(* although the error raised for it is swallowed.                           *)
ReadyBeforeCases == pv.pc = "publish" => IdsOf(pv.rec) \subseteq pv.seen

RouterConf == [model |-> pv.cfg.external, names |-> pv.names, ips |-> pv.ips]

(* The router resolves the name of each internal host to the address of     *)
(* that host, although names and addresses reach it in two lists made at    *)
(* different times; unless an address was not to be had.                    *)
NamesResolve ==
  (pv.rec.router # {} /\ pv.rec.nets # {} /\ ~pv.missed) =>
    HostRecords(RouterConf) = {<<n, n>> : n \in ToSet(Hosts)}

(* The rules of the router do what the configuration says, for teacher and  *)
(* student alike, for new and for established connections, whatever is      *)
(* asked for by name or by address.                                         *)
PolicyEnforced ==
  (pv.pc = "publish" /\ pv.rec.router # {}) => EnforcesPolicy(RouterConf)

(* A custom environment runs an image made of dockerfiles that are no older *)
(* than what the backend had when the attempt was provisioned.              *)
ImageCurrent == \A e \in pv.built : image[e].content >= pv.label

(* Every attempt gets as far as its cases, or is released.                  *)
AttemptProceeds == \A k \in Attempts : live = k ~> (Judging \/ live # k)
=============================================================================
