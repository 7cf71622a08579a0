-------------------------- MODULE NetworkProvision --------------------------
(***************************************************************************)
(* provision_network (dispatcher/network_control.py) in the dispatcher     *)
(* thread: stale resources are removed, the problem's network is read from *)
(* its meta, custom images are built, and the containers of the topology   *)
(* are started, waited for and recorded.                                   *)
(***************************************************************************)
EXTENDS NetworkState

(* Mutant of StaleName: the sidecars are not looked for.                    *)
StaleRouter(n) == pv.pc = "startup" \/ n = Router

(* The patterns: every name that NOJ gives when the process starts, those   *)
(* of the id before it is provisioned.  The pattern "custom-*-<id>" has a   *)
(* literal asterisk and matches no name.                                    *)
StaleName(n) == pv.pc = "startup" \/ ~IsEnv(n)

(* cleanup_stale_resources: the containers are listed first, which may fail.*)
ListStale ==
  /\ pv.pc \in {"startup", "list"}
  /\ \/ /\ pv' = [pv EXCEPT !.todo = {id \in NetLive : StaleName(id[1])},
                            !.pc = IF @ = "startup" THEN "purge" ELSE "stale"]
        /\ UNCHANGED <<faults, lost>>
     \/ /\ NetFault
        /\ pv' = [pv EXCEPT !.missed = TRUE,
                            !.pc = IF @ = "startup" THEN "purge" ELSE "stale"]
        /\ lost' = IF pv.pc = "startup" THEN NetLive ELSE lost
  /\ UNCHANGED <<docker, builds, resources, sids, cleaners, prob, overtaken>>

RemoveStale ==
  /\ pv.pc \in {"purge", "stale"}
  /\ \E id \in pv.todo :
       \/ /\ RemoveBoxes({id}) /\ UNCHANGED <<faults, lost>>
          /\ pv' = [pv EXCEPT !.todo = @ \ {id}]
       \/ /\ NetFault /\ UNCHANGED <<boxes, joined>>
          /\ lost' = lost \cup {id}
          /\ pv' = [pv EXCEPT !.todo = @ \ {id}, !.missed = TRUE]
  /\ UNCHANGED <<nets, gate, builds, resources, sids, cleaners, prob,
                 overtaken>>

(* Then the networks, those in use excepted.                                *)
RemoveStaleNets ==
  /\ pv.pc \in {"purge", "stale"} /\ pv.todo = {}
  /\ \/ nets' = {n \in nets : Active(n)} /\ UNCHANGED <<faults, lost>>
     \/ NetFault /\ lost' = lost \cup {NetId(n) : n \in nets} /\ UNCHANGED nets
  /\ pv' = IF pv.pc = "purge" THEN Quiet ELSE [pv EXCEPT !.pc = "config"]
  /\ UNCHANGED <<boxes, joined, gate, builds, resources, sids, cleaners, prob,
                 overtaken>>

-----------------------------------------------------------------------------
(* fetch_problem_network_config: the old schema has no sidecars, and what   *)
(* cannot be read counts as no restriction record at all.                   *)
Translate(p) ==
  CASE p.schema = "new"    -> [external |-> p.external, rules |-> p.rules,
                               sidecars |-> p.sidecars, custom |-> p.dockerfile]
    [] p.schema = "legacy" -> [external |-> p.external, rules |-> p.rules,
                               sidecars |-> <<>>, custom |-> p.dockerfile]
    [] p.schema = "none"   -> [NoConfig EXCEPT !.custom = p.dockerfile]

ReadConfig ==
  /\ pv.pc = "config"
  /\ \/ /\ pv' = [pv EXCEPT !.cfg = Translate(prob),
                            !.pc = IF prob.dockerfile THEN "checksum" ELSE "topology"]
        /\ UNCHANGED faults
     \/ NetFault /\ pv' = [pv EXCEPT !.pc = "topology"]
  /\ UNCHANGED <<docker, builds, resources, sids, cleaners, prob, ghosts>>

(* _ensure_docker_image.  Without a checksum, or without the extracted      *)
(* dockerfiles, there are no custom environments.                           *)
TakeChecksum ==
  /\ pv.pc = "checksum"
  /\ pv' = [pv EXCEPT !.label = dockerfiles, !.pc = "extract"]

TakeFiles ==
  /\ pv.pc = "extract"
  /\ pv' = [pv EXCEPT !.content = dockerfiles, !.todo = prob.envs, !.pc = "build"]

FindDockerfiles ==
  /\ \/ (TakeChecksum \/ TakeFiles) /\ UNCHANGED faults
     \/ pv.pc \in {"checksum", "extract"} /\ NetFault /\ Goto("topology")
  /\ UNCHANGED <<docker, builds, resources, sids, cleaners, prob, ghosts>>

(* Mutant of UpToDate: any image of that tag will do.                       *)
AnyImage(e) == image[e].label # 0

UpToDate(e) == image[e].label = pv.label

(* _build_one_image: an image whose label is the checksum is up to date.    *)
(* Otherwise it is built in a process of its own, which is given up after   *)
(* DOCKER_BUILD_TIMEOUT; an image that cannot be built is left out.         *)
BuildImage ==
  /\ pv.pc = "build"
  /\ \E e \in pv.todo :
       \/ /\ pv' = [pv EXCEPT !.todo = @ \ {e}, !.built = @ \cup {e}]
          /\ image' = IF UpToDate(e) THEN image
                      ELSE [image EXCEPT ![e] = [label |-> pv.label, content |-> pv.content]]
          /\ UNCHANGED faults
       \/ /\ ~UpToDate(e) /\ NetFault
          /\ pv' = [pv EXCEPT !.todo = @ \ {e}]
          /\ UNCHANGED image
  /\ UNCHANGED <<docker, dockerfiles, resources, sids, cleaners, prob, ghosts>>

ImagesBuilt ==
  /\ pv.pc = "build" /\ pv.todo = {}
  /\ Goto("topology")
  /\ UNCHANGED <<docker, builds, resources, sids, cleaners, prob, faults,
                 ghosts>>

-----------------------------------------------------------------------------
(* _setup_topology.  A white list without rules needs no router: the cases  *)
(* have no network at all.                                                  *)
NeedRouter   == pv.cfg.external # "none" /\ (pv.cfg.rules \/ pv.cfg.external = "black")
NeedInternal == pv.cfg.sidecars # <<>> \/ pv.built # {}
Mixed        == NeedRouter /\ NeedInternal

(* The internal hosts in the order in which they are started; that of the   *)
(* custom environments is the order of their directory, some order.         *)
SideHosts == [i \in 1..Len(pv.cfg.sidecars) |-> Side(i)]
EnvHosts  == SetToSeq({Env(e) : e \in pv.built})
Hosts     == SideHosts \o EnvHosts

(* Their names in that order, taken from the two configurations.  Mutant:   *)
(* the custom environments come first.                                      *)
EnvsFirst == EnvHosts \o SideHosts
HostNames == SideHosts \o EnvHosts

Me(n) == <<n, pv.rec.of>>
MyIds == {Me(n) : n \in ToSet(Hosts)}

(* The hosts whose containers are among ids, in the same order.             *)
HostsAmong(ids) ==
  LET at == {i \in DOMAIN Hosts : Me(Hosts[i]) \in ids}
      Nth(k) == CHOOSE i \in at : Cardinality({j \in at : j < i}) = k - 1
  IN [k \in 1..Cardinality(at) |-> Hosts[Nth(k)]]

(* remove_network by name fails quietly, and so it does if the name is not  *)
(* unique.                                                                  *)
DecideTopology ==
  /\ pv.pc = "topology"
  /\ pv' = [pv EXCEPT !.rec = [NoRecord EXCEPT !.of = taken], !.order = Hosts,
                      !.pc = IF NeedInternal THEN "network"
                             ELSE IF NeedRouter THEN "router" ELSE "publish"]
  /\ nets' = IF (NeedRouter \/ NeedInternal) /\ Cardinality(nets) = 1
             THEN {n \in nets : Active(n)} ELSE nets
  /\ UNCHANGED <<boxes, joined, gate, builds, resources, sids, cleaners, prob,
                 faults, ghosts>>

CreateNetwork ==
  /\ pv.pc = "network"
  /\ \/ /\ nets' = nets \cup {pv.rec.of}
        /\ pv' = [pv EXCEPT !.rec.nets = {pv.rec.of}, !.pc = "start"]
        /\ UNCHANGED faults
     \/ NetFault /\ Abort /\ UNCHANGED nets
  /\ UNCHANGED <<boxes, joined, gate, builds, resources, sids, cleaners, prob,
                 ghosts>>

(* _validate_image_registry: a host of its own only counts with two parts,  *)
(* with three any first part is the registry.                               *)
Registry(img) ==
  CASE img.parts = 1 -> "docker.io"
    [] img.parts = 2 -> IF img.first = "word" THEN "docker.io" ELSE img.first
    [] img.parts = 3 -> img.first
Permitted(n) ==
  \/ IsEnv(n) \/ Registries = {}
  \/ Registry(pv.cfg.sidecars[n[2]]) \in Registries

(* The helpers _start_sidecars and _start_custom_envs give their ids to the *)
(* record when all of them run; beside a router, when both have returned.   *)
Recorded(n, rest) ==
  rest = <<>> \/ (~NeedRouter /\ ~IsEnv(n) /\ IsEnv(Head(rest)))

StartHost ==
  LET n == Head(pv.order)
      rest == Tail(pv.order)
      fresh == pv.fresh \cup {Me(n)}
  IN /\ pv.pc = "start" /\ pv.order # <<>>
     /\ Permitted(n) /\ box[n] = 0 /\ Cardinality(nets) = 1
     /\ box' = [box EXCEPT ![n] = pv.rec.of]
     /\ joined' = joined \cup {<<Me(n), pv.rec.of>>}
     /\ pv' = IF Recorded(n, rest)
              THEN [pv EXCEPT !.order = rest, !.fresh = {}, !.rec.boxes = @ \cup fresh]
              ELSE [pv EXCEPT !.order = rest, !.fresh = fresh]
     /\ UNCHANGED <<up, dead, nets, gate, builds, resources, sids, cleaners,
                    prob, faults, ghosts>>

(* The image is not permitted or cannot be pulled, the name is taken, or    *)
(* the network's name is not unique.                                        *)
CannotStartHost ==
  /\ pv.pc = "start" /\ pv.order # <<>>
  /\ LET n == Head(pv.order)
     IN IF Permitted(n) /\ box[n] = 0 /\ Cardinality(nets) = 1
        THEN NetFault ELSE UNCHANGED faults
  /\ Abort
  /\ UNCHANGED <<docker, builds, resources, sids, cleaners, prob, ghosts>>

(* The container is created, but does not start.                            *)
HostCreatedOnly ==
  /\ pv.pc = "start" /\ pv.order # <<>>
  /\ LET n == Head(pv.order)
     IN /\ Permitted(n) /\ box[n] = 0 /\ NetFault
        /\ box' = [box EXCEPT ![n] = pv.rec.of]
        /\ dead' = dead \cup {Me(n)}
        /\ pv' = [pv EXCEPT !.fresh = @ \cup {Me(n)}, !.pc = "abort"]
  /\ UNCHANGED <<up, nets, joined, gate, builds, resources, sids, cleaners,
                 prob, ghosts>>

(* Beside a router the internal hosts are waited for first.                 *)
HostsStarted ==
  /\ pv.pc = "start" /\ pv.order = <<>>
  /\ pv' = [pv EXCEPT !.todo = MyIds, !.rec.mode = IF NeedRouter THEN @ ELSE "net",
                      !.pc = IF NeedRouter THEN "waithosts" ELSE "wait"]
  /\ UNCHANGED <<docker, builds, resources, sids, cleaners, prob, faults,
                 ghosts>>

-----------------------------------------------------------------------------
(* Mutant of Pending: a container that has exited is not waited for.        *)
Slow(id) == Exists(id) /\ id \notin up \cup dead

(* _wait_for_containers_running: neither running nor gone.  The error       *)
(* raised for a crashed container is swallowed right there.                 *)
Pending(id) == Exists(id) /\ id \notin up

WaitFor ==
  /\ pv.pc \in {"waithosts", "wait"}
  /\ \E id \in pv.todo :
       /\ ~Pending(id)
       /\ pv' = [pv EXCEPT !.todo = @ \ {id},
                           !.seen = IF id \in up THEN @ \cup {id} ELSE @]
  /\ UNCHANGED <<docker, builds, resources, sids, cleaners, prob, faults,
                 ghosts>>

(* Mutant of WaitTimesOut: the time is taken anew in every round.           *)
WaitRestarts ==
  /\ pv.pc \in {"waithosts", "wait"}
  /\ \E id \in pv.todo : Pending(id)
  /\ UNCHANGED nvars

(* After 30 s a crashed container makes provisioning fail; one that merely  *)
(* takes longer is a fault.                                                 *)
WaitTimesOut ==
  /\ pv.pc \in {"waithosts", "wait"}
  /\ \E id \in pv.todo :
       Pending(id) /\ IF id \in dead THEN UNCHANGED faults ELSE NetFault
  /\ Abort
  /\ UNCHANGED <<docker, builds, resources, sids, cleaners, prob, ghosts>>

(* Names and addresses for the router, in the same order: the addresses of  *)
(* the containers that run now and can be inspected.                        *)
CollectAddresses ==
  /\ pv.pc = "waithosts" /\ pv.todo = {}
  /\ \/ /\ pv' = [pv EXCEPT !.names = HostNames, !.ips = HostsAmong(up),
                            !.missed = @ \/ ~(MyIds \subseteq up), !.pc = "router"]
        /\ UNCHANGED faults
     \/ /\ NetFault
        /\ \E id \in MyIds :
             pv' = [pv EXCEPT !.names = HostNames, !.ips = HostsAmong(up \ {id}),
                              !.missed = TRUE, !.pc = "router"]
  /\ UNCHANGED <<docker, builds, resources, sids, cleaners, prob, ghosts>>

(* _start_router, with the configuration copied into the created container. *)
StartRouter ==
  /\ pv.pc = "router" /\ box[Router] = 0
  /\ box' = [box EXCEPT ![Router] = pv.rec.of]
  /\ gate' = "open"
  /\ pv' = IF NeedInternal THEN [pv EXCEPT !.fresh = {Me(Router)}, !.pc = "connect"]
           ELSE [pv EXCEPT !.rec.router = {Me(Router)}, !.rec.mode = "router",
                           !.todo = {Me(Router)}, !.pc = "settle"]
  /\ UNCHANGED <<up, dead, nets, joined, builds, resources, sids, cleaners,
                 prob, faults, ghosts>>

(* The name is taken, or the container cannot be created, given its         *)
(* configuration, or started.                                               *)
CannotStartRouter ==
  /\ pv.pc = "router"
  /\ \/ /\ IF box[Router] = 0 THEN NetFault ELSE UNCHANGED faults
        /\ Abort /\ UNCHANGED <<box, dead>>
     \/ /\ box[Router] = 0 /\ NetFault
        /\ box' = [box EXCEPT ![Router] = pv.rec.of]
        /\ dead' = dead \cup {Me(Router)}
        /\ pv' = [pv EXCEPT !.fresh = {Me(Router)}, !.pc = "abort"]
  /\ UNCHANGED <<up, nets, joined, gate, builds, resources, sids, cleaners,
                 prob, ghosts>>

(* Only a router that could be connected is recorded.                       *)
ConnectRouter ==
  /\ pv.pc = "connect"
  /\ \/ /\ pv.rec.nets \subseteq nets
        /\ joined' = joined \cup ({Me(Router)} \X pv.rec.nets)
        /\ pv' = [pv EXCEPT !.fresh = {}, !.rec.router = {Me(Router)}, !.rec.mode = "router",
                            !.todo = {Me(Router)}, !.pc = "settle"]
        /\ UNCHANGED faults
     \/ NetFault /\ Abort /\ UNCHANGED joined
  /\ UNCHANGED <<boxes, nets, gate, builds, resources, sids, cleaners, prob,
                 ghosts>>

(* time.sleep(20), for the router's entrypoint: the model takes it to be    *)
(* long enough.                                                             *)
Settle ==
  /\ pv.pc = "settle"
  /\ gate = "serving" \/ Me(Router) \in dead \/ ~Exists(Me(Router))
  /\ Goto("wait")
  /\ UNCHANGED <<docker, builds, resources, sids, cleaners, prob, faults,
                 ghosts>>

AllRunning ==
  /\ pv.pc = "wait" /\ pv.todo = {}
  /\ Goto("publish")
  /\ UNCHANGED <<docker, builds, resources, sids, cleaners, prob, faults,
                 ghosts>>

(* The record is stored under the id, in place of one that an overdue       *)
(* release should have taken; the cases are put into the queue.             *)
Publish ==
  /\ pv.pc = "publish"
  /\ resources' = pv.rec
  /\ overtaken' = (overtaken \/ resources # NoRecord)
  /\ pv' = Quiet
  /\ UNCHANGED <<docker, builds, sids, cleaners, prob, faults, lost>>
=============================================================================
