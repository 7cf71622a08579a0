---------------------------- MODULE NetworkState ----------------------------
(***************************************************************************)
(* NetworkController (dispatcher/network_control.py) for one submission id *)
(* that is submitted again and again.  The dispatcher thread provisions    *)
(* the containers and the network an attempt is judged in, one attempt at  *)
(* a time; release() of an earlier attempt cleans up in a thread of its    *)
(* own.  Docker keeps containers and networks, whatever becomes of the     *)
(* process.  Names of different submission ids never match each other (the *)
(* ids have one length).                                                   *)
(*                                                                         *)
(* A container's id is <<name, attempt>>, a name is <<kind, number>>; a    *)
(* network's id is the attempt that created it, its name is the same for   *)
(* all of them.                                                            *)
(***************************************************************************)
EXTENDS RouterFirewall, FiniteSets

CONSTANTS
  MaxAttempts,  \* bound: attempts of the submission
  MaxVersion,   \* bound: versions of the problem's dockerfiles
  MaxEnvs,      \* bound: dockerfiles in the archive
  MaxSidecars,  \* bound: sidecars of a problem
  Registries,   \* config.ALLOWED_REGISTRIES
  Problems      \* the problems explored

(* An image reference: how many parts the slashes make of it, and its       *)
(* first part, a host if it has a dot, a colon or is "localhost".           *)
Image == [parts : 1..3, first : {"word", "docker.io", "host"}]

(* The network part of META_DIR/pid.json, the dockerfiles that env_list     *)
(* names, and a bound: calls of Docker or the backend that fail.            *)
Problem == [schema : {"new", "legacy", "none"}, external : {"none", "white", "black"},
            rules : BOOLEAN, sidecars : Seq(Image), dockerfile : BOOLEAN,
            envs : SUBSET (1..MaxEnvs), faults : Nat]

ASSUME NetworkAssumption ==
  /\ {MaxAttempts, MaxVersion} \subseteq Nat \ {0}
  /\ {MaxEnvs, MaxSidecars} \subseteq Nat
  /\ \A p \in Problems : p \in Problem /\ Len(p.sidecars) <= MaxSidecars

Attempts == 1..MaxAttempts
Versions == 1..MaxVersion
Envs     == 1..MaxEnvs

Router   == <<"router", 0>>
Side(i)  == <<"side", i>>
Env(e)   == <<"custom", e>>
IsEnv(n) == n[1] = "custom"
Names == {Router} \cup {Side(i) : i \in 1..MaxSidecars} \cup {Env(e) : e \in Envs}
Ids   == Names \X Attempts
NetId(n) == <<<<"network", 0>>, n>>

VARIABLES
  box,        \* box[n]: the attempt whose container has the name n, 0: none
  up,         \* the containers that run
  dead,       \* those that have exited, or never started
  nets,       \* the networks named noj-net-<id>
  joined,     \* the endpoints: containers and the network they are on
  gate,       \* how far the entrypoint of the router is
  image,      \* image[e]: the label of the image of e, and what it was built from
  dockerfiles, \* the version of the problem's dockerfiles at the backend
  resources,  \* NetworkController.resources[id], or NoRecord
  live,       \* the attempt that is registered in Dispatcher.result, 0: none
  attempts,   \* number of attempts so far
  taken,      \* the attempt whose network job was taken last
  pv,         \* provision_network in the dispatcher thread
  cleaners,   \* the threads in cleanup()
  prob,       \* the problem, fixed for the whole run
  faults,     \* number of faults so far
  lost,       \* history: what nobody has on record any more
  overtaken   \* history: an attempt's network was cleaned up, or the attempt
              \* released, before its time

boxes  == <<box, up, dead>>
docker == <<boxes, nets, joined, gate>>
builds == <<image, dockerfiles>>
sids   == <<live, attempts, taken>>
ghosts == <<lost, overtaken>>
nvars  == <<docker, builds, resources, sids, pv, cleaners, prob, faults, ghosts>>

(* resource_record: networks, containers, the router's id as a set of at    *)
(* most one, and the network mode of the cases.                             *)
Record == [of : 0..MaxAttempts, nets : SUBSET Attempts, boxes : SUBSET Ids,
           router : SUBSET Ids, mode : {"none", "net", "router"}]
NoRecord  == [of |-> 0, nets |-> {}, boxes |-> {}, router |-> {}, mode |-> "none"]

(* Mutant of IdsOf: the router is forgotten.                                *)
BoxesOf(r) == r.boxes
IdsOf(r)   == r.boxes \cup r.router

Config == [external : {"none", "white", "black"}, rules : BOOLEAN,
           sidecars : Seq(Image), custom : BOOLEAN]
NoConfig == [external |-> "none", rules |-> FALSE, sidecars |-> <<>>, custom |-> FALSE]

(* Where provisioning is, and its local variables: what it still has to     *)
(* remove, build, start or wait for; the images built; the containers       *)
(* started whose ids the record does not have yet; names and addresses for  *)
(* the router; label and content of the dockerfiles.  seen and missed are   *)
(* history: the containers found running, and whether an address was not    *)
(* to be had.                                                               *)
Quiet == [pc |-> "idle", cfg |-> NoConfig, built |-> {}, order |-> <<>>,
          todo |-> {}, fresh |-> {}, rec |-> NoRecord, label |-> 0, content |-> 0,
          names |-> <<>>, ips |-> <<>>, seen |-> {}, missed |-> FALSE]

Goto(pc) == pv' = [pv EXCEPT !.pc = pc]
Abort    == Goto("abort")
NetFault == faults < prob.faults /\ faults' = faults + 1

(* A network with an endpoint of a running container cannot be removed.     *)
Active(n) == \E id \in up : <<id, n>> \in joined
Exists(id) == box[id[1]] = id[2]
NetLive == {id \in Ids : Exists(id)}

(* stop and remove_container(force=True) of the containers of a set.        *)
RemoveBoxes(ids) ==
  /\ box' = [n \in Names |-> IF <<n, box[n]>> \in ids THEN 0 ELSE box[n]]
  /\ up' = up \ ids /\ dead' = dead \ ids
  /\ joined' = {e \in joined : e[1] \notin ids}

Init ==
  /\ box = [n \in Names |-> 0] /\ up = {} /\ dead = {} /\ nets = {} /\ joined = {}
  /\ gate = "none"
  /\ image = [e \in Envs |-> [label |-> 0, content |-> 0]]
  /\ dockerfiles = 1 /\ resources = NoRecord /\ live = 0 /\ attempts = 0 /\ taken = 0
  /\ pv = Quiet /\ cleaners = {} /\ prob \in Problems /\ faults = 0
  /\ lost = {} /\ overtaken = FALSE
=============================================================================
