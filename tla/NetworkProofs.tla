---------------------------- MODULE NetworkProofs ----------------------------
(***************************************************************************)
(* Theorems about the network controller: the types, that a retry finds    *)
(* its names free, that cases run in their own network and not before all  *)
(* its containers did, that custom environments are not outdated, that     *)
(* nothing is left of an attempt, and that packets obey the policy.        *)
(***************************************************************************)
EXTENDS NetworkControl, FiniteSetTheorems, TLAPS

(* TypeOK in two parts, and the types of the local variables of             *)
(* provision_network that it leaves out.                                    *)
DockerType ==
  /\ box \in [Names -> 0..MaxAttempts]
  /\ up \subseteq Ids /\ dead \subseteq Ids /\ nets \subseteq Attempts
  /\ joined \subseteq Ids \X Attempts
  /\ gate \in {"none", "open", "rules", "serving"}
  /\ image \in [Envs -> [label : 0..MaxVersion, content : 0..MaxVersion]]
  /\ dockerfiles \in Versions
  /\ resources \in Record
  /\ {live, attempts, taken} \subseteq 0..MaxAttempts
  /\ cleaners \subseteq Cleaner
  /\ prob \in Problems /\ faults \in 0..prob.faults
  /\ lost \subseteq Ids \cup {NetId(n) : n \in Attempts}

PvType ==
  /\ DOMAIN pv = DOMAIN Quiet /\ pv.pc \in ProvisionPC
  /\ pv.cfg \in Config /\ Len(pv.cfg.sidecars) <= MaxSidecars
  /\ pv.built \subseteq Envs /\ pv.order \in Seq(Names)
  /\ pv.todo \subseteq IF pv.pc = "build" THEN Envs ELSE Ids
  /\ pv.fresh \subseteq Ids /\ pv.seen \subseteq Ids /\ pv.rec \in Record
  /\ {pv.label, pv.content} \subseteq 0..MaxVersion

(* Provisioning an attempt, up to the point where it has its containers or  *)
(* fails; from the point where it has a record; and where the containers of *)
(* the record are there.                                                    *)
Early    == {"list", "stale", "config", "checksum", "extract", "build", "topology"}
Starting == {"network", "start", "waithosts", "router", "connect", "settle", "wait",
             "publish"}
Underway   == Early \cup Starting \cup {"abort"}

Flow ==
  /\ taken <= attempts /\ live <= attempts
  /\ pv.pc \in Underway \cup {"aborting"} => taken # 0
  /\ pv.pc \in Starting \cup {"abort"} => pv.rec.of = taken
  /\ pv.pc \in {"startup", "purge"} => live = 0
  /\ pv.pc = "failed" => live = 0 \/ live > taken

NetTypes == DockerType /\ PvType /\ Flow

(* The attempts whose containers or networks a record r names.              *)
Of(r) == r.nets \cup {id[2] : id \in IdsOf(r)}

(* Records name things of attempts so far; that of the attempt being        *)
(* provisioned is not among them.                                           *)
Earlier(r) == \A k \in Of(r) : k <= taken /\ (pv.pc \in Underway => k # taken)

Own ==
  /\ Earlier(resources)
  /\ \A c \in cleaners : /\ Earlier(c.res) /\ c.todo \subseteq IdsOf(c.res)
                         /\ c.att <= attempts /\ (c.pc = "pop" => c.todo = {} /\ c.att # live)
  /\ pv.pc \in Starting \cup {"abort"} =>
       Of(pv.rec) \subseteq {taken} /\ \A id \in pv.fresh : id[2] = taken
  /\ pv.pc \in Starting => /\ IdsOf(pv.rec) \cup pv.fresh \subseteq NetLive
                           /\ pv.rec.nets \subseteq nets
  /\ (Judging /\ ~overtaken) =>
       /\ resources.of = taken /\ Of(resources) \subseteq {taken}
       /\ IdsOf(resources) \subseteq NetLive /\ resources.nets \subseteq nets
       /\ \A c \in cleaners : taken \notin Of(c.res)

(* The containers of the record are waited for or have been seen.           *)
Waiting ==
  /\ pv.pc \in Early \cup {"idle", "startup", "purge", "network"} => pv.fresh = {}
  /\ pv.pc = "network" => pv.order = Hosts /\ IdsOf(pv.rec) = {}
  /\ pv.pc = "start" =>
       /\ pv.rec.router = {}
       /\ pv.rec.boxes \cup pv.fresh \cup {Me(n) : n \in ToSet(pv.order)} \subseteq MyIds
  /\ pv.pc = "waithosts" => pv.rec.router = {} /\ pv.rec.boxes \subseteq pv.todo \cup pv.seen
  /\ pv.pc \in {"router", "connect"} => pv.rec.router = {} /\ pv.rec.boxes \subseteq pv.seen
  /\ pv.pc = "connect" => pv.fresh = {Me(Router)}
  /\ pv.pc \in {"settle", "wait"} => IdsOf(pv.rec) \subseteq pv.todo \cup pv.seen
  /\ pv.pc = "publish" => IdsOf(pv.rec) \subseteq pv.seen

(* Whatever is left of earlier attempts is on the list while it is removed. *)
Cleared ==
  ~pv.missed =>
    /\ pv.pc = "stale" => \A id \in NetLive : IsEnv(id[1]) \/ id \in pv.todo
    /\ pv.pc \in (Early \ {"list", "stale"}) \cup {"network"} =>
         \A id \in NetLive : IsEnv(id[1])

-----------------------------------------------------------------------------
(* The fields of the provisioner's state.                                   *)
LEMMA Fields ==
  ASSUME NetTypes
  PROVE  DOMAIN pv = {"pc", "cfg", "built", "order", "todo", "fresh", "rec", "label",
                      "content", "names", "ips", "seen", "missed"}
BY DEF NetTypes, PvType, Quiet

(* The parts are TypeOK.                                                    *)
LEMMA PartsTyped == NetTypes => TypeOK
BY DEF NetTypes, DockerType, PvType, TypeOK

(* A finite set has a sequence of its elements.                             *)
LEMMA SetSequence ==
  ASSUME NEW S, IsFiniteSet(S)
  PROVE  SetToSeq(S) \in Seq(S)
<1>1. Cardinality(S) \in Nat /\ ExistsBijection(1..Cardinality(S), S)
  BY FS_CardinalityType
<1>2. \E f \in [1..Cardinality(S) -> S] : IsInjective(f)
  BY <1>1 DEF ExistsBijection, Bijection, Injection, IsInjective
<1>3. SetToSeq(S) \in [1..Cardinality(S) -> S]
  BY <1>2 DEF SetToSeq
<1> QED
  BY <1>1, <1>3

(* The internal hosts are containers the controller may name.               *)
LEMMA HostsType ==
  ASSUME NetTypes
  PROVE  Hosts \in Seq(Names)
<1> DEFINE S == {Env(e) : e \in pv.built}
<1> DEFINE sides == [i \in 1..Len(pv.cfg.sidecars) |-> Side(i)]
<1>1. S \subseteq Names /\ pv.built \subseteq 1..MaxEnvs
  BY DEF NetTypes, PvType, Names, Envs
<1>2. IsFiniteSet(S)
  <2>1. MaxEnvs \in Nat
    BY NetworkAssumption
  <2>2. IsFiniteSet(1..MaxEnvs)
    BY <2>1, FS_Interval
  <2>3. IsFiniteSet(pv.built)
    BY <1>1, <2>2, FS_Subset
  <2> DEFINE f == [e \in pv.built |-> Env(e)]
  <2>4. f \in [pv.built -> S] /\ \A e \in pv.built : f[e] = Env(e)
    OBVIOUS
  <2>5. \A d, e : Env(d) = Env(e) => d = e
    BY DEF Env
  <2>6. \A x \in S : \E e \in pv.built : f[e] = x
    BY <2>4
  <2> HIDE DEF f, S
  <2>7. f \in Bijection(pv.built, S)
    BY <2>4, <2>5, <2>6 DEF Bijection, Injection, Surjection, IsInjective
  <2> QED
    BY <2>3, <2>7, FS_Bijection DEF ExistsBijection
<1>3. SetToSeq(S) \in Seq(Names)
  <2>1. SetToSeq(S) \in Seq(S)
    BY <1>2, SetSequence
  <2> HIDE DEF S
  <2> QED
    BY <1>1, <2>1
<1>4. sides \in Seq(Names)
  <2>1. pv.cfg.sidecars \in Seq(Image) /\ Len(pv.cfg.sidecars) <= MaxSidecars
    BY DEF NetTypes, PvType, Config
  <2>2. Len(pv.cfg.sidecars) \in Nat
    BY <2>1
  <2>3. \A i \in 1..Len(pv.cfg.sidecars) : Side(i) \in Names
    BY <2>1, <2>2, NetworkAssumption DEF Names
  <2> QED
    BY <2>2, <2>3
<1>5. Hosts = sides \o SetToSeq(S)
  BY DEF Hosts, SideHosts, EnvHosts
<1> HIDE DEF S, sides
<1> QED
  BY <1>3, <1>4, <1>5

(* The fields of pv outside F stay as they are.                             *)
Same(F) == DOMAIN pv' = DOMAIN pv /\ \A x \in DOMAIN pv \ F : pv'[x] = pv[x]

(* A step that only changes where provisioning is.                          *)
LEMMA GotoSame ==
  ASSUME NetTypes, NEW q, Goto(q)
  PROVE  Same({"pc"}) /\ pv'.pc = q
BY Fields DEF Goto, Same

(* Provisioning that has not begun, or starts with the process.             *)
LEMMA QuietType ==
  ASSUME NEW q \in {"idle", "startup"}, pv' = [Quiet EXCEPT !.pc = q] \/ (q = "idle" /\ pv' = Quiet)
  PROVE  PvType' /\ pv'.pc = q
<1>1. NoConfig \in Config /\ Len(NoConfig.sidecars) = 0
  BY DEF NoConfig, Config
<1>2. NoRecord \in Record
  BY NetworkAssumption DEF NoRecord, Record
<1>3. 0 \in 0..MaxVersion /\ 0 <= MaxSidecars
  BY NetworkAssumption
<1>4. <<>> \in Seq(Names)
  OBVIOUS
<1>5. /\ DOMAIN pv' = DOMAIN Quiet /\ pv'.pc = q
      /\ \A x \in DOMAIN Quiet \ {"pc"} : pv'[x] = Quiet[x]
  <2>1. "pc" \in DOMAIN Quiet /\ Quiet.pc = "idle"
    BY DEF Quiet
  <2> QED
    BY <2>1
<1>6. /\ Quiet.cfg = NoConfig /\ Quiet.built = {} /\ Quiet.order = <<>> /\ Quiet.todo = {}
      /\ Quiet.fresh = {} /\ Quiet.rec = NoRecord /\ Quiet.label = 0 /\ Quiet.content = 0
      /\ Quiet.seen = {}
      /\ {"cfg", "built", "order", "todo", "fresh", "rec", "label", "content", "seen"}
           \subseteq DOMAIN Quiet \ {"pc"}
  BY DEF Quiet
<1>7. /\ pv'.cfg = NoConfig /\ pv'.built = {} /\ pv'.order = <<>> /\ pv'.todo = {}
      /\ pv'.fresh = {} /\ pv'.rec = NoRecord /\ pv'.label = 0 /\ pv'.content = 0
      /\ pv'.seen = {}
  BY <1>5, <1>6
<1> QED
  BY <1>1, <1>2, <1>3, <1>4, <1>5, <1>7 DEF PvType, ProvisionPC

(* What a fault counts, and the type of the problem.                         *)
LEMMA FaultType ==
  ASSUME NetTypes
  PROVE  /\ NetFault => faults' \in 0..prob.faults
         /\ faults \in 0..prob.faults /\ prob \in Problems
<1>1. prob.faults \in Nat /\ faults \in 0..prob.faults
  BY NetworkAssumption DEF NetTypes, DockerType, Problem
<1>2. NetFault => faults' \in 0..prob.faults
  BY <1>1 DEF NetFault
<1> QED
  BY <1>1, <1>2 DEF NetTypes, DockerType

(* The configuration made of a problem, and its environments.               *)
LEMMA ProblemType ==
  ASSUME NetTypes
  PROVE  /\ Translate(prob) \in Config /\ Len(Translate(prob).sidecars) <= MaxSidecars
         /\ prob.envs \subseteq Envs
<1>1. prob \in Problem /\ Len(prob.sidecars) <= MaxSidecars /\ 0 <= MaxSidecars
  BY NetworkAssumption DEF NetTypes, DockerType
<1>2. /\ prob.schema \in {"new", "legacy", "none"} /\ prob.external \in {"none", "white", "black"}
      /\ prob.rules \in BOOLEAN /\ prob.sidecars \in Seq(Image) /\ prob.dockerfile \in BOOLEAN
      /\ prob.envs \subseteq Envs
  BY <1>1 DEF Problem, Envs
<1>3. <<>> \in Seq(Image) /\ Len(<<>>) = 0
  OBVIOUS
<1>4. CASE prob.schema = "new"
  BY <1>1, <1>2, <1>4 DEF Translate, Config
<1>5. CASE prob.schema = "legacy"
  BY <1>1, <1>2, <1>3, <1>5 DEF Translate, Config
<1>6. CASE prob.schema = "none"
  BY <1>1, <1>2, <1>3, <1>6 DEF Translate, Config, NoConfig
<1> QED
  BY <1>2, <1>4, <1>5, <1>6

(* The containers of the attempt that is being provisioned.                 *)
LEMMA MyType ==
  ASSUME NetTypes, pv.pc \in Starting
  PROVE  /\ taken \in Attempts /\ pv.rec.of = taken /\ pv.rec \in Record
         /\ \A n \in Names : Me(n) \in Ids
         /\ MyIds \subseteq Ids /\ Me(Router) \in Ids /\ taken \in 0..MaxAttempts
<1>1. taken \in Attempts /\ pv.rec.of = taken /\ pv.rec \in Record
  BY NetworkAssumption DEF NetTypes, DockerType, PvType, Flow, Underway, Attempts
<1>2. \A n \in Names : Me(n) \in Ids
  BY <1>1 DEF Me, Ids
<1>3. \A n \in ToSet(Hosts) : n \in Names
  BY HostsType DEF ToSet
<1>4. Router \in Names
  BY DEF Names
<1>5. taken \in 0..MaxAttempts
  BY DEF NetTypes, DockerType
<1> QED
  BY <1>1, <1>2, <1>3, <1>4, <1>5 DEF MyIds

(* Removing containers keeps Docker's view well typed.                      *)
LEMMA RemoveType ==
  ASSUME NetTypes, NEW ids, RemoveBoxes(ids)
  PROVE  /\ box' \in [Names -> 0..MaxAttempts] /\ up' \subseteq Ids /\ dead' \subseteq Ids
         /\ joined' \subseteq Ids \X Attempts
<1>1. 0 \in 0..MaxAttempts
  BY NetworkAssumption
<1> QED
  BY <1>1 DEF NetTypes, DockerType, RemoveBoxes

(* The versions and labels of dockerfiles.                                  *)
LEMMA VersionTypes ==
  ASSUME NetTypes
  PROVE  {dockerfiles, pv.label, pv.content} \subseteq 0..MaxVersion
<1>1. Versions \subseteq 0..MaxVersion
  BY NetworkAssumption DEF Versions
<1> QED
  BY <1>1 DEF NetTypes, DockerType, PvType

-----------------------------------------------------------------------------
(* The steps of provisioning, one by one: Docker's side first, then the      *)
(* local variables and where they lead.                                     *)
LEMMA ListStaleStep ==
  ASSUME NetTypes, ListStale
  PROVE  /\ Same({"pc", "todo", "missed"})
         /\ pv.pc \in {"startup", "list"}
         /\ pv'.pc = IF pv.pc = "startup" THEN "purge" ELSE "stale"
         /\ pv'.todo \subseteq Ids
<1> DEFINE q == IF pv.pc = "startup" THEN "purge" ELSE "stale"
<1> DEFINE ids == {id \in NetLive : StaleName(id[1])}
<1>1. \/ pv' = [pv EXCEPT !.todo = ids, !.pc = q]
      \/ pv' = [pv EXCEPT !.missed = TRUE, !.pc = q]
  BY DEF ListStale
<1>2. pv.pc \in {"startup", "list"}
  BY DEF ListStale
<1>3. ids \subseteq Ids /\ pv.todo \subseteq Ids
  BY <1>2 DEF NetLive, NetTypes, PvType
<1> HIDE DEF q, ids
<1>4. Same({"pc", "todo", "missed"}) /\ pv'.pc = q /\ pv'.todo \in {ids, pv.todo}
  BY <1>1, Fields DEF Same
<1> QED
  BY <1>2, <1>3, <1>4 DEF q

(* ListStale keeps the types.                                               *)
LEMMA ListStaleTypes ==
  ASSUME NetTypes, ListStale
  PROVE  NetTypes'
<1>1. DockerType'
  <2>1. NetLive \subseteq Ids
    BY DEF NetLive
  <2> QED
    BY <2>1, NetworkAssumption, FaultType DEF NetTypes, DockerType, ListStale, docker,
       boxes, builds, sids
<1>3. PvType'
  BY ListStaleStep, Fields DEF NetTypes, DockerType, PvType, Same,
     ProvisionPC
<1>4. Flow'
  BY ListStaleStep, Fields DEF NetTypes, Flow, Same, Early, Starting,
     Underway, ListStale, docker, boxes, builds, sids, ghosts, Goto, Abort
<1> QED
  BY <1>1, <1>3, <1>4 DEF NetTypes

(* Removing a stale container only shortens the list.                       *)
LEMMA RemoveStaleStep ==
  ASSUME NetTypes, RemoveStale
  PROVE  /\ Same({"todo", "missed"})
         /\ pv'.todo \subseteq pv.todo /\ pv.pc # "build"
BY Fields DEF RemoveStale, Same, Goto, Abort

(* RemoveStale keeps the types.                                             *)
LEMMA RemoveStaleTypes ==
  ASSUME NetTypes, RemoveStale
  PROVE  NetTypes'
<1>1. DockerType'
  <2>1. PICK id \in pv.todo :
          \/ RemoveBoxes({id}) /\ UNCHANGED <<faults, lost>>
          \/ NetFault /\ UNCHANGED <<boxes, joined>> /\ lost' = lost \cup {id}
    BY DEF RemoveStale
  <2>2. id \in Ids
    BY <2>1 DEF NetTypes, PvType, RemoveStale
  <2>3. /\ box' \in [Names -> 0..MaxAttempts] /\ up' \subseteq Ids /\ dead' \subseteq Ids
        /\ joined' \subseteq Ids \X Attempts
    BY <2>1, RemoveType DEF boxes, NetTypes, DockerType
  <2>4. lost' \subseteq Ids \cup {NetId(n) : n \in Attempts} /\ faults' \in 0..prob.faults
    BY <2>1, <2>2, FaultType DEF NetTypes, DockerType
  <2> QED
    BY <2>3, <2>4 DEF NetTypes, DockerType, RemoveStale, builds, sids
<1>3. PvType'
  BY RemoveStaleStep, Fields DEF NetTypes, DockerType, PvType, Same,
     ProvisionPC
<1>4. Flow'
  BY RemoveStaleStep, Fields DEF NetTypes, Flow, Same, Early, Starting,
     Underway, RemoveStale, docker, boxes, builds, sids, ghosts, Goto, Abort
<1> QED
  BY <1>1, <1>3, <1>4 DEF NetTypes

(* Reading the configuration sets that and leads to the images or the       *)
(* topology.                                                                *)
LEMMA ReadConfigStep ==
  ASSUME NetTypes, ReadConfig
  PROVE  /\ Same({"cfg", "pc"})
         /\ pv.pc = "config" /\ pv'.pc \in {"checksum", "topology"}
         /\ pv'.cfg \in {Translate(prob), pv.cfg}
BY Fields DEF ReadConfig, Same, Goto, Abort

(* ReadConfig keeps the types.                                              *)
LEMMA ReadConfigTypes ==
  ASSUME NetTypes, ReadConfig
  PROVE  NetTypes'
<1>1. DockerType'
  BY NetworkAssumption, FaultType DEF NetTypes, DockerType, ReadConfig,
     docker, boxes, builds, sids, ghosts, Goto, Abort
<1>2. pv'.cfg \in Config /\ Len(pv'.cfg.sidecars) <= MaxSidecars
  BY ReadConfigStep, ProblemType DEF NetTypes, PvType
<1>3. PvType'
  BY ReadConfigStep, <1>2, Fields DEF NetTypes, DockerType, PvType, Same,
     ProvisionPC
<1>4. Flow'
  BY ReadConfigStep, <1>2, Fields DEF NetTypes, Flow, Same, Early, Starting,
     Underway, ReadConfig, docker, boxes, builds, sids, ghosts, Goto, Abort
<1> QED
  BY <1>1, <1>3, <1>4 DEF NetTypes

(* Label and content are versions the backend had at the time.              *)
LEMMA FindDockerfilesStep ==
  ASSUME NetTypes, FindDockerfiles
  PROVE  /\ Same({"label", "content", "todo", "pc"})
         /\ pv.pc \in {"checksum", "extract"} /\ pv'.pc \in {"extract", "build", "topology"}
         /\ {pv'.label, pv'.content} \subseteq {dockerfiles, pv.label, pv.content}
         /\ \/ pv'.pc # "build" /\ pv'.todo = pv.todo
            \/ pv'.pc = "build" /\ pv'.todo = prob.envs
BY Fields DEF FindDockerfiles, Same, Goto, Abort, TakeChecksum, TakeFiles

(* FindDockerfiles keeps the types.                                         *)
LEMMA FindDockerfilesTypes ==
  ASSUME NetTypes, FindDockerfiles
  PROVE  NetTypes'
<1>1. DockerType'
  BY NetworkAssumption, FaultType DEF NetTypes, DockerType, FindDockerfiles,
     docker, boxes, builds, sids, ghosts, Goto, Abort
<1>2. prob.envs \subseteq Envs /\ {pv'.label, pv'.content} \subseteq 0..MaxVersion
  BY FindDockerfilesStep, ProblemType, VersionTypes
<1>3. PvType'
  BY FindDockerfilesStep, <1>2, Fields DEF NetTypes, DockerType, PvType,
     Same, ProvisionPC
<1>4. Flow'
  BY FindDockerfilesStep, <1>2, Fields DEF NetTypes, Flow, Same, Early,
     Starting, Underway, FindDockerfiles, docker, boxes, builds, sids,
     ghosts, Goto, Abort
<1> QED
  BY <1>1, <1>3, <1>4 DEF NetTypes

(* An image is built, or given up, for an environment on the list.          *)
LEMMA BuildImageStep ==
  ASSUME NetTypes, BuildImage
  PROVE  /\ Same({"built", "todo"})
         /\ pv.pc = "build" /\ pv'.todo \subseteq pv.todo /\ pv'.built \subseteq pv.built \cup pv.todo
<1>1. PICK e \in pv.todo :
        \/ pv' = [pv EXCEPT !.todo = pv.todo \ {e}, !.built = pv.built \cup {e}]
        \/ pv' = [pv EXCEPT !.todo = pv.todo \ {e}]
  BY Fields DEF BuildImage
<1>2. pv'.todo = pv.todo \ {e} /\ pv'.built \in {pv.built, pv.built \cup {e}}
  BY <1>1, Fields
<1>3. Same({"built", "todo"})
  BY <1>1, Fields DEF Same
<1> QED
  BY <1>1, <1>2, <1>3 DEF BuildImage

(* BuildImage keeps the types.                                              *)
LEMMA BuildImageTypes ==
  ASSUME NetTypes, BuildImage
  PROVE  NetTypes'
<1>1. DockerType'
  <2>3. \/ image' = image
        \/ \E e : image' = [image EXCEPT ![e] = [label |-> pv.label, content |-> pv.content]]
    BY DEF BuildImage
  <2>1. image' \in [Envs -> [label : 0..MaxVersion, content : 0..MaxVersion]]
    BY <2>3, VersionTypes DEF NetTypes, DockerType
  <2>2. faults' \in 0..prob.faults
    BY FaultType DEF BuildImage
  <2> QED
    BY <2>1, <2>2 DEF NetTypes, DockerType, BuildImage, docker, boxes, sids, ghosts
<1>2. pv.todo \subseteq Envs
  BY BuildImageStep DEF NetTypes, PvType
<1>3. PvType'
  BY BuildImageStep, <1>2, Fields DEF NetTypes, DockerType, PvType, Same,
     ProvisionPC
<1>4. Flow'
  BY BuildImageStep, <1>2, Fields DEF NetTypes, Flow, Same, Early, Starting,
     Underway, BuildImage, docker, boxes, builds, sids, ghosts, Goto, Abort
<1> QED
  BY <1>1, <1>3, <1>4 DEF NetTypes

(* The topology is decided when no image is left to build.                  *)
LEMMA ImagesBuiltStep ==
  ASSUME NetTypes, ImagesBuilt
  PROVE  /\ Same({"pc"})
         /\ pv'.pc = "topology" /\ pv.pc = "build" /\ pv.todo = {}
BY Fields DEF ImagesBuilt, Same, Goto, Abort

(* ImagesBuilt keeps the types.                                             *)
LEMMA ImagesBuiltTypes ==
  ASSUME NetTypes, ImagesBuilt
  PROVE  NetTypes'
<1>1. DockerType'
  BY NetworkAssumption, FaultType DEF NetTypes, DockerType, ImagesBuilt,
     docker, boxes, builds, sids, ghosts, Goto, Abort
<1>3. PvType'
  BY ImagesBuiltStep, Fields DEF NetTypes, DockerType, PvType, Same,
     ProvisionPC
<1>4. Flow'
  BY ImagesBuiltStep, Fields DEF NetTypes, Flow, Same, Early, Starting,
     Underway, ImagesBuilt, docker, boxes, builds, sids, ghosts, Goto, Abort
<1> QED
  BY <1>1, <1>3, <1>4 DEF NetTypes

(* An empty record of this attempt, and the hosts in order.                 *)
LEMMA DecideTopologyStep ==
  ASSUME NetTypes, DecideTopology
  PROVE  /\ Same({"rec", "order", "pc"})
         /\ pv.pc = "topology" /\ pv'.pc \in {"network", "router", "publish"}
         /\ pv'.order = Hosts /\ pv'.rec = [NoRecord EXCEPT !.of = taken]
BY Fields DEF DecideTopology, Same, Goto, Abort

(* DecideTopology keeps the types.                                          *)
LEMMA DecideTopologyTypes ==
  ASSUME NetTypes, DecideTopology
  PROVE  NetTypes'
<1>1. DockerType'
  BY NetworkAssumption, FaultType DEF NetTypes, DockerType, DecideTopology,
     docker, boxes, builds, sids, ghosts, Goto, Abort
<1>2. pv'.order \in Seq(Names) /\ pv'.rec \in Record /\ pv'.rec.of = taken
  BY DecideTopologyStep, HostsType DEF NetTypes, DockerType, Record,
     NoRecord
<1>3. PvType'
  BY DecideTopologyStep, <1>2, Fields DEF NetTypes, DockerType, PvType,
     Same, ProvisionPC
<1>4. Flow'
  BY DecideTopologyStep, <1>2, Fields DEF NetTypes, Flow, Same, Early,
     Starting, Underway, DecideTopology, docker, boxes, builds, sids,
     ghosts, Goto, Abort
<1> QED
  BY <1>1, <1>3, <1>4 DEF NetTypes

(* The network is recorded as soon as it exists.                            *)
LEMMA CreateNetworkStep ==
  ASSUME NetTypes, CreateNetwork
  PROVE  /\ Same({"rec", "pc"})
         /\ pv.pc = "network" /\ pv'.pc \in {"start", "abort"}
         /\ pv'.rec \in {pv.rec, [pv.rec EXCEPT !.nets = {pv.rec.of}]}
BY Fields DEF CreateNetwork, Same, Goto, Abort

(* CreateNetwork keeps the types.                                           *)
LEMMA CreateNetworkTypes ==
  ASSUME NetTypes, CreateNetwork
  PROVE  NetTypes'
<1>1. DockerType'
  <2>1. pv.pc = "network" /\ (nets' = nets \/ nets' = nets \cup {pv.rec.of})
    BY DEF CreateNetwork
  <2>2. nets' \subseteq Attempts
    BY <2>1, MyType DEF NetTypes, DockerType, Starting
  <2>3. faults' \in 0..prob.faults
    BY FaultType DEF CreateNetwork
  <2> QED
    BY <2>2, <2>3 DEF NetTypes, DockerType, CreateNetwork, boxes, builds, sids, ghosts
<1>2. pv'.rec \in Record /\ pv'.rec.of = pv.rec.of
  BY CreateNetworkStep, MyType DEF Record, Starting
<1>3. PvType'
  BY CreateNetworkStep, <1>2, Fields DEF NetTypes, DockerType, PvType, Same,
     ProvisionPC
<1>4. Flow'
  BY CreateNetworkStep, <1>2, Fields DEF NetTypes, Flow, Same, Early,
     Starting, Underway, CreateNetwork, docker, boxes, builds, sids, ghosts,
     Goto, Abort
<1> QED
  BY <1>1, <1>3, <1>4 DEF NetTypes

(* Only the way out is taken.                                               *)
LEMMA CannotStartHostStep ==
  ASSUME NetTypes, CannotStartHost
  PROVE  /\ Same({"pc"})
         /\ pv.pc = "start" /\ pv'.pc = "abort"
BY Fields DEF CannotStartHost, Same, Goto, Abort

(* CannotStartHost keeps the types.                                         *)
LEMMA CannotStartHostTypes ==
  ASSUME NetTypes, CannotStartHost
  PROVE  NetTypes'
<1>1. DockerType'
  BY NetworkAssumption, FaultType DEF NetTypes, DockerType, CannotStartHost,
     docker, boxes, builds, sids, ghosts, Goto, Abort
<1>3. PvType'
  BY CannotStartHostStep, Fields DEF NetTypes, DockerType, PvType, Same,
     ProvisionPC
<1>4. Flow'
  BY CannotStartHostStep, Fields DEF NetTypes, Flow, Same, Early, Starting,
     Underway, CannotStartHost, docker, boxes, builds, sids, ghosts, Goto,
     Abort
<1> QED
  BY <1>1, <1>3, <1>4 DEF NetTypes

(* A container that does not start is known, but not recorded.              *)
LEMMA HostCreatedOnlyStep ==
  ASSUME NetTypes, HostCreatedOnly
  PROVE  /\ Same({"fresh", "pc"})
         /\ pv.pc = "start" /\ pv'.pc = "abort" /\ pv.order # <<>>
         /\ pv'.fresh = pv.fresh \cup {Me(Head(pv.order))}
BY Fields DEF HostCreatedOnly, Same, Goto, Abort

(* HostCreatedOnly keeps the types.                                         *)
LEMMA HostCreatedOnlyTypes ==
  ASSUME NetTypes, HostCreatedOnly
  PROVE  NetTypes'
<1>1. DockerType'
  <2>1. pv.pc = "start" /\ pv.order # <<>> /\ pv.order \in Seq(Names)
    BY DEF HostCreatedOnly, NetTypes, PvType
  <2>2. Me(Head(pv.order)) \in Ids
    BY <2>1, MyType DEF Starting
  <2>5. box' = [box EXCEPT ![Head(pv.order)] = pv.rec.of]
    BY DEF HostCreatedOnly
  <2>3. box' \in [Names -> 0..MaxAttempts]
    BY <2>1, <2>5, MyType DEF Starting, NetTypes, DockerType
  <2>4. dead' \subseteq Ids /\ faults' \in 0..prob.faults
    BY <2>2, FaultType DEF HostCreatedOnly, NetTypes, DockerType
  <2> QED
    BY <2>3, <2>4 DEF NetTypes, DockerType, HostCreatedOnly, builds, sids, ghosts
<1>2. pv'.fresh \subseteq Ids
  BY HostCreatedOnlyStep, MyType DEF NetTypes, PvType, Starting
<1>3. PvType'
  BY HostCreatedOnlyStep, <1>2, Fields DEF NetTypes, DockerType, PvType,
     Same, ProvisionPC
<1>4. Flow'
  BY HostCreatedOnlyStep, <1>2, Fields DEF NetTypes, Flow, Same, Early,
     Starting, Underway, HostCreatedOnly, docker, boxes, builds, sids,
     ghosts, Goto, Abort
<1> QED
  BY <1>1, <1>3, <1>4 DEF NetTypes

(* All hosts are waited for.                                                *)
LEMMA HostsStartedStep ==
  ASSUME NetTypes, HostsStarted
  PROVE  /\ Same({"todo", "rec", "pc"})
         /\ pv.pc = "start" /\ pv'.pc \in {"waithosts", "wait"} /\ pv'.todo = MyIds
         /\ \E m \in {"none", "net", "router"} : pv'.rec = [pv.rec EXCEPT !.mode = m]
BY Fields DEF HostsStarted, Same, Goto, Abort, Record, NetTypes, PvType

(* HostsStarted keeps the types.                                            *)
LEMMA HostsStartedTypes ==
  ASSUME NetTypes, HostsStarted
  PROVE  NetTypes'
<1>1. DockerType'
  BY NetworkAssumption, FaultType DEF NetTypes, DockerType, HostsStarted,
     docker, boxes, builds, sids, ghosts, Goto, Abort
<1>2. pv'.todo \subseteq Ids /\ pv'.rec \in Record /\ pv'.rec.of = pv.rec.of
  BY HostsStartedStep, MyType DEF Record, Starting
<1>3. PvType'
  BY ZenonT(30), HostsStartedStep, <1>2, Fields DEF NetTypes, DockerType, PvType, Same,
     ProvisionPC
<1>4. Flow'
  BY HostsStartedStep, <1>2, Fields DEF NetTypes, Flow, Same, Early,
     Starting, Underway, HostsStarted, docker, boxes, builds, sids, ghosts,
     Goto, Abort
<1> QED
  BY <1>1, <1>3, <1>4 DEF NetTypes

(* A container that is waited for no longer was on the list.                *)
LEMMA WaitForStep ==
  ASSUME NetTypes, WaitFor
  PROVE  /\ Same({"todo", "seen"})
         /\ pv.pc \in {"waithosts", "wait"} /\ pv'.todo \subseteq pv.todo
         /\ pv'.seen \subseteq pv.seen \cup pv.todo
<1>1. PICK id \in pv.todo :
        pv' = [pv EXCEPT !.todo = pv.todo \ {id},
                         !.seen = IF id \in up THEN pv.seen \cup {id} ELSE pv.seen]
  BY Fields DEF WaitFor
<1> DEFINE seen == IF id \in up THEN pv.seen \cup {id} ELSE pv.seen
<1>2. seen \subseteq pv.seen \cup pv.todo /\ pv' = [pv EXCEPT !.todo = pv.todo \ {id}, !.seen = seen]
  BY <1>1
<1> HIDE DEF seen
<1>3. pv'.todo = pv.todo \ {id} /\ pv'.seen = seen /\ Same({"todo", "seen"})
  BY <1>2, Fields DEF Same
<1> QED
  BY <1>2, <1>3 DEF WaitFor

(* WaitFor keeps the types.                                                 *)
LEMMA WaitForTypes ==
  ASSUME NetTypes, WaitFor
  PROVE  NetTypes'
<1>1. DockerType'
  BY NetworkAssumption, FaultType DEF NetTypes, DockerType, WaitFor, docker,
     boxes, builds, sids, ghosts, Goto, Abort
<1>3. PvType'
  BY WaitForStep, Fields DEF NetTypes, DockerType, PvType, Same, ProvisionPC
<1>4. Flow'
  BY WaitForStep, Fields DEF NetTypes, Flow, Same, Early, Starting,
     Underway, WaitFor, docker, boxes, builds, sids, ghosts, Goto, Abort
<1> QED
  BY <1>1, <1>3, <1>4 DEF NetTypes

(* Only the way out is taken.                                               *)
LEMMA WaitTimesOutStep ==
  ASSUME NetTypes, WaitTimesOut
  PROVE  /\ Same({"pc"})
         /\ pv.pc \in {"waithosts", "wait"} /\ pv'.pc = "abort"
BY Fields DEF WaitTimesOut, Same, Goto, Abort

(* WaitTimesOut keeps the types.                                            *)
LEMMA WaitTimesOutTypes ==
  ASSUME NetTypes, WaitTimesOut
  PROVE  NetTypes'
<1>1. DockerType'
  BY NetworkAssumption, FaultType DEF NetTypes, DockerType, WaitTimesOut,
     docker, boxes, builds, sids, ghosts, Goto, Abort
<1>3. PvType'
  BY WaitTimesOutStep, Fields DEF NetTypes, DockerType, PvType, Same,
     ProvisionPC
<1>4. Flow'
  BY WaitTimesOutStep, Fields DEF NetTypes, Flow, Same, Early, Starting,
     Underway, WaitTimesOut, docker, boxes, builds, sids, ghosts, Goto,
     Abort
<1> QED
  BY <1>1, <1>3, <1>4 DEF NetTypes

(* Names and addresses, and on to the router.                               *)
LEMMA CollectAddressesStep ==
  ASSUME NetTypes, CollectAddresses
  PROVE  /\ Same({"names", "ips", "pc", "missed"})
         /\ pv.pc = "waithosts" /\ pv'.pc = "router"
BY Fields DEF CollectAddresses, Same, Goto, Abort

(* CollectAddresses keeps the types.                                        *)
LEMMA CollectAddressesTypes ==
  ASSUME NetTypes, CollectAddresses
  PROVE  NetTypes'
<1>1. DockerType'
  BY NetworkAssumption, FaultType DEF NetTypes, DockerType,
     CollectAddresses, docker, boxes, builds, sids, ghosts, Goto, Abort
<1>3. PvType'
  BY CollectAddressesStep, Fields DEF NetTypes, DockerType, PvType, Same,
     ProvisionPC
<1>4. Flow'
  BY CollectAddressesStep, Fields DEF NetTypes, Flow, Same, Early, Starting,
     Underway, CollectAddresses, docker, boxes, builds, sids, ghosts, Goto,
     Abort
<1> QED
  BY <1>1, <1>3, <1>4 DEF NetTypes

(* The router is waited for next.                                           *)
LEMMA SettleStep ==
  ASSUME NetTypes, Settle
  PROVE  /\ Same({"pc"})
         /\ pv.pc = "settle" /\ pv'.pc = "wait"
BY Fields DEF Settle, Same, Goto, Abort

(* Settle keeps the types.                                                  *)
LEMMA SettleTypes ==
  ASSUME NetTypes, Settle
  PROVE  NetTypes'
<1>1. DockerType'
  BY NetworkAssumption, FaultType DEF NetTypes, DockerType, Settle, docker,
     boxes, builds, sids, ghosts, Goto, Abort
<1>3. PvType'
  BY SettleStep, Fields DEF NetTypes, DockerType, PvType, Same, ProvisionPC
<1>4. Flow'
  BY SettleStep, Fields DEF NetTypes, Flow, Same, Early, Starting, Underway,
     Settle, docker, boxes, builds, sids, ghosts, Goto, Abort
<1> QED
  BY <1>1, <1>3, <1>4 DEF NetTypes

(* Nothing is waited for any more.                                          *)
LEMMA AllRunningStep ==
  ASSUME NetTypes, AllRunning
  PROVE  /\ Same({"pc"})
         /\ pv.pc = "wait" /\ pv'.pc = "publish"
BY Fields DEF AllRunning, Same, Goto, Abort

(* AllRunning keeps the types.                                              *)
LEMMA AllRunningTypes ==
  ASSUME NetTypes, AllRunning
  PROVE  NetTypes'
<1>1. DockerType'
  BY NetworkAssumption, FaultType DEF NetTypes, DockerType, AllRunning,
     docker, boxes, builds, sids, ghosts, Goto, Abort
<1>3. PvType'
  BY AllRunningStep, Fields DEF NetTypes, DockerType, PvType, Same,
     ProvisionPC
<1>4. Flow'
  BY AllRunningStep, Fields DEF NetTypes, Flow, Same, Early, Starting,
     Underway, AllRunning, docker, boxes, builds, sids, ghosts, Goto, Abort
<1> QED
  BY <1>1, <1>3, <1>4 DEF NetTypes

(* The attempt taken is the one that is registered, and later than the      *)
(* last.                                                                    *)
LEMMA TakeSetupStep ==
  ASSUME NetTypes, TakeSetup
  PROVE  /\ Same({"pc"})
         /\ pv.pc = "idle" /\ pv'.pc = "list" /\ taken' = live /\ live > taken
BY Fields DEF TakeSetup, Same, Goto, Abort

(* TakeSetup keeps the types.                                               *)
LEMMA TakeSetupTypes ==
  ASSUME NetTypes, TakeSetup
  PROVE  NetTypes'
<1>1. DockerType'
  BY NetworkAssumption, FaultType DEF NetTypes, DockerType, TakeSetup,
     docker, boxes, builds, sids, ghosts, Goto, Abort
<1>2. taken' # 0
  BY TakeSetupStep DEF NetTypes, DockerType
<1>3. PvType'
  BY TakeSetupStep, <1>2, Fields DEF NetTypes, DockerType, PvType, Same,
     ProvisionPC
<1>4. Flow'
  BY TakeSetupStep, <1>2, Fields DEF NetTypes, Flow, Same, Early, Starting,
     Underway, TakeSetup, docker, boxes, builds, sids, ghosts, Goto, Abort
<1> QED
  BY <1>1, <1>3, <1>4 DEF NetTypes

(* A started host is among the fresh ones, or recorded with them.           *)
LEMMA StartHostStep ==
  ASSUME NetTypes, StartHost
  PROVE  /\ Same({"order", "fresh", "rec"})
         /\ pv.pc = "start" /\ pv.order # <<>> /\ pv'.order = Tail(pv.order)
         /\ \/ pv'.rec = pv.rec /\ pv'.fresh = pv.fresh \cup {Me(Head(pv.order))}
            \/ /\ pv'.fresh = {}
               /\ pv'.rec = [pv.rec EXCEPT !.boxes = pv.rec.boxes \cup pv.fresh \cup {Me(Head(pv.order))}]
<1> DEFINE fresh == pv.fresh \cup {Me(Head(pv.order))}
<1>1. \/ pv' = [pv EXCEPT !.order = Tail(pv.order), !.fresh = fresh]
      \/ pv' = [pv EXCEPT !.order = Tail(pv.order), !.fresh = {},
                          !.rec = [pv.rec EXCEPT !.boxes = pv.rec.boxes \cup fresh]]
  BY Fields DEF StartHost
<1>2. pv.pc = "start" /\ pv.order # <<>>
  BY DEF StartHost
<1>3. [pv.rec EXCEPT !.boxes = pv.rec.boxes \cup fresh]
        = [pv.rec EXCEPT !.boxes = pv.rec.boxes \cup pv.fresh \cup {Me(Head(pv.order))}]
  OBVIOUS
<1> HIDE DEF fresh
<1>4. /\ Same({"order", "fresh", "rec"}) /\ pv'.order = Tail(pv.order)
      /\ \/ pv'.rec = pv.rec /\ pv'.fresh = fresh
         \/ pv'.fresh = {} /\ pv'.rec = [pv.rec EXCEPT !.boxes = pv.rec.boxes \cup fresh]
  BY <1>1, Fields DEF Same
<1> QED
  BY <1>2, <1>3, <1>4 DEF fresh

(* StartHost keeps the types.                                               *)
LEMMA StartHostTypes ==
  ASSUME NetTypes, StartHost
  PROVE  NetTypes'
<1>1. DockerType'
  <2>1. pv.pc = "start" /\ pv.order # <<>> /\ pv.order \in Seq(Names)
    BY DEF StartHost, NetTypes, PvType
  <2>2. Me(Head(pv.order)) \in Ids /\ pv.rec.of \in Attempts
    BY <2>1, MyType DEF Starting
  <2>3. box' = [box EXCEPT ![Head(pv.order)] = pv.rec.of]
    BY DEF StartHost
  <2>4. box' \in [Names -> 0..MaxAttempts]
    BY <2>1, <2>3, MyType DEF Starting, NetTypes, DockerType
  <2>5. joined' \subseteq Ids \X Attempts
    BY <2>2 DEF StartHost, NetTypes, DockerType
  <2> QED
    BY <2>4, <2>5 DEF NetTypes, DockerType, StartHost, builds, sids, ghosts
<1>5. /\ Same({"order", "fresh", "rec"})
      /\ pv.pc = "start" /\ pv.order # <<>> /\ pv'.order = Tail(pv.order)
      /\ \/ pv'.rec = pv.rec /\ pv'.fresh = pv.fresh \cup {Me(Head(pv.order))}
         \/ /\ pv'.fresh = {}
            /\ pv'.rec = [pv.rec EXCEPT !.boxes = pv.rec.boxes \cup pv.fresh \cup {Me(Head(pv.order))}]
  BY StartHostStep
<1>2. pv'.rec \in Record /\ pv'.rec.of = pv.rec.of /\ pv'.fresh \subseteq Ids /\ pv'.order \in Seq(Names)
  BY <1>5, MyType DEF Record, Starting, NetTypes, PvType
<1>3. PvType'
  BY <1>5, <1>2, Fields DEF NetTypes, DockerType, PvType, Same, ProvisionPC
<1>4. Flow'
  BY <1>5, <1>2, Fields DEF NetTypes, Flow, Same, Early, Starting, Underway,
     StartHost, docker, boxes, builds, sids, ghosts, Goto, Abort
<1> QED
  BY <1>1, <1>3, <1>4 DEF NetTypes

(* The router is recorded at once unless it must be connected first.        *)
LEMMA StartRouterStep ==
  ASSUME NetTypes, StartRouter
  PROVE  /\ Same({"fresh", "rec", "todo", "pc"})
         /\ pv.pc = "router"
         /\ \/ pv'.pc = "connect" /\ pv'.fresh = {Me(Router)} /\ pv'.rec = pv.rec /\ pv'.todo = pv.todo
            \/ /\ pv'.pc = "settle" /\ pv'.fresh = pv.fresh /\ pv'.todo = {Me(Router)}
               /\ pv'.rec = [pv.rec EXCEPT !.router = {Me(Router)}, !.mode = "router"]
BY Fields DEF StartRouter, Same, Goto, Abort

(* StartRouter keeps the types.                                             *)
LEMMA StartRouterTypes ==
  ASSUME NetTypes, StartRouter
  PROVE  NetTypes'
<1>1. DockerType'
  <2>1. box' = [box EXCEPT ![Router] = pv.rec.of] /\ pv.pc = "router"
    BY DEF StartRouter
  <2>2. box' \in [Names -> 0..MaxAttempts]
    BY <2>1, MyType DEF Starting, NetTypes, DockerType
  <2> QED
    BY <2>2 DEF NetTypes, DockerType, StartRouter, builds, sids, ghosts
<1>5. /\ Same({"fresh", "rec", "todo", "pc"})
      /\ pv.pc = "router"
      /\ \/ pv'.pc = "connect" /\ pv'.fresh = {Me(Router)} /\ pv'.rec = pv.rec /\ pv'.todo = pv.todo
         \/ /\ pv'.pc = "settle" /\ pv'.fresh = pv.fresh /\ pv'.todo = {Me(Router)}
            /\ pv'.rec = [pv.rec EXCEPT !.router = {Me(Router)}, !.mode = "router"]
  BY StartRouterStep
<1>2. pv'.rec \in Record /\ pv'.rec.of = pv.rec.of /\ pv'.fresh \subseteq Ids /\ pv'.todo \subseteq Ids
  BY ZenonT(30), <1>5, MyType DEF Record, Starting, Names, NetTypes, PvType
<1>3. PvType'
  BY ZenonT(30), <1>5, <1>2, Fields DEF NetTypes, DockerType, PvType, Same, ProvisionPC
<1>4. Flow'
  BY <1>5, <1>2, Fields DEF NetTypes, Flow, Same, Early, Starting, Underway,
     StartRouter, docker, boxes, builds, sids, ghosts, Goto, Abort
<1> QED
  BY <1>1, <1>3, <1>4 DEF NetTypes

(* A router that does not start is known, but not recorded.                 *)
LEMMA CannotStartRouterStep ==
  ASSUME NetTypes, CannotStartRouter
  PROVE  /\ Same({"fresh", "pc"})
         /\ pv.pc = "router" /\ pv'.pc = "abort" /\ pv'.fresh \in {pv.fresh, {Me(Router)}}
BY Fields DEF CannotStartRouter, Same, Goto, Abort

(* CannotStartRouter keeps the types.                                       *)
LEMMA CannotStartRouterTypes ==
  ASSUME NetTypes, CannotStartRouter
  PROVE  NetTypes'
<1>1. DockerType'
  <2>1. /\ pv.pc = "router"
        /\ \/ UNCHANGED <<box, dead>>
           \/ /\ box' = [box EXCEPT ![Router] = pv.rec.of]
              /\ dead' = dead \cup {Me(Router)}
    BY DEF CannotStartRouter
  <2>2. Me(Router) \in Ids
    BY <2>1, MyType DEF Starting
  <2>3. box' \in [Names -> 0..MaxAttempts] /\ dead' \subseteq Ids
    BY <2>1, <2>2, MyType DEF NetTypes, DockerType, Starting
  <2>4. faults' \in 0..prob.faults
    BY FaultType DEF CannotStartRouter
  <2> QED
    BY <2>3, <2>4 DEF NetTypes, DockerType, CannotStartRouter, builds, sids, ghosts
<1>2. pv'.fresh \subseteq Ids
  BY CannotStartRouterStep, MyType DEF Starting, Names, NetTypes, PvType
<1>3. PvType'
  BY CannotStartRouterStep, <1>2, Fields DEF NetTypes, DockerType, PvType,
     Same, ProvisionPC
<1>4. Flow'
  BY CannotStartRouterStep, <1>2, Fields DEF NetTypes, Flow, Same, Early,
     Starting, Underway, CannotStartRouter, docker, boxes, builds, sids,
     ghosts, Goto, Abort
<1> QED
  BY <1>1, <1>3, <1>4 DEF NetTypes

(* A connected router is recorded.                                          *)
LEMMA ConnectRouterStep ==
  ASSUME NetTypes, ConnectRouter
  PROVE  /\ Same({"fresh", "rec", "todo", "pc"})
         /\ pv.pc = "connect"
         /\ \/ pv'.pc = "abort" /\ pv'.fresh = pv.fresh /\ pv'.rec = pv.rec /\ pv'.todo = pv.todo
            \/ /\ pv'.pc = "settle" /\ pv'.fresh = {} /\ pv'.todo = {Me(Router)}
               /\ pv'.rec = [pv.rec EXCEPT !.router = {Me(Router)}, !.mode = "router"]
BY Fields DEF ConnectRouter, Same, Goto, Abort

(* ConnectRouter keeps the types.                                           *)
LEMMA ConnectRouterTypes ==
  ASSUME NetTypes, ConnectRouter
  PROVE  NetTypes'
<1>1. DockerType'
  <2>1. Me(Router) \in Ids /\ pv.rec.nets \subseteq Attempts
    BY MyType DEF Starting, Names, ConnectRouter, Record
  <2>2. joined' \subseteq Ids \X Attempts
    BY <2>1 DEF ConnectRouter, NetTypes, DockerType
  <2>3. faults' \in 0..prob.faults
    BY FaultType DEF ConnectRouter
  <2> QED
    BY <2>2, <2>3 DEF NetTypes, DockerType, ConnectRouter, boxes, builds, sids, ghosts
<1>2. pv'.rec \in Record /\ pv'.rec.of = pv.rec.of /\ pv'.fresh \subseteq Ids /\ pv'.todo \subseteq Ids
  BY ZenonT(30), ConnectRouterStep, MyType DEF Record, Starting, Names, NetTypes, PvType
<1>3. PvType'
  BY ZenonT(30), ConnectRouterStep, <1>2, Fields DEF NetTypes, DockerType, PvType, Same,
     ProvisionPC
<1>4. Flow'
  BY ConnectRouterStep, <1>2, Fields DEF NetTypes, Flow, Same, Early,
     Starting, Underway, ConnectRouter, docker, boxes, builds, sids, ghosts,
     Goto, Abort
<1> QED
  BY <1>1, <1>3, <1>4 DEF NetTypes

(* The clean-up is under way.                                               *)
LEMMA BeginAbortStep ==
  ASSUME NetTypes, BeginAbort
  PROVE  /\ Same({"pc"})
         /\ pv.pc = "abort" /\ pv'.pc = "aborting"
BY Fields DEF BeginAbort, Same, Goto, Abort

(* BeginAbort keeps the types.                                              *)
LEMMA BeginAbortTypes ==
  ASSUME NetTypes, BeginAbort
  PROVE  NetTypes'
<1>1. DockerType'
  <2>1. taken \in Attempts /\ pv.rec \in Record /\ pv.fresh \subseteq Ids
    BY NetworkAssumption DEF NetTypes, DockerType, PvType, Flow, Underway, Attempts, BeginAbort
  <2>2. CleanerOf("abort", taken, "disconnect", pv.rec) \in Cleaner
    BY <2>1 DEF CleanerOf, Cleaner
  <2>3. cleaners' \subseteq Cleaner /\ lost' \subseteq Ids \cup {NetId(n) : n \in Attempts}
    BY <2>1, <2>2 DEF BeginAbort, NetTypes, DockerType
  <2> QED
    BY <2>3 DEF NetTypes, DockerType, BeginAbort, docker, boxes, builds, sids
<1>3. PvType'
  BY BeginAbortStep, Fields DEF NetTypes, DockerType, PvType, Same,
     ProvisionPC
<1>4. Flow'
  BY BeginAbortStep, Fields DEF NetTypes, Flow, Same, Early, Starting,
     Underway, BeginAbort, docker, boxes, builds, sids, ghosts, Goto, Abort
<1> QED
  BY <1>1, <1>3, <1>4 DEF NetTypes

(* RemoveStaleNets keeps the types.                                         *)
LEMMA RemoveStaleNetsTypes ==
  ASSUME NetTypes, RemoveStaleNets
  PROVE  NetTypes'
<1>1. DockerType'
  <2>1. nets' \subseteq nets /\ lost' \subseteq lost \cup {NetId(n) : n \in nets}
    BY DEF RemoveStaleNets
  <2>2. faults' \in 0..prob.faults
    BY FaultType DEF RemoveStaleNets
  <2> QED
    BY <2>1, <2>2 DEF NetTypes, DockerType, RemoveStaleNets, boxes, builds, sids
<1>2. CASE pv.pc = "purge"
  <2>1. pv' = Quiet /\ UNCHANGED <<sids, prob>>
    BY <1>2 DEF RemoveStaleNets
  <2>2. PvType' /\ pv'.pc = "idle"
    BY <2>1, QuietType
  <2> QED
    BY <1>1, <2>1, <2>2 DEF NetTypes, Flow, Early, Starting, Underway, sids
<1>3. CASE pv.pc = "stale"
  <2>1. Same({"pc"}) /\ pv'.pc = "config" /\ UNCHANGED <<sids, prob>>
    BY <1>3, Fields DEF RemoveStaleNets, Same
  <2>2. PvType'
    BY <1>3, <2>1, Fields DEF NetTypes, PvType, Same, ProvisionPC
  <2>3. Flow'
    BY <1>3, <2>1, Fields DEF NetTypes, Flow, Same, Early, Starting, Underway, sids
  <2> QED
    BY <1>1, <2>2, <2>3 DEF NetTypes
<1> QED
  BY <1>2, <1>3 DEF RemoveStaleNets

(* Publish keeps the types.                                                 *)
LEMMA PublishTypes ==
  ASSUME NetTypes, Publish
  PROVE  NetTypes'
<1>1. DockerType'
  BY Fields DEF NetTypes, DockerType, PvType, Publish, docker, boxes, builds, sids
<1>2. pv' = Quiet /\ UNCHANGED <<sids, prob>>
  BY DEF Publish
<1>3. PvType' /\ pv'.pc = "idle"
  BY <1>2, QuietType
<1> QED
  BY <1>1, <1>2, <1>3 DEF NetTypes, Flow, Early, Starting, Underway, sids

(* A release begins for an attempt that is registered.                      *)
LEMMA ReleaseType ==
  ASSUME NetTypes, NEW by \in {"release", "abort"}, live # 0, BeginRelease(by)
  PROVE  cleaners' \subseteq Cleaner /\ live' = 0
<1>1. live \in Attempts
  BY NetworkAssumption DEF NetTypes, DockerType, Attempts
<1>2. NoRecord \in Record
  BY NetworkAssumption DEF NoRecord, Record
<1>3. CleanerOf(by, live, "pop", NoRecord) \in Cleaner
  BY <1>1, <1>2 DEF CleanerOf, Cleaner
<1> QED
  BY <1>3 DEF BeginRelease, NetTypes, DockerType

(* FailAttempt keeps the types.                                             *)
LEMMA FailAttemptTypes ==
  ASSUME NetTypes, FailAttempt
  PROVE  NetTypes'
<1>1. pv.pc = "aborting" /\ UNCHANGED <<docker, builds, resources, attempts, taken, prob, faults, lost>>
  BY DEF FailAttempt
<1>2. 0 \in 0..MaxAttempts /\ attempts \in Nat
  BY NetworkAssumption DEF NetTypes, DockerType
<1>3. CASE live = 0
  <2>1. pv' = Quiet /\ UNCHANGED <<live, cleaners>>
    BY <1>3 DEF FailAttempt
  <2>2. PvType' /\ pv'.pc = "idle"
    BY <2>1, QuietType
  <2>3. DockerType'
    BY <1>1, <2>1 DEF NetTypes, DockerType, docker, boxes, builds
  <2> QED
    BY <1>1, <2>1, <2>2, <2>3 DEF NetTypes, Flow, Early, Starting, Underway
<1>4. CASE live # 0
  <2>1. Same({"pc"}) /\ pv'.pc = "failed"
    BY <1>4, GotoSame DEF FailAttempt
  <2>2. cleaners' \subseteq Cleaner /\ live' = 0
    BY <1>4, ReleaseType DEF FailAttempt
  <2>3. DockerType'
    BY <1>1, <1>2, <2>2 DEF NetTypes, DockerType, docker, boxes, builds
  <2>4. PvType'
    BY <1>1, <2>1, Fields DEF NetTypes, PvType, Same, ProvisionPC
  <2>5. Flow'
    BY <1>1, <1>2, <2>1, <2>2 DEF NetTypes, Flow, Early, Starting, Underway
  <2> QED
    BY <2>3, <2>4, <2>5 DEF NetTypes
<1> QED
  BY <1>3, <1>4

(* EndFailure keeps the types.                                              *)
LEMMA EndFailureTypes ==
  ASSUME NetTypes, EndFailure
  PROVE  NetTypes'
<1>1. pv' = Quiet /\ UNCHANGED <<docker, builds, resources, sids, cleaners, prob, faults, ghosts>>
  BY DEF EndFailure
<1>2. PvType' /\ pv'.pc = "idle"
  BY <1>1, QuietType
<1>3. DockerType'
  BY <1>1 DEF NetTypes, DockerType, docker, boxes, builds, sids, ghosts
<1> QED
  BY <1>1, <1>2, <1>3 DEF NetTypes, Flow, Early, Starting, Underway, sids

-----------------------------------------------------------------------------
(* What a cleaner's record and containers are.                              *)
LEMMA CleanerType ==
  ASSUME NetTypes, NEW c \in cleaners
  PROVE  /\ c \in Cleaner /\ c.res \in Record /\ c.res.nets \subseteq Attempts
         /\ IdsOf(c.res) \subseteq Ids /\ c.todo \subseteq Ids
<1>1. c \in Cleaner
  BY DEF NetTypes, DockerType
<1>2. c.res \in Record /\ c.todo \subseteq Ids
  BY <1>1 DEF Cleaner
<1> QED
  BY <1>1, <1>2 DEF Record, IdsOf

(* The steps that leave provisioning and the attempts alone keep their part.*)
LEMMA AsidePv ==
  ASSUME NetTypes, UNCHANGED <<pv, sids>>
  PROVE  PvType' /\ Flow'
BY DEF NetTypes, PvType, Flow, sids

(* Pop keeps the types.                                                     *)
LEMMA PopTypes ==
  ASSUME NetTypes, NEW c \in cleaners, Pop(c)
  PROVE  NetTypes'
<1>1. NoRecord \in Record
  BY NetworkAssumption DEF NoRecord, Record
<1>2. [c EXCEPT !.res = resources, !.pc = "disconnect"] \in Cleaner
  BY CleanerType DEF Cleaner, NetTypes, DockerType
<1>3. cleaners' \subseteq Cleaner
  BY <1>2 DEF Pop, Replace, NetTypes, DockerType
<1>4. DockerType'
  BY <1>1, <1>3 DEF NetTypes, DockerType, Pop, TakeRecord, docker, boxes, builds, sids
<1> QED
  BY <1>4, AsidePv DEF Pop, NetTypes

(* Disconnect keeps the types.                                              *)
LEMMA DisconnectTypes ==
  ASSUME NetTypes, NEW c \in cleaners, Disconnect(c)
  PROVE  NetTypes'
<1>1. [c EXCEPT !.pc = "stop"] \in Cleaner
  BY CleanerType DEF Cleaner
<1>2. cleaners' \subseteq Cleaner
  BY <1>1 DEF Disconnect, Replace, NetTypes, DockerType
<1>3. DockerType'
  BY <1>2 DEF NetTypes, DockerType, Disconnect, boxes, builds, sids, ghosts
<1> QED
  BY <1>3, AsidePv DEF Disconnect, NetTypes

(* StopBoxes keeps the types.                                               *)
LEMMA StopBoxesTypes ==
  ASSUME NetTypes, NEW c \in cleaners, StopBoxes(c)
  PROVE  NetTypes'
<1>1. [c EXCEPT !.todo = IdsOf(c.res), !.pc = "remove"] \in Cleaner
  BY CleanerType DEF Cleaner
<1>2. cleaners' \subseteq Cleaner
  BY <1>1 DEF StopBoxes, Replace, NetTypes, DockerType
<1>3. up' \subseteq Ids /\ dead' \subseteq Ids
  BY CleanerType DEF StopBoxes, NetTypes, DockerType
<1>4. DockerType'
  BY <1>2, <1>3 DEF NetTypes, DockerType, StopBoxes, builds, sids, ghosts
<1> QED
  BY <1>4, AsidePv DEF StopBoxes, NetTypes

(* RemoveBox keeps the types.                                               *)
LEMMA RemoveBoxTypes ==
  ASSUME NetTypes, NEW c \in cleaners, RemoveBox(c)
  PROVE  NetTypes'
<1>1. PICK id \in c.todo :
        /\ Replace(c, [c EXCEPT !.todo = c.todo \ {id}])
        /\ \/ RemoveBoxes({id}) /\ UNCHANGED <<faults, lost>>
           \/ NetFault /\ lost' = lost \cup {id} /\ UNCHANGED <<boxes, joined>>
  BY DEF RemoveBox, Doomed
<1>2. [c EXCEPT !.todo = c.todo \ {id}] \in Cleaner /\ id \in Ids
  BY CleanerType DEF Cleaner
<1>3. cleaners' \subseteq Cleaner
  BY <1>1, <1>2 DEF Replace, NetTypes, DockerType
<1>4. /\ box' \in [Names -> 0..MaxAttempts] /\ up' \subseteq Ids /\ dead' \subseteq Ids
      /\ joined' \subseteq Ids \X Attempts
  BY <1>1, RemoveType DEF boxes, NetTypes, DockerType
<1>5. lost' \subseteq Ids \cup {NetId(n) : n \in Attempts} /\ faults' \in 0..prob.faults
  BY <1>1, <1>2, FaultType DEF NetTypes, DockerType
<1>6. DockerType'
  BY <1>3, <1>4, <1>5 DEF NetTypes, DockerType, RemoveBox, builds, sids
<1> QED
  BY <1>6, AsidePv DEF RemoveBox, NetTypes

(* BoxesRemoved keeps the types.                                            *)
LEMMA BoxesRemovedTypes ==
  ASSUME NetTypes, NEW c \in cleaners, BoxesRemoved(c)
  PROVE  NetTypes'
<1>1. [c EXCEPT !.pc = "nets"] \in Cleaner
  BY CleanerType DEF Cleaner
<1>2. cleaners' \subseteq Cleaner
  BY <1>1 DEF BoxesRemoved, Replace, NetTypes, DockerType
<1>3. DockerType'
  BY <1>2 DEF NetTypes, DockerType, BoxesRemoved, docker, boxes, builds, sids, ghosts
<1> QED
  BY <1>3, AsidePv DEF BoxesRemoved, NetTypes

(* RemoveNetwork keeps the types.                                           *)
LEMMA RemoveNetworkTypes ==
  ASSUME NetTypes, NEW c \in cleaners, RemoveNetwork(c)
  PROVE  NetTypes'
<1>1. DockerType'
  BY DEF NetTypes, DockerType, RemoveNetwork, boxes, builds, sids, ghosts
<1> QED
  BY <1>1, AsidePv DEF RemoveNetwork, NetTypes

(* NetworkStays keeps the types.                                            *)
LEMMA NetworkStaysTypes ==
  ASSUME NetTypes, NEW c \in cleaners, NetworkStays(c)
  PROVE  NetTypes'
<1>1. c \in Cleaner /\ c.tries \in 0..2
  BY CleanerType DEF Cleaner
<1>2. CASE LastTry(c)
  <2>1. cleaners' \subseteq Cleaner
    BY <1>2 DEF NetworkStays, NetTypes, DockerType
  <2> QED
    BY <2>1, AsidePv, FaultType DEF NetworkStays, NetTypes, DockerType, docker, boxes, builds, sids, ghosts
<1>3. CASE ~LastTry(c)
  <2>1. [c EXCEPT !.tries = c.tries - 1] \in Cleaner
    BY <1>1, <1>3 DEF Cleaner, LastTry
  <2>2. cleaners' \subseteq Cleaner
    BY <1>3, <2>1 DEF NetworkStays, Replace, NetTypes, DockerType
  <2> QED
    BY <2>2, AsidePv, FaultType DEF NetworkStays, NetTypes, DockerType, docker, boxes, builds, sids, ghosts
<1> QED
  BY <1>2, <1>3

-----------------------------------------------------------------------------
(* The submissions, Docker and the course staff.                            *)
LEMMA OthersTypes ==
  ASSUME NetTypes,
         \/ Accept \/ Complete \/ UpdateDockerfiles \/ Restart \/ RunEntrypoint
         \/ \E id \in Ids : BoxRuns(id) \/ BoxDies(id)
  PROVE  NetTypes'
<1>1. /\ {live, attempts, taken} \subseteq Nat /\ taken <= attempts /\ live <= attempts
      /\ 0 \in 0..MaxAttempts
  BY NetworkAssumption DEF NetTypes, DockerType, Flow
<1>2. CASE Accept
  <2>1. attempts + 1 \in 0..MaxAttempts
    BY <1>1, <1>2, NetworkAssumption DEF Accept
  <2>2. DockerType'
    BY <1>2, <2>1 DEF NetTypes, DockerType, Accept, docker, boxes, builds, ghosts
  <2>3. PvType'
    BY <1>2 DEF Accept, NetTypes, PvType
  <2>4. Flow'
    BY <1>1, <1>2 DEF Accept, NetTypes, Flow
  <2> QED
    BY <2>2, <2>3, <2>4 DEF NetTypes
<1>3. CASE Complete
  <2>1. cleaners' \subseteq Cleaner /\ live' = 0
    BY <1>3, ReleaseType DEF Complete
  <2>2. DockerType'
    BY <1>1, <1>3, <2>1, FaultType DEF NetTypes, DockerType, Complete, docker, boxes, builds
  <2>3. PvType'
    BY <1>3 DEF Complete, NetTypes, PvType
  <2>4. Flow'
    BY <1>1, <1>3, <2>1 DEF Complete, NetTypes, Flow
  <2> QED
    BY <2>2, <2>3, <2>4 DEF NetTypes
<1>4. CASE UpdateDockerfiles
  <2>1. dockerfiles' \in Versions
    BY <1>4, NetworkAssumption DEF UpdateDockerfiles, NetTypes, DockerType, Versions
  <2> QED
    BY <1>4, <2>1, AsidePv DEF UpdateDockerfiles, NetTypes, DockerType, docker, boxes, sids, ghosts
<1>5. CASE Restart
  <2>1. PvType' /\ pv'.pc = "startup"
    BY <1>5, QuietType DEF Restart
  <2>2. NoRecord \in Record
    BY NetworkAssumption DEF NoRecord, Record
  <2>3. DockerType'
    BY <1>1, <1>5, <2>2, FaultType DEF Restart, NetTypes, DockerType, docker, boxes, builds, ghosts
  <2>4. Flow'
    BY <1>1, <1>5, <2>1 DEF Restart, Flow, Early, Starting, Underway
  <2> QED
    BY <2>1, <2>3, <2>4 DEF NetTypes
<1>6. CASE RunEntrypoint
  BY <1>6, AsidePv DEF RunEntrypoint, NetTypes, DockerType, boxes, builds, sids, ghosts
<1>7. ASSUME NEW id \in Ids, BoxRuns(id) \/ BoxDies(id) PROVE NetTypes'
  BY <1>7, AsidePv, FaultType DEF BoxRuns, BoxDies, NetTypes, DockerType, builds, sids, ghosts
<1> QED
  BY <1>2, <1>3, <1>4, <1>5, <1>6, <1>7

-----------------------------------------------------------------------------
(* Every step keeps the types.                                              *)
LEMMA NextNetTypes == NetTypes /\ [Next]_nvars => NetTypes'
<1> SUFFICES ASSUME NetTypes, [Next]_nvars PROVE NetTypes'
  OBVIOUS
<1>1. CASE UNCHANGED nvars
  BY <1>1 DEF nvars, docker, boxes, builds, sids, ghosts, NetTypes, DockerType, PvType, Flow
<1>2. CASE Provision
  BY <1>2, ListStaleTypes, RemoveStaleTypes, RemoveStaleNetsTypes,
     ReadConfigTypes, FindDockerfilesTypes, BuildImageTypes,
     ImagesBuiltTypes, DecideTopologyTypes, CreateNetworkTypes,
     StartHostTypes, CannotStartHostTypes, HostCreatedOnlyTypes,
     HostsStartedTypes, WaitForTypes, WaitTimesOutTypes,
     CollectAddressesTypes, StartRouterTypes, CannotStartRouterTypes,
     ConnectRouterTypes, SettleTypes, AllRunningTypes, PublishTypes,
     BeginAbortTypes, FailAttemptTypes, EndFailureTypes, TakeSetupTypes DEF
     Provision
<1>3. CASE CleanUps
  BY <1>3, PopTypes, DisconnectTypes, StopBoxesTypes, RemoveBoxTypes, BoxesRemovedTypes, RemoveNetworkTypes,
     NetworkStaysTypes DEF CleanUps, CleanUp
<1> QED
  BY <1>1, <1>2, <1>3, OthersTypes DEF Next, Containers, NetIdle

(* The initial state is well typed.                                         *)
LEMMA InitNetTypes == Init => NetTypes
<1> SUFFICES ASSUME Init PROVE NetTypes
  OBVIOUS
<1>1. NoRecord \in Record /\ NoConfig \in Config /\ Len(NoConfig.sidecars) = 0
  BY NetworkAssumption DEF NoRecord, Record, NoConfig, Config
<1>2. /\ {0} \subseteq 0..MaxAttempts /\ 0 \in 0..MaxVersion /\ 1 \in Versions
      /\ 0 <= MaxSidecars /\ <<>> \in Seq(Names)
  BY NetworkAssumption DEF Versions
<1>3. faults \in 0..prob.faults
  BY NetworkAssumption DEF Init, Problem
<1>4. DockerType
  BY <1>1, <1>2, <1>3 DEF Init, DockerType
<1>5. PvType
  BY <1>1, <1>2 DEF Init, Quiet, PvType, ProvisionPC
<1>6. Flow
  BY DEF Init, Quiet, Flow, Early, Starting, Underway
<1> QED
  BY <1>4, <1>5, <1>6 DEF NetTypes

(* Every variable of the controller keeps its type, whatever fails.         *)
THEOREM NetworkTyping == Spec => []TypeOK
<1>1. Init => NetTypes
  BY InitNetTypes
<1>2. NetTypes /\ [Next]_nvars => NetTypes'
  BY NextNetTypes
<1>3. NetTypes => TypeOK
  BY PartsTyped
<1> QED
  BY <1>1, <1>2, <1>3, PTL DEF Spec

-----------------------------------------------------------------------------
(* Removing containers removes those and no others.                         *)
LEMMA RemoveLive ==
  ASSUME NEW ids, RemoveBoxes(ids)
  PROVE  NetLive' = NetLive \ ids
<1>1. \A id \in Ids : id[1] \in Names /\ id[2] # 0 /\ id = <<id[1], id[2]>>
  BY DEF Ids, Attempts
<1>2. ASSUME NEW id \in Ids
      PROVE  (box'[id[1]] = id[2]) <=> (box[id[1]] = id[2] /\ id \notin ids)
  <2>1. box'[id[1]] = IF <<id[1], box[id[1]]>> \in ids THEN 0 ELSE box[id[1]]
    BY <1>1 DEF RemoveBoxes
  <2> QED
    BY <1>1, <2>1
<1> QED
  BY <1>2 DEF NetLive, Exists

(* Where a container's name is given out, nothing else is lost.             *)
LEMMA CreateLive ==
  ASSUME NetTypes, NEW n \in Names, NEW k \in Attempts, box[n] = 0,
         box' = [box EXCEPT ![n] = k]
  PROVE  NetLive' = NetLive \cup {<<n, k>>}
<1>1. \A id \in Ids : id[1] \in Names /\ id[2] # 0 /\ id = <<id[1], id[2]>>
  BY DEF Ids, Attempts
<1>2. <<n, k>> \in Ids
  BY DEF Ids
<1>3. \A m \in Names : box'[m] = IF m = n THEN k ELSE box[m]
  BY DEF NetTypes, DockerType
<1>4. ASSUME NEW id \in Ids
      PROVE  (box'[id[1]] = id[2]) <=> (box[id[1]] = id[2] \/ id = <<n, k>>)
  BY <1>1, <1>3
<1> QED
  BY <1>2, <1>4 DEF NetLive, Exists

(* The containers there are depend on the names taken only.                 *)
LEMMA SameLive ==
  ASSUME UNCHANGED box
  PROVE  NetLive' = NetLive
BY DEF NetLive, Exists

-----------------------------------------------------------------------------
(* A step outside provisioning: containers only go.                         *)
LEMMA AsideCleared ==
  ASSUME Cleared, UNCHANGED pv, NetLive' \subseteq NetLive
  PROVE  Cleared'
BY DEF Cleared

(* A step of provisioning that neither lists nor starts containers.         *)
LEMMA MoveCleared ==
  ASSUME NetTypes, Cleared, UNCHANGED box, pv'.missed = pv.missed,
         \/ pv'.pc \notin (Early \cup {"network"}) \ {"list"}
         \/ pv.pc \in (Early \ {"list", "stale"}) \cup {"network"} /\ pv'.pc # "stale"
  PROVE  Cleared'
<1>1. NetLive' = NetLive
  BY SameLive
<1> QED
  BY <1>1 DEF Cleared, Early

(* Provisioning lists what is left, removes what it listed, and then starts *)
(* its own.                                                                 *)
LEMMA ProvisionCleared ==
  ASSUME NetTypes, Cleared, Provision
  PROVE  Cleared'
<1>1. CASE ListStale
  <2>1. CASE pv.pc = "startup"
    BY <1>1, <2>1, ListStaleStep DEF Cleared, Early
  <2>2. CASE pv.pc = "list"
    <3>1. NetLive' = NetLive /\ pv'.pc = "stale"
      BY <1>1, <2>2, ListStaleStep, SameLive DEF ListStale, docker, boxes
    <3>2. pv'.missed \/ pv'.todo = {id \in NetLive : StaleName(id[1])}
      BY <1>1, Fields DEF ListStale
    <3>3. \A n : StaleName(n) <=> ~IsEnv(n)
      BY <2>2 DEF StaleName
    <3> QED
      BY <3>1, <3>2, <3>3 DEF Cleared, Early
  <2> QED
    BY <1>1, <2>1, <2>2, ListStaleStep
<1>2. CASE RemoveStale
  <2>1. PICK id \in pv.todo :
          \/ RemoveBoxes({id}) /\ pv' = [pv EXCEPT !.todo = pv.todo \ {id}]
          \/ UNCHANGED box /\ pv' = [pv EXCEPT !.todo = pv.todo \ {id}, !.missed = TRUE]
    BY <1>2 DEF RemoveStale, boxes
  <2>2. pv'.pc = pv.pc /\ pv.pc \in {"purge", "stale"} /\ pv'.todo = pv.todo \ {id}
    BY <1>2, <2>1, Fields DEF RemoveStale
  <2>3. CASE RemoveBoxes({id}) /\ pv' = [pv EXCEPT !.todo = pv.todo \ {id}]
    <3>1. NetLive' = NetLive \ {id} /\ pv'.missed = pv.missed
      BY <2>3, RemoveLive, Fields
    <3> QED
      BY <2>2, <3>1 DEF Cleared, Early
  <2>4. CASE pv' = [pv EXCEPT !.todo = pv.todo \ {id}, !.missed = TRUE]
    BY <2>4, Fields DEF Cleared
  <2> QED
    BY <2>1, <2>3, <2>4
<1>3. CASE RemoveStaleNets
  <2>1. NetLive' = NetLive /\ pv.todo = {}
    BY <1>3, SameLive DEF RemoveStaleNets, boxes
  <2>2. CASE pv.pc = "purge"
    BY <1>3, <2>2 DEF RemoveStaleNets, Quiet, Cleared, Early
  <2>3. CASE pv.pc = "stale"
    <3>1. pv'.pc = "config" /\ pv'.missed = pv.missed
      BY <1>3, <2>3, Fields DEF RemoveStaleNets
    <3> QED
      BY <2>1, <2>3, <3>1 DEF Cleared, Early
  <2> QED
    BY <1>3, <2>2, <2>3 DEF RemoveStaleNets
<1>4. CASE ReadConfig
  BY <1>4, ReadConfigStep, MoveCleared, Fields DEF ReadConfig, Same, docker,
     boxes, Early
<1>5. CASE FindDockerfiles
  BY <1>5, FindDockerfilesStep, MoveCleared, Fields DEF FindDockerfiles,
     Same, docker, boxes, Early
<1>6. CASE BuildImage
  BY <1>6, BuildImageStep, MoveCleared, Fields DEF BuildImage, Same, docker,
     boxes, Early
<1>7. CASE ImagesBuilt
  BY <1>7, ImagesBuiltStep, MoveCleared, Fields DEF ImagesBuilt, Same,
     docker, boxes, Early
<1>8. CASE DecideTopology
  BY <1>8, DecideTopologyStep, MoveCleared, Fields DEF DecideTopology, Same,
     docker, boxes, Early
<1>9. CASE CreateNetwork
  BY <1>9, CreateNetworkStep, MoveCleared, Fields DEF CreateNetwork, Same,
     docker, boxes, Early
<1>10. CASE StartHost
  BY <1>10, StartHostStep, Fields DEF Same, Cleared, Early
<1>11. CASE CannotStartHost
  BY <1>11, CannotStartHostStep, MoveCleared, Fields DEF CannotStartHost,
     Same, docker, boxes, Early
<1>12. CASE HostCreatedOnly
  BY <1>12, HostCreatedOnlyStep, Fields DEF Same, Cleared, Early
<1>13. CASE HostsStarted
  BY <1>13, HostsStartedStep, MoveCleared, Fields DEF HostsStarted, Same,
     docker, boxes, Early
<1>14. CASE WaitFor
  BY <1>14, WaitForStep, MoveCleared, Fields DEF WaitFor, Same, docker,
     boxes, Early
<1>15. CASE WaitTimesOut
  BY <1>15, WaitTimesOutStep, MoveCleared, Fields DEF WaitTimesOut, Same,
     docker, boxes, Early
<1>16. CASE CollectAddresses
  BY <1>16, CollectAddressesStep, Fields DEF Same, Cleared, Early
<1>17. CASE StartRouter
  BY <1>17, StartRouterStep, Fields DEF Same, Cleared, Early
<1>18. CASE CannotStartRouter
  BY <1>18, CannotStartRouterStep, Fields DEF Same, Cleared, Early
<1>19. CASE ConnectRouter
  BY <1>19, ConnectRouterStep, MoveCleared, Fields DEF ConnectRouter, Same,
     docker, boxes, Early
<1>20. CASE Settle
  BY <1>20, SettleStep, MoveCleared, Fields DEF Settle, Same, docker, boxes,
     Early
<1>21. CASE AllRunning
  BY <1>21, AllRunningStep, MoveCleared, Fields DEF AllRunning, Same,
     docker, boxes, Early
<1>22. CASE Publish
  BY <1>22 DEF Publish, Quiet, Cleared, Early
<1>23. CASE BeginAbort
  BY <1>23, BeginAbortStep, MoveCleared, Fields DEF BeginAbort, Same,
     docker, boxes, Early
<1>24. CASE FailAttempt
  BY <1>24, Fields DEF FailAttempt, Goto, Quiet, Cleared, Early
<1>25. CASE EndFailure
  BY <1>25 DEF EndFailure, Quiet, Cleared, Early
<1>26. CASE TakeSetup
  BY <1>26, TakeSetupStep, MoveCleared, Fields DEF TakeSetup, Same, docker,
     boxes, Early
<1> QED
  BY <1>1, <1>2, <1>3, <1>4, <1>5, <1>6, <1>7, <1>8, <1>9, <1>10, <1>11,
     <1>12, <1>13, <1>14, <1>15, <1>16, <1>17, <1>18, <1>19, <1>20, <1>21,
     <1>22, <1>23, <1>24, <1>25, <1>26 DEF Provision

(* Whatever an earlier attempt left is gone before the next one starts      *)
(* anything: a container only comes where provisioning starts it, and those *)
(* with names to be cleaned were listed and removed.                        *)
THEOREM FreeNames == Spec => []RetryFindsRoom
<1> DEFINE Inv == NetTypes /\ Cleared
<1>1. Init => Inv
  BY InitNetTypes DEF Init, Quiet, Cleared, Early
<1>2. Inv /\ [Next]_nvars => Inv'
  <2> SUFFICES ASSUME NetTypes, Cleared, [Next]_nvars PROVE Cleared'
    BY NextNetTypes
  <2>1. CASE Provision
    BY <2>1, ProvisionCleared
  <2>2. ASSUME NEW c \in cleaners, RemoveBox(c) PROVE Cleared'
    <3>1. UNCHANGED box \/ \E id : RemoveBoxes({id})
      BY <2>2 DEF RemoveBox, Doomed, boxes
    <3>2. NetLive' \subseteq NetLive
      BY <3>1, RemoveLive, SameLive
    <3> QED
      BY <2>2, <3>2, AsideCleared DEF RemoveBox
  <2>3. CASE Restart
    BY <2>3 DEF Restart, Quiet, Cleared, Early
  <2>4. CASE UNCHANGED <<pv, box>>
    BY <2>4, SameLive, AsideCleared
  <2>5. ASSUME NEW c \in cleaners, CleanUp(c), ~RemoveBox(c) PROVE UNCHANGED <<pv, box>>
    BY <2>5 DEF CleanUp, Pop, Disconnect, StopBoxes, BoxesRemoved, RemoveNetwork,
       NetworkStays, docker, boxes
  <2>6. CASE \/ Accept \/ Complete \/ UpdateDockerfiles \/ NetIdle \/ UNCHANGED nvars
             \/ RunEntrypoint \/ \E id \in Ids : BoxRuns(id) \/ BoxDies(id)
    BY <2>4, <2>6 DEF Accept, Complete, UpdateDockerfiles, NetIdle, RunEntrypoint, BoxRuns,
       BoxDies, nvars, docker, boxes
  <2> QED
    BY <2>1, <2>2, <2>3, <2>4, <2>5, <2>6 DEF Next, CleanUps, Containers
<1>3. Inv => RetryFindsRoom
  BY DEF Cleared, RetryFindsRoom, Early
<1> QED
  BY <1>1, <1>2, <1>3, PTL DEF Spec

-----------------------------------------------------------------------------
(* A step of provisioning that leaves the records and the attempts alone.   *)
LEMMA OwnStep ==
  ASSUME NetTypes, Own, UNCHANGED <<resources, cleaners, sids>>, pv'.pc # "idle",
         pv'.pc \in Underway => pv.pc \in Underway,
         pv'.pc \in Starting \cup {"abort"} =>
            Of(pv'.rec) \subseteq {taken} /\ \A id \in pv'.fresh : id[2] = taken,
         pv'.pc \in Starting => /\ IdsOf(pv'.rec) \cup pv'.fresh \subseteq NetLive'
                                /\ pv'.rec.nets \subseteq nets'
  PROVE  Own'
<1>1. ~Judging'
  BY DEF Judging
<1>2. \A r : Earlier(r) => Earlier(r)'
  BY DEF Earlier, sids
<1> QED
  BY <1>1, <1>2 DEF Own, sids

(* The same with the record and the containers as they were.                *)
LEMMA OwnMove ==
  ASSUME NetTypes, Own, UNCHANGED <<resources, cleaners, sids, box, nets>>, pv'.pc # "idle",
         pv'.pc \in Underway => pv.pc \in Underway,
         pv'.pc \in Starting \cup {"abort"} => pv.pc \in Starting \cup {"abort"},
         pv'.pc \in Starting => pv.pc \in Starting,
         IdsOf(pv'.rec) = IdsOf(pv.rec), pv'.rec.nets = pv.rec.nets, pv'.fresh = pv.fresh
  PROVE  Own'
<1>1. NetLive' = NetLive /\ Of(pv'.rec) = Of(pv.rec)
  BY SameLive DEF Of
<1>2. pv'.pc \in Starting \cup {"abort"} =>
            Of(pv'.rec) \subseteq {taken} /\ \A id \in pv'.fresh : id[2] = taken
  BY <1>1 DEF Own
<1>3. pv'.pc \in Starting => /\ IdsOf(pv'.rec) \cup pv'.fresh \subseteq NetLive'
                             /\ pv'.rec.nets \subseteq nets'
  BY <1>1 DEF Own
<1> QED
  BY <1>2, <1>3, OwnStep

(* A step of a clean-up, which works on nothing but its own record.         *)
LEMMA OwnCleaner ==
  ASSUME NetTypes, Own, UNCHANGED <<pv, sids, resources, overtaken>>,
         NEW c \in cleaners, NEW d, cleaners' \subseteq cleaners \cup {d},
         d.res = c.res, d.todo \subseteq IdsOf(c.res), d.att = c.att, d.pc # "pop",
         NetLive \ IdsOf(c.res) \subseteq NetLive', nets \ c.res.nets \subseteq nets'
  PROVE  Own'
<1>1. \A r : Earlier(r) => Earlier(r)'
  BY DEF Earlier, sids
<1>2. \A e \in cleaners' : /\ Earlier(e.res)' /\ e.todo \subseteq IdsOf(e.res)
                           /\ e.att <= attempts /\ (e.pc = "pop" => e.todo = {} /\ e.att # live)
  BY <1>1 DEF Own
<1>3. (\A id \in IdsOf(c.res) : id[2] \in Of(c.res)) /\ c.res.nets \subseteq Of(c.res)
  BY DEF Of
<1>4. ASSUME pv.pc \in Starting
      PROVE  IdsOf(pv.rec) \cup pv.fresh \subseteq NetLive' /\ pv.rec.nets \subseteq nets'
  <2>1. taken \notin Of(c.res)
    BY <1>4 DEF Own, Earlier, Underway
  <2>2. /\ \A id \in IdsOf(pv.rec) \cup pv.fresh : id[2] = taken
        /\ \A k \in pv.rec.nets : k = taken
        /\ IdsOf(pv.rec) \cup pv.fresh \subseteq NetLive /\ pv.rec.nets \subseteq nets
    BY <1>4 DEF Own, Of
  <2> QED
    BY <1>3, <2>1, <2>2
<1>5. ASSUME Judging, ~overtaken
      PROVE  /\ resources.of = taken /\ Of(resources) \subseteq {taken}
             /\ IdsOf(resources) \subseteq NetLive' /\ resources.nets \subseteq nets'
             /\ \A e \in cleaners' : taken \notin Of(e.res)
  <2>1. taken \notin Of(c.res)
    BY <1>5 DEF Own
  <2>2. /\ \A id \in IdsOf(resources) : id[2] = taken
        /\ \A k \in resources.nets : k = taken
        /\ IdsOf(resources) \subseteq NetLive /\ resources.nets \subseteq nets
    BY <1>5 DEF Own, Of
  <2>3. \A e \in cleaners' : taken \notin Of(e.res)
    BY <1>5, <2>1 DEF Own
  <2> QED
    BY <1>3, <1>5, <2>1, <2>2, <2>3 DEF Own
<1>6. Judging' <=> Judging
  BY DEF Judging, sids
<1> QED
  BY <1>1, <1>2, <1>4, <1>5, <1>6 DEF Own, sids

(* A clean-up removes what its record names, which is never the network of  *)
(* the attempt that runs.                                                   *)
LEMMA CleanUpOwn ==
  ASSUME NetTypes, Own, NEW c \in cleaners, CleanUp(c)
  PROVE  Own'
<1>1. c \in Cleaner /\ c.res \in Record
  BY CleanerType
<1>2. c.todo \subseteq IdsOf(c.res)
  BY DEF Own
<1>3. CASE Pop(c)
  <2> DEFINE d == [c EXCEPT !.res = resources, !.pc = "disconnect"]
  <2>1. /\ c.pc = "pop" /\ resources' = NoRecord /\ cleaners' = (cleaners \ {c}) \cup {d}
        /\ UNCHANGED <<docker, sids, pv>>
        /\ overtaken' = (overtaken \/ resources.of \notin {0, c.att})
    BY <1>3 DEF Pop, TakeRecord, Replace
  <2>2. d.res = resources /\ d.pc = "disconnect" /\ d.att = c.att /\ d.todo = c.todo
    BY <1>1 DEF Cleaner
  <2>3. c.todo = {}
    BY <2>1 DEF Own
  <2>4. Of(NoRecord) = {}
    BY DEF NoRecord, Of, IdsOf
  <2>5. \A r : Earlier(r) => Earlier(r)'
    BY <2>1 DEF Earlier, sids
  <2>6. Earlier(NoRecord)'
    BY <2>4 DEF Earlier
  <2>7. \A e \in cleaners' : /\ Earlier(e.res)' /\ e.todo \subseteq IdsOf(e.res)
                             /\ e.att <= attempts /\ (e.pc = "pop" => e.todo = {} /\ e.att # live)
    BY <2>1, <2>2, <2>3, <2>5 DEF Own
  <2>8. NetLive' = NetLive
    BY <2>1, SameLive DEF docker, boxes
  <2>9. ~(Judging /\ ~overtaken)'
    BY <2>1 DEF Own, Judging, sids
  <2> HIDE DEF d
  <2> QED
    BY <2>1, <2>5, <2>6, <2>7, <2>8, <2>9 DEF Own, sids, docker
<1>4. CASE Disconnect(c)
  <2> DEFINE d == [c EXCEPT !.pc = "stop"]
  <2>1. /\ UNCHANGED <<pv, sids, resources, overtaken, box, nets>>
        /\ cleaners' = (cleaners \ {c}) \cup {d}
    BY <1>4 DEF Disconnect, Replace, boxes, ghosts
  <2>2. d.res = c.res /\ d.todo = c.todo /\ d.att = c.att /\ d.pc = "stop"
    BY <1>1 DEF Cleaner
  <2>3. NetLive' = NetLive
    BY <2>1, SameLive
  <2> HIDE DEF d
  <2> QED
    BY <1>2, <2>1, <2>2, <2>3, OwnCleaner
<1>5. CASE StopBoxes(c)
  <2> DEFINE d == [c EXCEPT !.todo = IdsOf(c.res), !.pc = "remove"]
  <2>1. /\ UNCHANGED <<pv, sids, resources, overtaken, box, nets>>
        /\ cleaners' = (cleaners \ {c}) \cup {d}
    BY <1>5 DEF StopBoxes, Replace, ghosts
  <2>2. d.res = c.res /\ d.todo = IdsOf(c.res) /\ d.att = c.att /\ d.pc = "remove"
    BY <1>1 DEF Cleaner
  <2>3. NetLive' = NetLive
    BY <2>1, SameLive
  <2> HIDE DEF d
  <2> QED
    BY <2>1, <2>2, <2>3, OwnCleaner
<1>6. CASE RemoveBox(c)
  <2>1. PICK id \in c.todo :
          /\ Replace(c, [c EXCEPT !.todo = c.todo \ {id}])
          /\ RemoveBoxes({id}) \/ UNCHANGED box
    BY <1>6 DEF RemoveBox, Doomed, boxes
  <2> DEFINE d == [c EXCEPT !.todo = c.todo \ {id}]
  <2>2. UNCHANGED <<pv, sids, resources, overtaken, nets>> /\ c.pc = "remove"
    BY <1>6 DEF RemoveBox
  <2>3. d.res = c.res /\ d.todo \subseteq c.todo /\ d.att = c.att /\ d.pc = "remove"
    BY <1>1, <2>2 DEF Cleaner
  <2>4. NetLive \ IdsOf(c.res) \subseteq NetLive'
    BY <1>2, <2>1, RemoveLive, SameLive
  <2>5. cleaners' = (cleaners \ {c}) \cup {d}
    BY <2>1 DEF Replace
  <2> HIDE DEF d
  <2> QED
    BY <1>2, <2>2, <2>3, <2>4, <2>5, OwnCleaner
<1>7. CASE BoxesRemoved(c)
  <2> DEFINE d == [c EXCEPT !.pc = "nets"]
  <2>1. /\ UNCHANGED <<pv, sids, resources, overtaken, box, nets>>
        /\ cleaners' = (cleaners \ {c}) \cup {d}
    BY <1>7 DEF BoxesRemoved, Replace, docker, boxes, ghosts
  <2>2. d.res = c.res /\ d.todo = c.todo /\ d.att = c.att /\ d.pc = "nets"
    BY <1>1 DEF Cleaner
  <2>3. NetLive' = NetLive
    BY <2>1, SameLive
  <2> HIDE DEF d
  <2> QED
    BY <1>2, <2>1, <2>2, <2>3, OwnCleaner
<1>8. CASE RemoveNetwork(c)
  <2>1. /\ UNCHANGED <<pv, sids, resources, overtaken, box>> /\ cleaners' \subseteq cleaners \cup {c}
        /\ nets' = nets \ c.res.nets /\ c.pc # "pop"
    BY <1>8 DEF RemoveNetwork, boxes, ghosts
  <2>2. NetLive' = NetLive
    BY <2>1, SameLive
  <2> QED
    BY <1>2, <2>1, <2>2, OwnCleaner
<1>9. CASE NetworkStays(c)
  <2> DEFINE d == [c EXCEPT !.tries = c.tries - 1]
  <2>1. /\ UNCHANGED <<pv, sids, resources, overtaken, box, nets>> /\ c.pc = "nets"
        /\ cleaners' \subseteq cleaners \cup {d}
    BY <1>9 DEF NetworkStays, Replace, docker, boxes, ghosts
  <2>2. d.res = c.res /\ d.todo = c.todo /\ d.att = c.att /\ d.pc = c.pc
    BY <1>1 DEF Cleaner
  <2>3. NetLive' = NetLive
    BY <2>1, SameLive
  <2> HIDE DEF d
  <2> QED
    BY <1>2, <2>1, <2>2, <2>3, OwnCleaner
<1> QED
  BY <1>3, <1>4, <1>5, <1>6, <1>7, <1>8, <1>9 DEF CleanUp

-----------------------------------------------------------------------------
(* The start of a host or of the router: nobody else has its name.          *)
LEMMA StartOwn ==
  ASSUME NetTypes, Own, UNCHANGED <<resources, cleaners, sids>>, pv.pc \in Starting,
         NEW n \in Names, box[n] = 0, box' = [box EXCEPT ![n] = pv.rec.of],
         pv'.pc \in Starting \cup {"abort"}, UNCHANGED nets,
         pv'.rec.nets = pv.rec.nets,
         IdsOf(pv'.rec) \cup pv'.fresh \subseteq IdsOf(pv.rec) \cup pv.fresh \cup {Me(n)}
  PROVE  Own'
<1>1. pv.rec.of = taken /\ taken \in Attempts
  BY MyType
<1>2. NetLive' = NetLive \cup {Me(n)}
  BY <1>1, CreateLive DEF Me
<1>3. Me(n)[2] = taken
  BY <1>1 DEF Me
<1>4. /\ \A id \in IdsOf(pv.rec) \cup pv.fresh : id[2] = taken
      /\ \A k \in pv.rec.nets : k = taken
      /\ IdsOf(pv.rec) \cup pv.fresh \subseteq NetLive /\ pv.rec.nets \subseteq nets
  BY DEF Own, Of
<1>5. /\ \A id \in IdsOf(pv'.rec) \cup pv'.fresh : id[2] = taken
      /\ IdsOf(pv'.rec) \cup pv'.fresh \subseteq NetLive'
  BY <1>2, <1>3, <1>4
<1>6. Of(pv'.rec) \subseteq {taken}
  BY <1>4, <1>5 DEF Of
<1>7. pv'.pc # "idle" /\ pv.pc \in Underway
  BY DEF Starting, Underway
<1> QED
  BY <1>4, <1>5, <1>6, <1>7, OwnStep

(* Provisioning names only containers and networks that it has created and  *)
(* that are still there, and cleans up by record only after it has given    *)
(* up.                                                                      *)
LEMMA ProvisionOwn ==
  ASSUME NetTypes, Own, Waiting, Provision
  PROVE  Own'
<1>1. CASE ListStale
  BY <1>1, ListStaleStep, OwnStep, Fields DEF ListStale, Same, Early, Starting, Underway
<1>2. CASE RemoveStale
  BY <1>2, RemoveStaleStep, OwnStep, Fields DEF RemoveStale, Same, Early, Starting, Underway
<1>3. CASE RemoveStaleNets
  <2>1. CASE pv.pc = "purge"
    <3>1. /\ pv'.pc = "idle" /\ pv'.rec = NoRecord /\ live = 0
          /\ UNCHANGED <<resources, cleaners, sids>>
      BY <1>3, <2>1 DEF RemoveStaleNets, Quiet, NetTypes, Flow
    <3>2. \A r : Earlier(r) => Earlier(r)'
      BY <3>1 DEF Earlier, sids, Early, Starting, Underway
    <3> QED
      BY <3>1, <3>2 DEF Own, sids, Judging, Starting
  <2>2. CASE pv.pc = "stale"
    <3>1. pv'.pc = "config" /\ UNCHANGED <<resources, cleaners, sids>>
      BY <1>3, <2>2, Fields DEF RemoveStaleNets
    <3> QED
      BY <2>2, <3>1, OwnStep DEF Early, Starting, Underway
  <2> QED
    BY <1>3, <2>1, <2>2 DEF RemoveStaleNets
<1>4. CASE ReadConfig
  BY <1>4, ReadConfigStep, OwnMove, Fields DEF ReadConfig, Same, docker,
     boxes, Early, Starting, Underway
<1>5. CASE FindDockerfiles
  BY <1>5, FindDockerfilesStep, OwnMove, Fields DEF FindDockerfiles, Same,
     docker, boxes, Early, Starting, Underway
<1>6. CASE BuildImage
  BY <1>6, BuildImageStep, OwnMove, Fields DEF BuildImage, Same, docker,
     boxes, Early, Starting, Underway
<1>7. CASE ImagesBuilt
  BY <1>7, ImagesBuiltStep, OwnMove, Fields DEF ImagesBuilt, Same, docker,
     boxes, Early, Starting, Underway
<1>8. CASE CannotStartHost
  BY <1>8, CannotStartHostStep, OwnMove, Fields DEF CannotStartHost, Same,
     docker, boxes, Early, Starting, Underway
<1>9. CASE WaitFor
  BY <1>9, WaitForStep, OwnMove, Fields DEF WaitFor, Same, docker, boxes,
     Early, Starting, Underway
<1>10. CASE WaitTimesOut
  BY <1>10, WaitTimesOutStep, OwnMove, Fields DEF WaitTimesOut, Same,
     docker, boxes, Early, Starting, Underway
<1>11. CASE CollectAddresses
  BY <1>11, CollectAddressesStep, OwnMove, Fields DEF CollectAddresses,
     Same, docker, boxes, Early, Starting, Underway
<1>12. CASE Settle
  BY <1>12, SettleStep, OwnMove, Fields DEF Settle, Same, docker, boxes,
     Early, Starting, Underway
<1>13. CASE AllRunning
  BY <1>13, AllRunningStep, OwnMove, Fields DEF AllRunning, Same, docker,
     boxes, Early, Starting, Underway
<1>14. CASE HostsStarted
  <2>1. /\ pv.pc = "start" /\ pv'.pc \in {"waithosts", "wait"} /\ pv'.fresh = pv.fresh
        /\ \E m \in {"none", "net", "router"} : pv'.rec = [pv.rec EXCEPT !.mode = m]
        /\ UNCHANGED <<resources, cleaners, sids, box, nets>>
    BY <1>14, HostsStartedStep, Fields DEF HostsStarted, Same, docker, boxes
  <2>2. pv.rec \in Record
    BY <2>1, MyType DEF Starting
  <2>3. IdsOf(pv'.rec) = IdsOf(pv.rec) /\ pv'.rec.nets = pv.rec.nets
    BY <2>1, <2>2 DEF Record, IdsOf
  <2> QED
    BY <2>1, <2>3, OwnMove DEF Starting, Underway
<1>50. CASE DecideTopology
  <2>1. /\ pv.pc = "topology" /\ pv'.pc \in {"network", "router", "publish"}
        /\ pv'.rec = [NoRecord EXCEPT !.of = taken] /\ pv'.fresh = {}
        /\ UNCHANGED <<resources, cleaners, sids>>
    BY <1>50, DecideTopologyStep, Fields DEF DecideTopology, Same, Waiting, Early
  <2>2. pv'.rec.nets = {} /\ IdsOf(pv'.rec) = {} /\ Of(pv'.rec) = {}
    BY <2>1 DEF NoRecord, IdsOf, Of
  <2> QED
    BY <2>1, <2>2, OwnStep DEF Early, Starting, Underway
<1>51. CASE CreateNetwork
  <2>1. /\ pv.pc = "network" /\ pv'.pc \in {"start", "abort"} /\ pv'.fresh = pv.fresh
        /\ UNCHANGED <<resources, cleaners, sids, box>>
        /\ \/ pv'.rec = pv.rec /\ nets' = nets
           \/ pv'.rec = [pv.rec EXCEPT !.nets = {pv.rec.of}] /\ nets' = nets \cup {pv.rec.of}
    BY <1>51, Fields DEF CreateNetwork, Abort, Goto, boxes
  <2>2. pv.rec.of = taken /\ pv.rec \in Record
    BY <2>1, MyType DEF Starting
  <2>3. IdsOf(pv'.rec) = IdsOf(pv.rec) /\ pv'.rec.nets \subseteq pv.rec.nets \cup {taken}
    BY <2>1, <2>2 DEF Record, IdsOf
  <2>4. /\ Of(pv.rec) \subseteq {taken} /\ \A id \in pv.fresh : id[2] = taken
        /\ IdsOf(pv.rec) \cup pv.fresh \subseteq NetLive /\ pv.rec.nets \subseteq nets
    BY <2>1 DEF Own, Starting
  <2>5. Of(pv'.rec) \subseteq {taken} /\ pv'.rec.nets \subseteq nets'
    BY <2>1, <2>2, <2>3, <2>4 DEF Of, Record
  <2>6. NetLive' = NetLive
    BY <2>1, SameLive
  <2> QED
    BY <2>1, <2>3, <2>4, <2>5, <2>6, OwnStep DEF Early, Starting, Underway
<1>52. CASE StartHost
  <2> DEFINE n == Head(pv.order)
  <2>1. /\ pv.pc = "start" /\ pv.order # <<>> /\ box[n] = 0
        /\ box' = [box EXCEPT ![n] = pv.rec.of]
        /\ UNCHANGED <<resources, cleaners, sids, nets>>
    BY <1>52 DEF StartHost
  <2>2. n \in Names
    BY <2>1 DEF NetTypes, PvType
  <2>3. /\ pv'.pc = pv.pc
        /\ \/ pv'.rec = pv.rec /\ pv'.fresh = pv.fresh \cup {Me(n)}
           \/ /\ pv'.fresh = {}
              /\ pv'.rec = [pv.rec EXCEPT !.boxes = pv.rec.boxes \cup pv.fresh \cup {Me(n)}]
    BY <1>52, StartHostStep, Fields DEF Same
  <2>4. pv.rec \in Record
    BY <2>1, MyType DEF Starting
  <2> HIDE DEF n
  <2>5. /\ pv'.rec.nets = pv.rec.nets
        /\ IdsOf(pv'.rec) \cup pv'.fresh \subseteq IdsOf(pv.rec) \cup pv.fresh \cup {Me(n)}
    BY <2>3, <2>4 DEF Record, IdsOf
  <2> QED
    BY <2>1, <2>2, <2>3, <2>5, StartOwn DEF Starting
<1>53. CASE HostCreatedOnly
  <2> DEFINE n == Head(pv.order)
  <2>1. /\ pv.pc = "start" /\ pv.order # <<>> /\ box[n] = 0
        /\ box' = [box EXCEPT ![n] = pv.rec.of]
        /\ UNCHANGED <<resources, cleaners, sids, nets>>
    BY <1>53 DEF HostCreatedOnly
  <2>2. n \in Names
    BY <2>1 DEF NetTypes, PvType
  <2>3. pv'.pc = "abort" /\ pv'.rec = pv.rec /\ pv'.fresh = pv.fresh \cup {Me(n)}
    BY <1>53, HostCreatedOnlyStep, Fields DEF Same
  <2> HIDE DEF n
  <2> QED
    BY <2>1, <2>2, <2>3, StartOwn DEF Starting
<1>54. CASE StartRouter
  <2>1. /\ pv.pc = "router" /\ box[Router] = 0
        /\ box' = [box EXCEPT ![Router] = pv.rec.of]
        /\ UNCHANGED <<resources, cleaners, sids, nets>>
    BY <1>54 DEF StartRouter
  <2>2. Router \in Names
    BY DEF Names
  <2>3. /\ pv'.pc \in {"connect", "settle"}
        /\ \/ pv'.rec = pv.rec /\ pv'.fresh = {Me(Router)}
           \/ /\ pv'.fresh = pv.fresh
              /\ pv'.rec = [pv.rec EXCEPT !.router = {Me(Router)}, !.mode = "router"]
    BY <1>54, StartRouterStep
  <2>4. pv.rec \in Record
    BY <2>1, MyType DEF Starting
  <2>5. /\ pv'.rec.nets = pv.rec.nets
        /\ IdsOf(pv'.rec) \cup pv'.fresh \subseteq IdsOf(pv.rec) \cup pv.fresh \cup {Me(Router)}
    BY <2>3, <2>4 DEF Record, IdsOf
  <2> QED
    BY <2>1, <2>2, <2>3, <2>5, StartOwn DEF Starting
<1>55. CASE CannotStartRouter
  <2>1. /\ pv.pc = "router" /\ UNCHANGED <<resources, cleaners, sids, nets>>
        /\ \/ UNCHANGED box /\ pv'.fresh = pv.fresh
           \/ /\ box[Router] = 0 /\ box' = [box EXCEPT ![Router] = pv.rec.of]
              /\ pv'.fresh = {Me(Router)}
    BY <1>55, Fields DEF CannotStartRouter, Abort, Goto
  <2>2. Router \in Names
    BY DEF Names
  <2>3. pv'.pc = "abort" /\ pv'.rec = pv.rec
    BY <1>55, CannotStartRouterStep, Fields DEF Same
  <2>4. CASE UNCHANGED box /\ pv'.fresh = pv.fresh
    BY <2>1, <2>3, <2>4, OwnMove DEF Starting, Underway
  <2>5. CASE /\ box[Router] = 0 /\ box' = [box EXCEPT ![Router] = pv.rec.of]
             /\ pv'.fresh = {Me(Router)}
    BY <2>1, <2>2, <2>3, <2>5, StartOwn DEF Starting
  <2> QED
    BY <2>1, <2>4, <2>5
<1>56. CASE ConnectRouter
  <2>1. /\ pv.pc = "connect" /\ UNCHANGED <<resources, cleaners, sids, nets, box>>
    BY <1>56 DEF ConnectRouter, boxes
  <2>2. CASE pv'.pc = "abort" /\ pv'.fresh = pv.fresh /\ pv'.rec = pv.rec
    BY <2>1, <2>2, OwnMove DEF Starting, Underway
  <2>3. CASE /\ pv'.pc = "settle" /\ pv'.fresh = {}
             /\ pv'.rec = [pv.rec EXCEPT !.router = {Me(Router)}, !.mode = "router"]
    <3>1. pv.rec \in Record /\ pv.rec.of = taken
      BY <2>1, MyType DEF Starting
    <3>2. /\ pv'.rec.nets = pv.rec.nets /\ pv'.rec.boxes = pv.rec.boxes
          /\ pv'.rec.router = {Me(Router)}
      BY <2>3, <3>1 DEF Record
    <3>3. Me(Router) \in NetLive /\ Me(Router)[2] = taken /\ NetLive' = NetLive
      BY <2>1, <3>1, SameLive DEF Waiting, Own, Starting, Me
    <3>4. /\ Of(pv.rec) \subseteq {taken} /\ IdsOf(pv.rec) \subseteq NetLive
          /\ pv.rec.nets \subseteq nets
      BY <2>1 DEF Own, Starting
    <3>5. /\ IdsOf(pv'.rec) \subseteq NetLive' /\ Of(pv'.rec) \subseteq {taken}
          /\ pv'.rec.nets \subseteq nets'
      BY <2>1, <3>2, <3>3, <3>4 DEF IdsOf, Of
    <3> QED
      BY <2>1, <2>3, <3>5, OwnStep DEF Starting, Underway
  <2> QED
    BY <1>56, <2>2, <2>3, ConnectRouterStep
<1>57. CASE Publish
  <2>1. /\ pv.pc = "publish" /\ resources' = pv.rec /\ pv'.pc = "idle"
        /\ UNCHANGED <<cleaners, sids, box, nets>>
    BY <1>57 DEF Publish, Quiet, docker, boxes
  <2>2. /\ Of(pv.rec) \subseteq {taken} /\ pv.rec.of = taken
        /\ IdsOf(pv.rec) \subseteq NetLive /\ pv.rec.nets \subseteq nets
        /\ \A c \in cleaners : taken \notin Of(c.res)
    BY <2>1, MyType DEF Own, Starting, Earlier, Underway
  <2>3. NetLive' = NetLive
    BY <2>1, SameLive
  <2>4. \A c \in cleaners : Earlier(c.res)'
    BY <2>1 DEF Own, Earlier, sids, Early, Starting, Underway
  <2>5. Earlier(resources)'
    <3>1. taken \in Nat /\ taken' = taken /\ \A k \in Of(pv.rec) : k = taken
      BY <2>1, <2>2 DEF NetTypes, DockerType, sids
    <3> QED
      BY <2>1, <3>1 DEF Earlier, Early, Starting, Underway
  <2> QED
    BY <2>1, <2>2, <2>3, <2>4, <2>5 DEF Own, sids, Starting
<1>58. CASE BeginAbort
  <2> DEFINE d == CleanerOf("abort", taken, "disconnect", pv.rec)
  <2>1. /\ pv.pc = "abort" /\ pv'.pc = "aborting" /\ cleaners' = cleaners \cup {d}
        /\ UNCHANGED <<resources, sids, box, nets>>
    BY <1>58, BeginAbortStep DEF BeginAbort, docker, boxes
  <2>2. d.res = pv.rec /\ d.todo = {} /\ d.att = taken /\ d.pc = "disconnect"
    BY DEF CleanerOf
  <2> HIDE DEF d
  <2>3. \A r : Earlier(r) => Earlier(r)'
    BY <2>1 DEF Earlier, sids, Early, Starting, Underway
  <2>4. (\A r : r = pv.rec => Earlier(r)') /\ taken <= attempts
    <3>1. taken \in Nat /\ taken' = taken /\ \A k \in Of(pv.rec) : k = taken
      BY <2>1 DEF Own, NetTypes, DockerType, sids
    <3>2. taken <= attempts
      BY DEF NetTypes, Flow
    <3> QED
      BY <2>1, <3>1, <3>2 DEF Earlier, Early, Starting, Underway
  <2> QED
    BY <2>1, <2>2, <2>3, <2>4 DEF Own, sids, Starting, Judging
<1>59. CASE FailAttempt
  <2> DEFINE d == CleanerOf("abort", live, "pop", NoRecord)
  <2>1. /\ pv.pc = "aborting" /\ pv'.pc \in {"idle", "failed"} /\ live' = 0
        /\ cleaners' \subseteq cleaners \cup {d}
        /\ UNCHANGED <<resources, attempts, taken, box, nets>>
    BY <1>59, Fields DEF FailAttempt, BeginRelease, Goto, Quiet, docker, boxes
  <2>2. d.res = NoRecord /\ d.todo = {} /\ d.att = live /\ (live = 0 => cleaners' = cleaners)
    BY <1>59 DEF CleanerOf, FailAttempt
  <2> HIDE DEF d
  <2>3. \A r : Earlier(r) => Earlier(r)'
    BY <2>1 DEF Earlier, Early, Starting, Underway
  <2>4. Earlier(NoRecord)' /\ live <= attempts
    BY DEF NoRecord, Of, IdsOf, Earlier, NetTypes, Flow
  <2>5. \A c \in cleaners : c.att \in Attempts /\ c.att # 0
    BY CleanerType DEF Cleaner, Attempts
  <2> QED
    BY <2>1, <2>2, <2>3, <2>4, <2>5 DEF Own, Starting, Judging
<1>60. CASE EndFailure
  <2>1. /\ pv.pc = "failed" /\ pv'.pc = "idle"
        /\ UNCHANGED <<resources, cleaners, sids, box, nets>>
    BY <1>60 DEF EndFailure, Quiet, docker, boxes
  <2>2. live = 0 \/ live > taken
    BY <2>1 DEF NetTypes, Flow
  <2>3. ~Judging'
    BY <2>1, <2>2 DEF Judging, sids, NetTypes, DockerType
  <2>4. \A r : Earlier(r) => Earlier(r)'
    BY <2>1 DEF Earlier, sids, Early, Starting, Underway
  <2> QED
    BY <2>1, <2>3, <2>4 DEF Own, sids, Starting
<1>61. CASE TakeSetup
  <2>1. /\ pv.pc = "idle" /\ pv'.pc = "list" /\ taken' = live /\ live > taken
        /\ UNCHANGED <<resources, cleaners, live, attempts, box, nets>>
    BY <1>61, TakeSetupStep DEF TakeSetup, docker, boxes
  <2>2. live \in Nat /\ taken \in Nat
    BY DEF NetTypes, DockerType
  <2>3. \A r \in Record : Earlier(r) => Earlier(r)'
    <3> SUFFICES ASSUME NEW r \in Record, Earlier(r), NEW k \in Of(r)
                 PROVE  k <= taken' /\ k # taken'
      BY DEF Earlier
    <3>1. k \in Nat
      BY DEF Record, Of, IdsOf, Ids, Attempts
    <3> QED
      BY <2>1, <2>2, <3>1 DEF Earlier
  <2>4. resources \in Record /\ \A c \in cleaners : c.res \in Record
    BY CleanerType DEF NetTypes, DockerType
  <2> QED
    BY <2>1, <2>3, <2>4 DEF Own, Starting, Judging
<1> QED
  BY <1>1, <1>2, <1>3, <1>4, <1>5, <1>6, <1>7, <1>8, <1>9, <1>10, <1>11,
     <1>12, <1>13, <1>14, <1>50, <1>51, <1>52, <1>53, <1>54, <1>55, <1>56,
     <1>57, <1>58, <1>59, <1>60, <1>61 DEF Provision

-----------------------------------------------------------------------------
(* The hosts and the ids made of them depend on the configuration, the      *)
(* images and the attempt.                                                  *)
LEMMA SameHosts ==
  ASSUME pv'.cfg = pv.cfg, pv'.built = pv.built
  PROVE  /\ Hosts' = Hosts
         /\ pv'.rec.of = pv.rec.of => MyIds' = MyIds /\ \A n : Me(n)' = Me(n)
<1>1. Hosts' = Hosts
  BY DEF Hosts, SideHosts, EnvHosts
<1> QED
  BY <1>1 DEF MyIds, Me

(* The containers given to the record are waited for before provisioning    *)
(* goes on.                                                                 *)
LEMMA ProvisionWaiting ==
  ASSUME NetTypes, Own, Waiting, Provision
  PROVE  Waiting'
<1>1. CASE RemoveStaleNets
  <2>1. pv'.pc \in {"idle", "config"} /\ pv'.fresh = {}
    BY <1>1, Fields DEF RemoveStaleNets, Quiet, Waiting, Early
  <2> QED
    BY <2>1 DEF Waiting, Early
<1>2. CASE ListStale
  BY <1>2, ListStaleStep, Fields DEF ListStale, Same, Waiting, Early
<1>3. CASE RemoveStale
  BY <1>3, RemoveStaleStep, Fields DEF RemoveStale, Same, Waiting, Early
<1>4. CASE ReadConfig
  BY <1>4, ReadConfigStep, Fields DEF ReadConfig, Same, Waiting, Early
<1>5. CASE FindDockerfiles
  BY <1>5, FindDockerfilesStep, Fields DEF FindDockerfiles, Same, Waiting,
     Early
<1>6. CASE BuildImage
  BY <1>6, BuildImageStep, Fields DEF BuildImage, Same, Waiting, Early
<1>7. CASE ImagesBuilt
  BY <1>7, ImagesBuiltStep, Fields DEF ImagesBuilt, Same, Waiting, Early
<1>8. CASE TakeSetup
  BY <1>8, TakeSetupStep, Fields DEF TakeSetup, Same, Waiting, Early
<1>9. CASE CannotStartHost
  BY <1>9, CannotStartHostStep DEF Waiting, Early
<1>10. CASE HostCreatedOnly
  BY <1>10, HostCreatedOnlyStep DEF Waiting, Early
<1>11. CASE WaitTimesOut
  BY <1>11, WaitTimesOutStep DEF Waiting, Early
<1>12. CASE CannotStartRouter
  BY <1>12, CannotStartRouterStep DEF Waiting, Early
<1>13. CASE BeginAbort
  BY <1>13, BeginAbortStep DEF Waiting, Early
<1>14. CASE Settle
  BY <1>14, SettleStep, Fields DEF Settle, Same, Waiting, Early
<1>15. CASE AllRunning
  BY <1>15, AllRunningStep, Fields DEF AllRunning, Same, Waiting, Early
<1>16. CASE Publish
  BY <1>16 DEF Publish, Quiet, Waiting, Early
<1>17. CASE EndFailure
  BY <1>17 DEF EndFailure, Quiet, Waiting, Early
<1>18. CASE FailAttempt
  BY <1>18, Fields DEF FailAttempt, Goto, Quiet, Waiting, Early
<1>30. CASE DecideTopology
  <2>1. /\ pv.pc = "topology" /\ pv'.pc \in {"network", "router", "publish"}
        /\ pv'.rec = [NoRecord EXCEPT !.of = taken] /\ pv'.fresh = {} /\ pv'.order = Hosts
        /\ pv'.cfg = pv.cfg /\ pv'.built = pv.built
    BY <1>30, DecideTopologyStep, Fields DEF Same, Waiting, Early
  <2>2. pv'.rec.boxes = {} /\ pv'.rec.router = {} /\ IdsOf(pv'.rec) = {}
    BY <2>1 DEF NoRecord, IdsOf
  <2>3. Hosts' = Hosts
    BY <2>1, SameHosts
  <2> QED
    BY <2>1, <2>2, <2>3 DEF Waiting, Early
<1>31. CASE CreateNetwork
  <2>1. /\ pv.pc = "network" /\ pv'.pc \in {"start", "abort"} /\ pv'.fresh = pv.fresh
        /\ pv'.rec \in {pv.rec, [pv.rec EXCEPT !.nets = {pv.rec.of}]}
        /\ pv'.cfg = pv.cfg /\ pv'.built = pv.built /\ pv'.order = pv.order
    BY <1>31, CreateNetworkStep, Fields DEF Same
  <2>2. pv.rec \in Record
    BY <2>1, MyType DEF Starting
  <2>3. /\ pv'.rec.of = pv.rec.of /\ pv'.rec.boxes = pv.rec.boxes
        /\ pv'.rec.router = pv.rec.router
    BY <2>1, <2>2 DEF Record
  <2>4. Hosts' = Hosts /\ MyIds' = MyIds /\ \A n : Me(n)' = Me(n)
    BY <2>1, <2>3, SameHosts
  <2>5. pv.rec.boxes = {} /\ pv.rec.router = {} /\ pv.fresh = {} /\ pv.order = Hosts
    BY <2>1 DEF Waiting, IdsOf
  <2>6. {Me(n) : n \in ToSet(pv.order)} \subseteq MyIds
    BY <2>5 DEF MyIds
  <2>7. {Me(n) : n \in ToSet(pv.order)}' \subseteq MyIds'
    BY <2>1, <2>4, <2>6
  <2> QED
    BY <2>1, <2>3, <2>4, <2>5, <2>7 DEF Waiting, Early
<1>32. CASE StartHost
  <2> DEFINE n == Head(pv.order)
  <2>1. pv.pc = "start" /\ pv.order # <<>> /\ pv'.order = Tail(pv.order)
    BY <1>32, Fields DEF StartHost
  <2>2. n \in ToSet(pv.order) /\ ToSet(pv'.order) \subseteq ToSet(pv.order)
    <3>1. pv.order \in Seq(Names)
      BY DEF NetTypes, PvType
    <3>2. n = pv.order[1] /\ Len(pv.order) \in Nat \ {0}
      BY <2>1, <3>1
    <3>3. DOMAIN pv.order = 1..Len(pv.order)
      BY <3>1
    <3>4. /\ DOMAIN pv'.order = 1..(Len(pv.order) - 1)
          /\ \A i \in 1..(Len(pv.order) - 1) : pv'.order[i] = pv.order[i + 1]
      BY <2>1, <3>1, <3>2
    <3> HIDE DEF n
    <3>5. n \in ToSet(pv.order)
      BY <3>2, <3>3 DEF ToSet
    <3>6. ASSUME NEW i \in DOMAIN pv'.order
          PROVE  pv'.order[i] = pv.order[i + 1] /\ i + 1 \in DOMAIN pv.order
      BY <3>2, <3>3, <3>4
    <3> QED
      BY <3>5, <3>6 DEF ToSet
  <2>3. /\ pv'.pc = pv.pc /\ pv'.cfg = pv.cfg /\ pv'.built = pv.built
        /\ \/ pv'.rec = pv.rec /\ pv'.fresh = pv.fresh \cup {Me(n)}
           \/ /\ pv'.fresh = {}
              /\ pv'.rec = [pv.rec EXCEPT !.boxes = pv.rec.boxes \cup pv.fresh \cup {Me(n)}]
    BY <1>32, StartHostStep, Fields DEF Same
  <2>4. pv.rec \in Record
    BY <2>1, MyType DEF Starting
  <2> HIDE DEF n
  <2>5. /\ pv'.rec.of = pv.rec.of /\ pv'.rec.router = pv.rec.router
        /\ pv'.rec.boxes \cup pv'.fresh \subseteq pv.rec.boxes \cup pv.fresh \cup {Me(n)}
    BY <2>3, <2>4 DEF Record
  <2>6. Hosts' = Hosts /\ MyIds' = MyIds /\ \A m : Me(m)' = Me(m)
    BY <2>3, <2>5, SameHosts
  <2>7. /\ pv.rec.router = {}
        /\ pv.rec.boxes \cup pv.fresh \cup {Me(m) : m \in ToSet(pv.order)} \subseteq MyIds
    BY <2>1 DEF Waiting
  <2>8. {Me(m) : m \in ToSet(pv.order)}' \subseteq MyIds'
    BY <2>2, <2>6, <2>7
  <2>9. pv'.rec.boxes \cup pv'.fresh \subseteq MyIds'
    BY <2>2, <2>5, <2>6, <2>7
  <2> QED
    BY <2>1, <2>3, <2>5, <2>7, <2>8, <2>9 DEF Waiting, Early
<1>33. CASE HostsStarted
  <2>1. /\ pv.pc = "start" /\ pv'.pc \in {"waithosts", "wait"} /\ pv'.todo = MyIds
        /\ \E m \in {"none", "net", "router"} : pv'.rec = [pv.rec EXCEPT !.mode = m]
    BY <1>33, HostsStartedStep
  <2>2. pv.rec \in Record
    BY <2>1, MyType DEF Starting
  <2>3. pv'.rec.boxes = pv.rec.boxes /\ pv'.rec.router = pv.rec.router
    BY <2>1, <2>2 DEF Record
  <2>4. pv.rec.router = {} /\ pv.rec.boxes \subseteq MyIds
    BY <2>1 DEF Waiting
  <2> QED
    BY <2>1, <2>3, <2>4 DEF Waiting, Early, IdsOf
<1>34. CASE WaitFor
  <2>1. PICK id \in pv.todo :
          /\ ~Pending(id)
          /\ pv' = [pv EXCEPT !.todo = pv.todo \ {id},
                              !.seen = IF id \in up THEN pv.seen \cup {id} ELSE pv.seen]
    BY <1>34 DEF WaitFor
  <2>2. /\ pv.pc \in {"waithosts", "wait"} /\ pv'.pc = pv.pc /\ pv'.rec = pv.rec
        /\ pv'.todo = pv.todo \ {id}
        /\ pv'.seen = IF id \in up THEN pv.seen \cup {id} ELSE pv.seen
    BY <1>34, <2>1, Fields DEF WaitFor
  <2>3. id \in IdsOf(pv.rec) => id \in up
    BY <2>1, <2>2 DEF Own, Starting, NetLive, Pending
  <2>4. \A i \in IdsOf(pv.rec) : i \in pv.todo \cup pv.seen => i \in pv'.todo \cup pv'.seen
    BY <2>2, <2>3
  <2> QED
    BY <2>2, <2>4 DEF Waiting, Early, IdsOf
<1>35. CASE CollectAddresses
  <2>1. /\ pv.pc = "waithosts" /\ pv'.pc = "router" /\ pv.todo = {}
        /\ pv'.rec = pv.rec /\ pv'.seen = pv.seen
    BY <1>35, CollectAddressesStep, Fields DEF CollectAddresses, Same
  <2> QED
    BY <2>1 DEF Waiting, Early
<1>36. CASE StartRouter
  <2>1. /\ pv.pc = "router" /\ pv'.seen = pv.seen
        /\ \/ pv'.pc = "connect" /\ pv'.fresh = {Me(Router)} /\ pv'.rec = pv.rec
           \/ /\ pv'.pc = "settle" /\ pv'.todo = {Me(Router)}
              /\ pv'.rec = [pv.rec EXCEPT !.router = {Me(Router)}, !.mode = "router"]
    BY <1>36, StartRouterStep, Fields DEF Same
  <2>2. pv.rec \in Record
    BY <2>1, MyType DEF Starting
  <2>3. CASE pv'.pc = "connect" /\ pv'.fresh = {Me(Router)} /\ pv'.rec = pv.rec
    BY <2>1, <2>3 DEF Waiting, Early, Me
  <2>4. CASE /\ pv'.pc = "settle" /\ pv'.todo = {Me(Router)}
             /\ pv'.rec = [pv.rec EXCEPT !.router = {Me(Router)}, !.mode = "router"]
    <3>1. pv'.rec.router = {Me(Router)} /\ pv'.rec.boxes = pv.rec.boxes
      BY <2>2, <2>4 DEF Record
    <3>2. pv.rec.boxes \subseteq pv.seen
      BY <2>1 DEF Waiting
    <3> QED
      BY <2>1, <2>4, <3>1, <3>2 DEF Waiting, Early, IdsOf
  <2> QED
    BY <2>1, <2>3, <2>4
<1>37. CASE ConnectRouter
  <2>1. /\ pv.pc = "connect" /\ pv'.seen = pv.seen
        /\ \/ pv'.pc = "abort"
           \/ /\ pv'.pc = "settle" /\ pv'.todo = {Me(Router)}
              /\ pv'.rec = [pv.rec EXCEPT !.router = {Me(Router)}, !.mode = "router"]
    BY <1>37, ConnectRouterStep, Fields DEF Same
  <2>2. pv.rec \in Record
    BY <2>1, MyType DEF Starting
  <2>3. CASE /\ pv'.pc = "settle" /\ pv'.todo = {Me(Router)}
             /\ pv'.rec = [pv.rec EXCEPT !.router = {Me(Router)}, !.mode = "router"]
    <3>1. pv'.rec.router = {Me(Router)} /\ pv'.rec.boxes = pv.rec.boxes
      BY <2>2, <2>3 DEF Record
    <3>2. pv.rec.boxes \subseteq pv.seen
      BY <2>1 DEF Waiting
    <3> QED
      BY <2>1, <2>3, <3>1, <3>2 DEF Waiting, Early, IdsOf
  <2> QED
    BY <2>1, <2>3 DEF Waiting, Early
<1> QED
  BY <1>1, <1>2, <1>3, <1>4, <1>5, <1>6, <1>7, <1>8, <1>9, <1>10, <1>11,
     <1>12, <1>13, <1>14, <1>15, <1>16, <1>17, <1>18, <1>30, <1>31, <1>32,
     <1>33, <1>34, <1>35, <1>36, <1>37 DEF Provision

-----------------------------------------------------------------------------
(* The invariant behind the two theorems below, and its steps outside       *)
(* provisioning.                                                            *)
Kept == NetTypes /\ Own /\ Waiting

(* Nobody else touches what provisioning knows of its containers.           *)
LEMMA AsideWaiting ==
  ASSUME Waiting, UNCHANGED pv
  PROVE  Waiting'
<1>1. Hosts' = Hosts /\ MyIds' = MyIds /\ \A n : Me(n)' = Me(n)
  BY SameHosts
<1>2. {Me(n) : n \in ToSet(pv.order)}' = {Me(n) : n \in ToSet(pv.order)} /\ Me(Router)' = Me(Router)
  BY DEF Me
<1> QED
  BY <1>1, <1>2 DEF Waiting

(* The invariant holds at the start.                                        *)
LEMMA InitKept == Init => Kept
<1> SUFFICES ASSUME Init PROVE Own /\ Waiting
  BY InitNetTypes DEF Kept
<1>1. Of(NoRecord) = {}
  BY DEF NoRecord, Of, IdsOf
<1>2. /\ pv.pc = "idle" /\ pv.fresh = {} /\ resources = NoRecord /\ cleaners = {}
      /\ live = 0
  BY DEF Init, Quiet
<1>3. Own
  BY <1>1, <1>2 DEF Own, Earlier, Starting, Judging
<1> QED
  BY <1>2, <1>3 DEF Waiting, Early

(* Every step leaves the records with their own attempts.                   *)
LEMMA NextOwn ==
  ASSUME Kept, [Next]_nvars
  PROVE  Own'
<1> USE DEF Kept
<1>1. CASE Provision
  BY <1>1, ProvisionOwn
<1>2. CASE CleanUps
  BY <1>2, CleanUpOwn DEF CleanUps
<1>3. CASE Accept
  <2>1. /\ UNCHANGED <<pv, resources, cleaners, taken, box, nets>> /\ live = 0
        /\ attempts' = attempts + 1 /\ live' = attempts + 1
    BY <1>3 DEF Accept, docker, boxes
  <2>2. attempts \in Nat /\ taken \in Nat /\ taken <= attempts
    BY DEF NetTypes, DockerType, Flow
  <2>3. ~Judging'
    BY <2>1, <2>2 DEF Judging
  <2>4. \A r : Earlier(r) => Earlier(r)'
    BY <2>1 DEF Earlier
  <2>5. \A c \in cleaners : c.att \in Nat
    BY CleanerType DEF Cleaner, Attempts
  <2>6. \A c \in cleaners' : c.att <= attempts' /\ c.att # live'
    BY <2>1, <2>2, <2>5 DEF Own
  <2>7. NetLive' = NetLive
    BY <2>1, SameLive
  <2> QED
    BY <2>1, <2>3, <2>4, <2>6, <2>7 DEF Own
<1>4. CASE Complete
  <2> DEFINE d == CleanerOf("release", live, "pop", NoRecord)
  <2>1. /\ UNCHANGED <<pv, resources, taken, attempts, box, nets>>
        /\ live # 0 /\ live' = 0 /\ cleaners' = cleaners \cup {d}
    BY <1>4 DEF Complete, BeginRelease, docker, boxes
  <2>2. d.res = NoRecord /\ d.todo = {} /\ d.att = live
    BY DEF CleanerOf
  <2> HIDE DEF d
  <2>3. \A r : Earlier(r) => Earlier(r)'
    BY <2>1 DEF Earlier
  <2>4. Earlier(NoRecord)' /\ live <= attempts
    BY DEF NoRecord, Of, IdsOf, Earlier, NetTypes, Flow
  <2>5. \A c \in cleaners : c.att # 0
    BY CleanerType DEF Cleaner, Attempts
  <2>6. NetLive' = NetLive
    BY <2>1, SameLive
  <2> QED
    BY <2>1, <2>2, <2>3, <2>4, <2>5, <2>6 DEF Own, Judging
<1>5. CASE Restart
  <2>1. /\ resources' = NoRecord /\ live' = 0 /\ cleaners' = {} /\ pv'.pc = "startup"
    BY <1>5 DEF Restart, Quiet
  <2>2. Earlier(NoRecord)'
    BY DEF NoRecord, Of, IdsOf, Earlier
  <2> QED
    BY <2>1, <2>2 DEF Own, Judging, Starting, Earlier, NoRecord, Of, IdsOf
<1>6. CASE UNCHANGED <<pv, resources, cleaners, sids, overtaken, box, nets>>
  <2>1. NetLive' = NetLive
    BY <1>6, SameLive
  <2> QED
    BY <1>6, <2>1 DEF Own, Earlier, Judging, sids
<1>7. CASE \/ UpdateDockerfiles \/ NetIdle \/ UNCHANGED nvars
           \/ RunEntrypoint \/ \E id \in Ids : BoxRuns(id) \/ BoxDies(id)
  BY <1>6, <1>7 DEF UpdateDockerfiles, NetIdle, RunEntrypoint, BoxRuns, BoxDies, nvars,
     docker, boxes, ghosts
<1> QED
  BY <1>1, <1>2, <1>3, <1>4, <1>5, <1>7 DEF Next, Containers

(* Every step keeps account of the containers not seen yet.                 *)
LEMMA NextWaiting ==
  ASSUME Kept, [Next]_nvars
  PROVE  Waiting'
<1> USE DEF Kept
<1>1. CASE Provision
  BY <1>1, ProvisionWaiting
<1>2. CASE Restart
  BY <1>2 DEF Restart, Quiet, Waiting, Early
<1>3. CASE UNCHANGED pv
  BY <1>3, AsideWaiting
<1>4. ASSUME NEW c \in cleaners, CleanUp(c) PROVE UNCHANGED pv
  BY <1>4 DEF CleanUp, Pop, Disconnect, StopBoxes, RemoveBox, BoxesRemoved, RemoveNetwork,
     NetworkStays
<1>5. CASE \/ Accept \/ Complete \/ UpdateDockerfiles \/ NetIdle \/ UNCHANGED nvars
           \/ RunEntrypoint \/ \E id \in Ids : BoxRuns(id) \/ BoxDies(id)
  BY <1>3, <1>5 DEF Accept, Complete, UpdateDockerfiles, NetIdle, RunEntrypoint, BoxRuns,
     BoxDies, nvars
<1> QED
  BY <1>1, <1>2, <1>3, <1>4, <1>5 DEF Next, CleanUps, Containers

(* The invariant behind the two theorems below holds in every state.        *)
LEMMA AlwaysKept == Spec => []Kept
<1>1. Kept /\ [Next]_nvars => Kept'
  BY NextNetTypes, NextOwn, NextWaiting DEF Kept
<1> QED
  BY InitKept, <1>1, PTL DEF Spec

(* The cases of an attempt find the network that was set up for them, with  *)
(* all its containers: a clean-up holds a record of another attempt, unless *)
(* an overdue release took this one.                                        *)
THEOREM CasesInOwnNetwork == Spec => []OwnNetwork
<1>1. Kept => OwnNetwork
  BY DEF Kept, Own, OwnNetwork, Judging
<1> QED
  BY <1>1, AlwaysKept, PTL

(* A container of the record exists as long as it is waited for, so the     *)
(* wait can end for it only when it was seen running.                       *)
THEOREM SeenBeforeCases == Spec => []ReadyBeforeCases
<1>1. Kept => ReadyBeforeCases
  BY DEF Kept, Waiting, ReadyBeforeCases
<1> QED
  BY <1>1, AlwaysKept, PTL

-----------------------------------------------------------------------------
(* Dockerfiles only get newer, so the label of an image is never newer than *)
(* what it was built from; nor is that of a build under way.                *)
Labelled ==
  /\ \A e \in Envs : image[e].label <= image[e].content
  /\ pv.pc \in {"idle", "startup", "purge", "list", "stale", "config", "checksum", "extract"}
       => pv.built = {}
  /\ pv.pc = "extract" => pv.label <= dockerfiles
  /\ pv.pc = "build" => pv.label <= pv.content

(* A step of provisioning that builds nothing.                              *)
LEMMA SameLabels ==
  ASSUME Labelled, ImageCurrent, UNCHANGED builds, pv'.built = pv.built,
         pv'.label = pv.label, pv'.pc \notin {"extract", "build"},
         pv'.pc \in {"idle", "startup", "purge", "list", "stale", "config", "checksum"} =>
           pv.pc \in {"idle", "startup", "purge", "list", "stale", "config", "checksum"}
  PROVE  (Labelled /\ ImageCurrent)'
BY DEF Labelled, ImageCurrent, builds

(* Label first, files after it: the files are no older.                     *)
LEMMA FindLabels ==
  ASSUME NetTypes, Labelled, ImageCurrent, FindDockerfiles
  PROVE  (Labelled /\ ImageCurrent)'
<1>1. UNCHANGED builds /\ dockerfiles \in Nat /\ image' = image
  BY NetworkAssumption DEF FindDockerfiles, builds, NetTypes, DockerType, Versions
<1>2. CASE TakeChecksum
  <2>1. /\ pv.pc = "checksum" /\ pv'.pc = "extract" /\ pv'.label = dockerfiles
        /\ pv'.built = pv.built
    BY <1>2, Fields DEF TakeChecksum
  <2> QED
    BY <1>1, <2>1 DEF Labelled, ImageCurrent, builds
<1>3. CASE TakeFiles
  <2>1. /\ pv.pc = "extract" /\ pv'.pc = "build" /\ pv'.label = pv.label
        /\ pv'.content = dockerfiles /\ pv'.built = pv.built
    BY <1>3, Fields DEF TakeFiles
  <2> QED
    BY <1>1, <2>1 DEF Labelled, ImageCurrent, builds
<1>4. CASE pv.pc \in {"checksum", "extract"} /\ NetFault /\ Goto("topology")
  BY <1>1, <1>4, SameLabels, Fields DEF Goto
<1> QED
  BY <1>2, <1>3, <1>4 DEF FindDockerfiles

(* Built or found under its label, an image is no older than the label.     *)
LEMMA BuildLabels ==
  ASSUME NetTypes, Labelled, ImageCurrent, BuildImage
  PROVE  (Labelled /\ ImageCurrent)'
<1>1. PICK e \in pv.todo :
        \/ /\ pv' = [pv EXCEPT !.todo = pv.todo \ {e}, !.built = pv.built \cup {e}]
           /\ image' = IF UpToDate(e) THEN image
                       ELSE [image EXCEPT ![e] = [label |-> pv.label, content |-> pv.content]]
        \/ pv' = [pv EXCEPT !.todo = pv.todo \ {e}] /\ UNCHANGED image
  BY DEF BuildImage
<1>2. /\ pv.pc = "build" /\ pv'.pc = "build" /\ pv'.label = pv.label
      /\ pv'.content = pv.content
  BY <1>1, Fields DEF BuildImage
<1>3. e \in Envs /\ image \in [Envs -> [label : 0..MaxVersion, content : 0..MaxVersion]]
  BY <1>2 DEF NetTypes, DockerType, PvType
<1>4. pv.label \in Nat /\ pv.content \in Nat /\ pv.label <= pv.content /\ pv.built \subseteq Envs
  BY <1>2 DEF NetTypes, PvType, Labelled
<1>5. CASE UNCHANGED image /\ pv'.built = pv.built
  BY <1>2, <1>5 DEF Labelled, ImageCurrent
<1>6. CASE UpToDate(e) /\ image' = image /\ pv'.built = pv.built \cup {e}
  BY <1>2, <1>3, <1>6 DEF Labelled, ImageCurrent, UpToDate
<1>7. CASE /\ image' = [image EXCEPT ![e] = [label |-> pv.label, content |-> pv.content]]
           /\ pv'.built = pv.built \cup {e}
  <2>1. \A d \in Envs : image'[d] = IF d = e THEN [label |-> pv.label, content |-> pv.content]
                                    ELSE image[d]
    BY <1>3, <1>7
  <2>2. \A d \in Envs : image'[d].label <= image'[d].content
    BY <1>4, <2>1 DEF Labelled
  <2>3. \A d \in pv'.built : image'[d].content >= pv'.label
    BY <1>2, <1>3, <1>4, <1>7, <2>1 DEF ImageCurrent
  <2> QED
    BY <1>2, <1>4, <2>2, <2>3 DEF Labelled, ImageCurrent
<1>8. \/ pv'.built = pv.built /\ UNCHANGED image
      \/ /\ pv'.built = pv.built \cup {e}
         /\ image' = IF UpToDate(e) THEN image
                     ELSE [image EXCEPT ![e] = [label |-> pv.label, content |-> pv.content]]
  BY <1>1, Fields
<1> QED
  BY <1>5, <1>6, <1>7, <1>8

(* No other step of provisioning builds or labels anything.                 *)
LEMMA ProvisionLabels ==
  ASSUME NetTypes, Labelled, ImageCurrent, Provision
  PROVE  (Labelled /\ ImageCurrent)'
<1>1. CASE FindDockerfiles
  BY <1>1, FindLabels
<1>2. CASE BuildImage
  BY <1>2, BuildLabels
<1>3. CASE RemoveStaleNets
  <2>1. pv.built = {} /\ pv'.built = {} /\ pv'.pc \in {"idle", "config"} /\ UNCHANGED builds
    BY <1>3, Fields DEF RemoveStaleNets, Quiet, Labelled
  <2> QED
    BY <2>1 DEF Labelled, ImageCurrent, builds
<1>4. CASE ListStale
  BY <1>4, ListStaleStep, SameLabels, Fields DEF ListStale, Same, builds
<1>5. CASE RemoveStale
  BY <1>5, RemoveStaleStep, SameLabels, Fields DEF RemoveStale, Same, builds
<1>6. CASE ReadConfig
  BY <1>6, ReadConfigStep, SameLabels, Fields DEF ReadConfig, Same, builds
<1>7. CASE ImagesBuilt
  BY <1>7, ImagesBuiltStep, SameLabels, Fields DEF ImagesBuilt, Same, builds
<1>8. CASE DecideTopology
  BY <1>8, DecideTopologyStep, SameLabels, Fields DEF DecideTopology, Same,
     builds
<1>9. CASE CreateNetwork
  BY <1>9, CreateNetworkStep, SameLabels, Fields DEF CreateNetwork, Same,
     builds
<1>10. CASE StartHost
  BY <1>10, StartHostStep, SameLabels, Fields DEF StartHost, Same, builds
<1>11. CASE CannotStartHost
  BY <1>11, CannotStartHostStep, SameLabels, Fields DEF CannotStartHost,
     Same, builds
<1>12. CASE HostCreatedOnly
  BY <1>12, HostCreatedOnlyStep, SameLabels, Fields DEF HostCreatedOnly,
     Same, builds
<1>13. CASE HostsStarted
  BY <1>13, HostsStartedStep, SameLabels, Fields DEF HostsStarted, Same,
     builds
<1>14. CASE WaitFor
  BY <1>14, WaitForStep, SameLabels, Fields DEF WaitFor, Same, builds
<1>15. CASE WaitTimesOut
  BY <1>15, WaitTimesOutStep, SameLabels, Fields DEF WaitTimesOut, Same,
     builds
<1>16. CASE CollectAddresses
  BY <1>16, CollectAddressesStep, SameLabels, Fields DEF CollectAddresses,
     Same, builds
<1>17. CASE StartRouter
  BY <1>17, StartRouterStep, SameLabels, Fields DEF StartRouter, Same,
     builds
<1>18. CASE CannotStartRouter
  BY <1>18, CannotStartRouterStep, SameLabels, Fields DEF CannotStartRouter,
     Same, builds
<1>19. CASE ConnectRouter
  BY <1>19, ConnectRouterStep, SameLabels, Fields DEF ConnectRouter, Same,
     builds
<1>20. CASE Settle
  BY <1>20, SettleStep, SameLabels, Fields DEF Settle, Same, builds
<1>21. CASE AllRunning
  BY <1>21, AllRunningStep, SameLabels, Fields DEF AllRunning, Same, builds
<1>22. CASE Publish
  BY <1>22 DEF Publish, Quiet, Labelled, ImageCurrent, builds
<1>23. CASE BeginAbort
  BY <1>23, BeginAbortStep, SameLabels, Fields DEF BeginAbort, Same, builds
<1>24. CASE FailAttempt
  BY <1>24, Fields DEF FailAttempt, Goto, Quiet, Labelled, ImageCurrent,
     builds
<1>25. CASE EndFailure
  BY <1>25 DEF EndFailure, Quiet, Labelled, ImageCurrent, builds
<1>26. CASE TakeSetup
  BY <1>26, TakeSetupStep, SameLabels, Fields DEF TakeSetup, Same, builds
<1> QED
  BY <1>1, <1>2, <1>3, <1>4, <1>5, <1>6, <1>7, <1>8, <1>9, <1>10, <1>11,
     <1>12, <1>13, <1>14, <1>15, <1>16, <1>17, <1>18, <1>19, <1>20, <1>21,
     <1>22, <1>23, <1>24, <1>25, <1>26 DEF Provision

(* A custom environment runs an image no older than what the backend had    *)
(* when the attempt was provisioned: the image found under its label was    *)
(* built of files at least as new as the label, like one built now.         *)
THEOREM ImagesCurrent == Spec => []ImageCurrent
<1> DEFINE Inv == NetTypes /\ Labelled /\ ImageCurrent
<1>1. Init => Inv
  <2>1. Init => /\ pv.built = {} /\ pv.pc = "idle"
                /\ \A e \in Envs : image[e].label = 0 /\ image[e].content = 0
    BY DEF Init, Quiet
  <2> QED
    BY <2>1, InitNetTypes DEF Labelled, ImageCurrent
<1>2. Inv /\ [Next]_nvars => Inv'
  <2> SUFFICES ASSUME NetTypes, Labelled, ImageCurrent, [Next]_nvars
               PROVE  (Labelled /\ ImageCurrent)'
    BY NextNetTypes
  <2>1. CASE Provision
    BY <2>1, ProvisionLabels
  <2>2. CASE UpdateDockerfiles
    <3>1. dockerfiles' = dockerfiles + 1 /\ dockerfiles \in Nat /\ UNCHANGED <<pv, image>>
      BY <2>2, NetworkAssumption DEF UpdateDockerfiles, NetTypes, DockerType, Versions
    <3>2. pv.label \in Nat
      BY DEF NetTypes, PvType
    <3> QED
      BY <3>1, <3>2 DEF Labelled, ImageCurrent
  <2>3. CASE Restart
    BY <2>3 DEF Restart, Quiet, Labelled, ImageCurrent, builds
  <2>4. CASE UNCHANGED <<pv, builds>>
    BY <2>4 DEF Labelled, ImageCurrent, builds
  <2>5. ASSUME NEW c \in cleaners, CleanUp(c) PROVE UNCHANGED <<pv, builds>>
    BY <2>5 DEF CleanUp, Pop, Disconnect, StopBoxes, RemoveBox, BoxesRemoved, RemoveNetwork,
       NetworkStays
  <2>6. CASE \/ Accept \/ Complete \/ NetIdle \/ UNCHANGED nvars
             \/ RunEntrypoint \/ \E id \in Ids : BoxRuns(id) \/ BoxDies(id)
    BY <2>4, <2>6 DEF Accept, Complete, NetIdle, RunEntrypoint, BoxRuns, BoxDies, nvars
  <2> QED
    BY <2>1, <2>2, <2>3, <2>4, <2>5, <2>6 DEF Next, CleanUps, Containers
<1> QED
  BY <1>1, <1>2, PTL DEF Spec

-----------------------------------------------------------------------------
(* Docker runs only containers that exist, and connects them to the network *)
(* of their own attempt.                                                    *)
Boxed == up \subseteq NetLive /\ \A e \in joined : e[1][2] = e[2]

(* No two records name things of one attempt, a clean-up has none before it *)
(* takes one, and none is left when the process starts.                     *)
Apart ==
  /\ \A c, d \in cleaners : c # d => Of(c.res) \cap Of(d.res) = {}
  /\ \A c \in cleaners : /\ Of(c.res) \cap Of(resources) = {}
                         /\ c.pc = "pop" => c.res = NoRecord
  /\ pv.pc \in {"startup", "purge"} => cleaners = {} /\ resources = NoRecord

(* Outside of _start_sidecars and _start_custom_envs, and between creating  *)
(* and connecting the router, every container's id is in the record.        *)
Recording ==
  /\ pv.pc = "start" /\ pv.order = <<>> => pv.fresh = {}
  /\ pv.pc \in {"waithosts", "router", "settle", "wait", "publish"} => pv.fresh = {}

(* A published record has a release to come that takes it.                  *)
Due ==
  /\ pv.pc \in Underway \cup {"aborting"} => live = taken
  /\ resources # NoRecord => Judging \/ \E c \in cleaners : c.pc = "pop"

(* What a clean-up still has to remove.                                     *)
Doing(c) ==
  IF c.pc = "nets" THEN {} ELSE IF c.pc = "remove" THEN c.todo ELSE IdsOf(c.res)

(* Who has a container or a network on record.                              *)
BoxKnown(id) ==
  \/ pv.pc = "startup"
  \/ pv.pc = "purge" /\ id \in pv.todo
  \/ pv.pc \in Starting \cup {"abort"} /\ id \in IdsOf(pv.rec) \cup pv.fresh
  \/ id \in IdsOf(resources)
  \/ \E c \in cleaners : id \in Doing(c)

NetKnown(n) ==
  \/ pv.pc \in {"startup", "purge"}
  \/ pv.pc \in Starting \cup {"abort"} /\ n \in pv.rec.nets
  \/ n \in resources.nets
  \/ \E c \in cleaners : n \in c.res.nets

(* Somebody has every container on record that is not lost and, as long as  *)
(* no container is, every network; then each try that a clean-up needed     *)
(* more than one has met a fault.                                           *)
Known ==
  /\ \A id \in NetLive \ lost : BoxKnown(id)
  /\ lost = {} => /\ \A n \in nets : NetKnown(n)
                  /\ \A c \in cleaners : 2 - c.tries <= faults

LeftInv == Boxed /\ Apart /\ Recording /\ (~overtaken => Due /\ Known)

(* Removing containers leaves the others as they are.                       *)
LEMMA RemoveBoxed ==
  ASSUME Boxed, NEW ids, RemoveBoxes(ids)
  PROVE  Boxed'
<1>1. NetLive' = NetLive \ ids
  BY RemoveLive
<1>2. up' = up \ ids /\ joined' \subseteq joined
  BY DEF RemoveBoxes
<1> QED
  BY <1>1, <1>2 DEF Boxed

(* A new container is on no network, or on that of its attempt.             *)
LEMMA CreateBoxed ==
  ASSUME NetTypes, Boxed, NEW n \in Names, NEW k \in Attempts, box[n] = 0,
         box' = [box EXCEPT ![n] = k], UNCHANGED up,
         joined' \subseteq joined \cup {<<<<n, k>>, k>>}
  PROVE  Boxed'
<1>1. NetLive' = NetLive \cup {<<n, k>>}
  BY CreateLive
<1>2. \A e \in joined' : e[1][2] = e[2]
  BY DEF Boxed
<1> QED
  BY <1>1, <1>2 DEF Boxed

(* Where no container comes or goes.                                        *)
LEMMA SameBoxed ==
  ASSUME Boxed, UNCHANGED box, up' \subseteq NetLive, joined' \subseteq joined
  PROVE  Boxed'
<1>1. NetLive' = NetLive
  BY SameLive
<1> QED
  BY <1>1 DEF Boxed

(* Docker's view stays consistent.                                          *)
LEMMA NextBoxed ==
  ASSUME Kept, Boxed, [Next]_nvars
  PROVE  Boxed'
<1> USE DEF Kept
<1>0. ASSUME UNCHANGED <<box, up, joined>> PROVE Boxed'
  BY <1>0, SameBoxed DEF Boxed
<1>1. CASE RemoveStale
  <2>1. PICK id \in pv.todo : RemoveBoxes({id}) \/ UNCHANGED <<boxes, joined>>
    BY <1>1 DEF RemoveStale
  <2> QED
    BY <1>0, <2>1, RemoveBoxed DEF boxes
<1>2. CASE StartHost
  <2> DEFINE n == Head(pv.order)
  <2>1. /\ pv.pc = "start" /\ pv.order # <<>> /\ box[n] = 0 /\ UNCHANGED up
        /\ box' = [box EXCEPT ![n] = pv.rec.of]
        /\ joined' = joined \cup {<<<<n, pv.rec.of>>, pv.rec.of>>}
    BY <1>2 DEF StartHost, Me
  <2>2. n \in Names
    BY <2>1 DEF NetTypes, PvType
  <2>3. pv.rec.of \in Attempts
    BY <2>1, MyType DEF Starting
  <2> HIDE DEF n
  <2> QED
    BY <2>1, <2>2, <2>3, CreateBoxed
<1>3. CASE HostCreatedOnly
  <2> DEFINE n == Head(pv.order)
  <2>1. /\ pv.pc = "start" /\ pv.order # <<>> /\ box[n] = 0 /\ UNCHANGED <<up, joined>>
        /\ box' = [box EXCEPT ![n] = pv.rec.of]
    BY <1>3 DEF HostCreatedOnly
  <2>2. n \in Names
    BY <2>1 DEF NetTypes, PvType
  <2>3. pv.rec.of \in Attempts
    BY <2>1, MyType DEF Starting
  <2> HIDE DEF n
  <2> QED
    BY <2>1, <2>2, <2>3, CreateBoxed
<1>4. CASE StartRouter \/ CannotStartRouter
  <2>1. /\ pv.pc = "router" /\ UNCHANGED <<up, joined>>
        /\ \/ UNCHANGED box
           \/ box[Router] = 0 /\ box' = [box EXCEPT ![Router] = pv.rec.of]
    BY <1>4 DEF StartRouter, CannotStartRouter
  <2>2. Router \in Names
    BY DEF Names
  <2>3. pv.rec.of \in Attempts
    BY <2>1, MyType DEF Starting
  <2> QED
    BY <1>0, <2>1, <2>2, <2>3, CreateBoxed
<1>5. CASE ConnectRouter
  <2>1. /\ pv.pc = "connect" /\ UNCHANGED <<box, up>>
        /\ joined' \subseteq joined \cup ({Me(Router)} \X pv.rec.nets)
    BY <1>5 DEF ConnectRouter, boxes
  <2>2. \A k \in pv.rec.nets : k = taken
    BY <2>1 DEF Own, Of, Starting
  <2>3. Me(Router)[2] = taken
    BY <2>1, MyType DEF Me, Starting
  <2>4. \A e \in joined' : e[1][2] = e[2]
    BY <2>1, <2>2, <2>3 DEF Boxed
  <2>5. NetLive' = NetLive
    BY <2>1, SameLive
  <2> QED
    BY <2>1, <2>4, <2>5 DEF Boxed
<1>7. CASE Provision
  <2>1. ASSUME \/ ListStale \/ RemoveStaleNets \/ ReadConfig \/ FindDockerfiles \/ BuildImage
               \/ ImagesBuilt \/ DecideTopology \/ CreateNetwork \/ CannotStartHost
               \/ HostsStarted \/ WaitFor \/ WaitTimesOut \/ CollectAddresses \/ Settle
               \/ AllRunning \/ Publish \/ BeginAbort \/ FailAttempt \/ EndFailure \/ TakeSetup
        PROVE  UNCHANGED <<box, up, joined>>
    BY <2>1 DEF ListStale, RemoveStaleNets, ReadConfig, FindDockerfiles, BuildImage, ImagesBuilt,
       DecideTopology, CreateNetwork, CannotStartHost, HostsStarted, WaitFor, WaitTimesOut,
       CollectAddresses, Settle, AllRunning, Publish, BeginAbort, FailAttempt, EndFailure,
       TakeSetup, docker, boxes
  <2> QED
    BY <1>0, <1>1, <1>2, <1>3, <1>4, <1>5, <1>7, <2>1 DEF Provision
<1>8. ASSUME NEW c \in cleaners, CleanUp(c) PROVE Boxed'
  <2>1. CASE Disconnect(c)
    BY <2>1, SameBoxed DEF Disconnect, boxes, Boxed
  <2>2. CASE StopBoxes(c)
    BY <2>2, SameBoxed DEF StopBoxes, Boxed
  <2>3. CASE RemoveBox(c)
    <3>1. PICK id \in c.todo : RemoveBoxes({id}) \/ UNCHANGED <<boxes, joined>>
      BY <2>3 DEF RemoveBox, Doomed
    <3> QED
      BY <1>0, <3>1, RemoveBoxed DEF boxes
  <2>4. CASE Pop(c) \/ BoxesRemoved(c) \/ RemoveNetwork(c) \/ NetworkStays(c)
    BY <1>0, <2>4 DEF Pop, BoxesRemoved, RemoveNetwork, NetworkStays, docker, boxes
  <2> QED
    BY <1>8, <2>1, <2>2, <2>3, <2>4 DEF CleanUp
<1>9. ASSUME NEW id \in Ids, BoxRuns(id) \/ BoxDies(id) PROVE Boxed'
  <2>1. up' \subseteq NetLive /\ UNCHANGED <<box, joined>>
    BY <1>9 DEF BoxRuns, BoxDies, Boxed, NetLive
  <2> QED
    BY <2>1, SameBoxed
<1>10. CASE \/ Accept \/ Complete \/ UpdateDockerfiles \/ Restart \/ NetIdle \/ RunEntrypoint
            \/ UNCHANGED nvars
  BY <1>0, <1>10 DEF Accept, Complete, UpdateDockerfiles, Restart, NetIdle, RunEntrypoint,
     nvars, docker, boxes
<1> QED
  BY <1>7, <1>8, <1>9, <1>10 DEF Next, CleanUps, Containers

(* Ids that the record does not have yet exist only while hosts are being   *)
(* started and before the router is connected.                              *)
LEMMA NextRecording ==
  ASSUME Kept, Recording, [Next]_nvars
  PROVE  Recording'
<1> USE DEF Kept
<1>0. ASSUME UNCHANGED pv PROVE Recording'
  BY <1>0 DEF Recording
<1>1. CASE \/ ListStale \/ RemoveStale \/ RemoveStaleNets \/ ReadConfig \/ FindDockerfiles
           \/ BuildImage \/ ImagesBuilt
  <2>1. ASSUME ListStale \/ RemoveStale PROVE pv'.fresh = pv.fresh /\ pv.fresh = {}
    BY <2>1, ListStaleStep, RemoveStaleStep, Fields DEF RemoveStale, Same, Waiting, Early
  <2>2. ASSUME RemoveStaleNets PROVE pv'.fresh = {}
    BY <2>2, Fields DEF RemoveStaleNets, Quiet, Waiting, Early
  <2>3. ASSUME ReadConfig \/ FindDockerfiles PROVE pv'.fresh = pv.fresh /\ pv.fresh = {}
    <3>1. pv.fresh = {}
      BY <2>3 DEF ReadConfig, FindDockerfiles, TakeChecksum, TakeFiles, Waiting, Early
    <3> QED
      BY <2>3, <3>1, ReadConfigStep, FindDockerfilesStep, Fields DEF Same
  <2>4. ASSUME BuildImage \/ ImagesBuilt PROVE pv'.fresh = pv.fresh /\ pv.fresh = {}
    BY <2>4, BuildImageStep, ImagesBuiltStep, Fields DEF BuildImage, ImagesBuilt, Same, Waiting, Early
  <2> QED
    BY <1>1, <2>1, <2>2, <2>3, <2>4 DEF Recording
<1>2. CASE DecideTopology
  BY <1>2, DecideTopologyStep, Fields DEF Same, Waiting, Early, Recording
<1>3. CASE CreateNetwork
  <2>1. pv.fresh = {} /\ pv'.fresh = pv.fresh
    BY <1>3, Fields DEF CreateNetwork, Abort, Goto, Waiting
  <2> QED
    BY <2>1 DEF Recording
<1>4. CASE StartHost
  <2> DEFINE n == Head(pv.order)
  <2> DEFINE fresh == pv.fresh \cup {Me(n)}
  <2>1. /\ pv.pc = "start" /\ pv'.pc = "start" /\ pv'.order = Tail(pv.order)
    BY <1>4, StartHostStep, Fields DEF Same
  <2>2. Tail(pv.order) = <<>> => pv'.fresh = {}
    <3>1. Tail(pv.order) = <<>> => Recorded(n, Tail(pv.order))
      BY DEF Recorded
    <3>2. Recorded(n, Tail(pv.order)) =>
            pv' = [pv EXCEPT !.order = Tail(pv.order), !.fresh = {},
                             !.rec = [pv.rec EXCEPT !.boxes = pv.rec.boxes \cup fresh]]
      BY <1>4 DEF StartHost
    <3> HIDE DEF n, fresh
    <3> QED
      BY <3>1, <3>2, Fields
  <2> QED
    BY <2>1, <2>2 DEF Recording
<1>5. CASE HostsStarted
  BY <1>5, HostsStartedStep, Fields DEF HostsStarted, Same, Recording
<1>6. CASE \/ CannotStartHost \/ HostCreatedOnly \/ WaitTimesOut \/ CannotStartRouter
           \/ BeginAbort \/ FailAttempt \/ EndFailure \/ TakeSetup \/ Publish
  <2>1. ASSUME CannotStartHost \/ HostCreatedOnly PROVE pv'.pc = "abort"
    BY <2>1, CannotStartHostStep, HostCreatedOnlyStep
  <2>2. ASSUME WaitTimesOut \/ CannotStartRouter PROVE pv'.pc = "abort"
    BY <2>2, WaitTimesOutStep, CannotStartRouterStep
  <2>3. ASSUME BeginAbort \/ TakeSetup PROVE pv'.pc \in {"aborting", "list"}
    BY <2>3, BeginAbortStep, TakeSetupStep
  <2>4. ASSUME FailAttempt \/ EndFailure \/ Publish PROVE pv'.pc \in {"failed", "idle"}
    BY <2>4, Fields DEF FailAttempt, Goto, EndFailure, Publish, Quiet
  <2> QED
    BY <1>6, <2>1, <2>2, <2>3, <2>4 DEF Recording
<1>7. CASE WaitFor \/ CollectAddresses \/ Settle \/ AllRunning
  <2>1. /\ pv'.fresh = pv.fresh /\ pv.pc \in {"waithosts", "settle", "wait"}
        /\ pv'.pc # "start"
    BY <1>7, WaitForStep, CollectAddressesStep, SettleStep, AllRunningStep, Fields
       DEF WaitFor, CollectAddresses, Settle, AllRunning, Goto, Same
  <2> QED
    BY <2>1 DEF Recording
<1>8. CASE StartRouter
  BY <1>8, StartRouterStep DEF Recording
<1>9. CASE ConnectRouter
  BY <1>9, ConnectRouterStep DEF Recording
<1>10. CASE Provision
  BY <1>1, <1>2, <1>3, <1>4, <1>5, <1>6, <1>7, <1>8, <1>9, <1>10 DEF Provision
<1>11. CASE Restart
  BY <1>11 DEF Restart, Quiet, Recording
<1>12. ASSUME NEW c \in cleaners, CleanUp(c) PROVE UNCHANGED pv
  BY <1>12 DEF CleanUp, Pop, Disconnect, StopBoxes, RemoveBox, BoxesRemoved, RemoveNetwork,
     NetworkStays
<1>13. CASE \/ Accept \/ Complete \/ UpdateDockerfiles \/ NetIdle \/ UNCHANGED nvars
            \/ RunEntrypoint \/ \E id \in Ids : BoxRuns(id) \/ BoxDies(id)
  BY <1>0, <1>13 DEF Accept, Complete, UpdateDockerfiles, NetIdle, RunEntrypoint, BoxRuns,
     BoxDies, nvars
<1> QED
  BY <1>0, <1>10, <1>11, <1>12, <1>13 DEF Next, CleanUps, Containers

(* Steps of provisioning that neither publish nor give up.                  *)
LEMMA Quietly ==
  ASSUME Provision, ~Publish, ~BeginAbort, ~FailAttempt, ~EndFailure, ~TakeSetup
  PROVE  UNCHANGED <<resources, cleaners, sids, overtaken>>
BY DEF Provision, ListStale, RemoveStale, RemoveStaleNets, ReadConfig, FindDockerfiles, BuildImage,
   ImagesBuilt, DecideTopology, CreateNetwork, StartHost, CannotStartHost, HostCreatedOnly,
   HostsStarted, WaitFor, WaitTimesOut, CollectAddresses, StartRouter, CannotStartRouter,
   ConnectRouter, Settle, AllRunning, ghosts

(* Where the provisioner goes from one step to the next.                    *)
LEMMA Onwards ==
  ASSUME NetTypes, Provision, ~Publish, ~BeginAbort, ~FailAttempt, ~EndFailure, ~TakeSetup
  PROVE  /\ pv.pc \in Underway \cup {"startup", "purge"} /\ pv'.pc \notin {"startup", "aborting"}
         /\ pv'.pc = "purge" => pv.pc \in {"startup", "purge"}
         /\ pv'.pc \in Underway => pv.pc \in Underway
         /\ pv.pc \in Underway => pv'.pc \in Underway
<1> USE DEF Early, Starting, Underway
<1>1. CASE ListStale \/ RemoveStale
  BY <1>1, ListStaleStep, RemoveStaleStep, Fields DEF RemoveStale, Same
<1>2. CASE RemoveStaleNets
  BY <1>2, Fields DEF RemoveStaleNets, Quiet
<1>3. CASE ReadConfig \/ FindDockerfiles
  BY <1>3, ReadConfigStep, FindDockerfilesStep, Fields DEF ReadConfig, FindDockerfiles, Same
<1>4. CASE BuildImage \/ ImagesBuilt
  BY <1>4, BuildImageStep, ImagesBuiltStep, Fields DEF BuildImage, ImagesBuilt, Same
<1>5. CASE DecideTopology \/ CreateNetwork
  BY <1>5, DecideTopologyStep, CreateNetworkStep, Fields DEF Same
<1>6. CASE StartHost \/ CannotStartHost \/ HostCreatedOnly
  BY <1>6, StartHostStep, CannotStartHostStep, HostCreatedOnlyStep, Fields DEF Same
<1>7. CASE HostsStarted \/ WaitFor \/ WaitTimesOut
  BY <1>7, HostsStartedStep, WaitForStep, WaitTimesOutStep, Fields
     DEF HostsStarted, WaitFor, WaitTimesOut, Same
<1>8. CASE CollectAddresses \/ StartRouter \/ CannotStartRouter \/ ConnectRouter
  BY <1>8, CollectAddressesStep, StartRouterStep, CannotStartRouterStep, ConnectRouterStep, Fields
     DEF Same
<1>9. CASE Settle \/ AllRunning
  BY <1>9, SettleStep, AllRunningStep, Fields DEF Settle, AllRunning, Same
<1> QED
  BY <1>1, <1>2, <1>3, <1>4, <1>5, <1>6, <1>7, <1>8, <1>9 DEF Provision

(* A step of a clean-up after it has its record.                            *)
LEMMA ApartCleaner ==
  ASSUME Apart, UNCHANGED <<pv, resources>>, NEW c \in cleaners, NEW d,
         cleaners' \subseteq (cleaners \ {c}) \cup {d}, d.res = c.res, d.pc # "pop"
  PROVE  Apart'
<1>1. \A e \in cleaners' : e # d => e \in cleaners /\ e # c
  OBVIOUS
<1>2. \A e, g \in cleaners' : e # g => Of(e.res) \cap Of(g.res) = {}
  BY <1>1 DEF Apart
<1>3. \A e \in cleaners' : Of(e.res) \cap Of(resources) = {} /\ (e.pc = "pop" => e.res = NoRecord)
  BY <1>1 DEF Apart
<1>4. pv.pc \in {"startup", "purge"} => cleaners' = {}
  BY DEF Apart
<1> QED
  BY <1>2, <1>3, <1>4 DEF Apart

(* A clean-up without a record begins.                                      *)
LEMMA ApartRelease ==
  ASSUME Apart, UNCHANGED resources, NEW d, cleaners' = cleaners \cup {d},
         d.res = NoRecord, pv'.pc \notin {"startup", "purge"}
  PROVE  Apart'
<1>1. Of(d.res) = {}
  BY DEF Of, IdsOf, NoRecord
<1>2. \A e, g \in cleaners' : e # g => Of(e.res) \cap Of(g.res) = {}
  BY <1>1 DEF Apart
<1>3. \A e \in cleaners' : Of(e.res) \cap Of(resources) = {} /\ (e.pc = "pop" => e.res = NoRecord)
  BY <1>1 DEF Apart
<1> QED
  BY <1>2, <1>3 DEF Apart

(* No two records ever name things of one attempt.                          *)
LEMMA NextApart ==
  ASSUME Kept, Apart, [Next]_nvars
  PROVE  Apart'
<1> USE DEF Kept
<1>1. CASE Provision /\ ~(Publish \/ BeginAbort \/ FailAttempt \/ EndFailure \/ TakeSetup)
  BY <1>1, Quietly, Onwards DEF Apart, Underway, Early, Starting
<1>2. CASE Publish
  <2>1. pv.pc = "publish" /\ resources' = pv.rec /\ pv'.pc = "idle" /\ UNCHANGED cleaners
    BY <1>2 DEF Publish, Quiet
  <2>2. Of(pv.rec) \subseteq {taken} /\ \A c \in cleaners : taken \notin Of(c.res)
    BY <2>1 DEF Own, Starting, Underway, Earlier
  <2>3. \A c \in cleaners : Of(c.res) \cap Of(pv.rec) = {}
    BY <2>2
  <2> QED
    BY <2>1, <2>3 DEF Apart
<1>3. CASE BeginAbort
  <2> DEFINE d == CleanerOf("abort", taken, "disconnect", pv.rec)
  <2>1. pv.pc = "abort" /\ pv'.pc = "aborting" /\ UNCHANGED resources /\ cleaners' = cleaners \cup {d}
    BY <1>3, BeginAbortStep DEF BeginAbort
  <2>2. d.res = pv.rec /\ d.pc = "disconnect"
    BY DEF CleanerOf
  <2> HIDE DEF d
  <2>3. /\ Of(pv.rec) \subseteq {taken} /\ taken \notin Of(resources)
        /\ \A c \in cleaners : taken \notin Of(c.res)
    BY <2>1 DEF Own, Underway, Earlier
  <2>4. \A e, g \in cleaners' : e # g => Of(e.res) \cap Of(g.res) = {}
    BY <2>1, <2>2, <2>3 DEF Apart
  <2>5. \A e \in cleaners' : Of(e.res) \cap Of(resources) = {} /\ (e.pc = "pop" => e.res = NoRecord)
    BY <2>1, <2>2, <2>3 DEF Apart
  <2> QED
    BY <2>1, <2>4, <2>5 DEF Apart
<1>4. CASE FailAttempt
  <2>1. UNCHANGED resources /\ pv'.pc \notin {"startup", "purge"}
    BY <1>4, Fields DEF FailAttempt, Goto, Quiet
  <2>2. CASE live = 0
    <3>1. UNCHANGED cleaners
      BY <1>4, <2>2 DEF FailAttempt
    <3> QED
      BY <2>1, <3>1 DEF Apart
  <2>3. CASE live # 0
    <3> DEFINE d == CleanerOf("abort", live, "pop", NoRecord)
    <3>1. cleaners' = cleaners \cup {d}
      BY <1>4, <2>3 DEF FailAttempt, BeginRelease
    <3>2. d.res = NoRecord
      BY DEF CleanerOf
    <3> HIDE DEF d
    <3> QED
      BY <2>1, <3>1, <3>2, ApartRelease
  <2> QED
    BY <2>2, <2>3
<1>5. CASE EndFailure \/ TakeSetup
  <2>1. UNCHANGED <<resources, cleaners>> /\ pv'.pc \in {"idle", "list"}
    BY <1>5, TakeSetupStep DEF EndFailure, TakeSetup, Quiet
  <2> QED
    BY <2>1 DEF Apart
<1>6. ASSUME NEW c \in cleaners, Pop(c) PROVE Apart'
  <2> DEFINE d == [c EXCEPT !.res = resources, !.pc = "disconnect"]
  <2>1. resources' = NoRecord /\ cleaners' = (cleaners \ {c}) \cup {d} /\ UNCHANGED pv
    BY <1>6 DEF Pop, TakeRecord, Replace
  <2>2. c \in Cleaner
    BY CleanerType
  <2>3. d.res = resources /\ d.pc = "disconnect"
    BY <2>2 DEF Cleaner
  <2> HIDE DEF d
  <2>4. Of(NoRecord) = {}
    BY DEF Of, IdsOf, NoRecord
  <2>5. \A e, g \in cleaners' : e # g => Of(e.res) \cap Of(g.res) = {}
    BY <2>1, <2>3 DEF Apart
  <2>6. \A e \in cleaners' : Of(e.res) \cap Of(NoRecord) = {} /\ (e.pc = "pop" => e.res = NoRecord)
    BY <2>1, <2>3, <2>4 DEF Apart
  <2>7. pv.pc \notin {"startup", "purge"}
    BY DEF Apart
  <2> QED
    BY <2>1, <2>5, <2>6, <2>7 DEF Apart
<1>7. ASSUME NEW c \in cleaners,
             Disconnect(c) \/ StopBoxes(c) \/ RemoveBox(c) \/ BoxesRemoved(c) \/ NetworkStays(c)
               \/ RemoveNetwork(c)
      PROVE  Apart'
  <2>1. c \in Cleaner
    BY CleanerType
  <2>2. UNCHANGED <<pv, resources>>
    BY <1>7 DEF Disconnect, StopBoxes, RemoveBox, BoxesRemoved, NetworkStays, RemoveNetwork
  <2>3. c.pc # "pop"
    BY <1>7 DEF Disconnect, StopBoxes, RemoveBox, BoxesRemoved, NetworkStays, RemoveNetwork
  <2>4. PICK d : cleaners' \subseteq (cleaners \ {c}) \cup {d} /\ d.res = c.res /\ d.pc # "pop"
    <3>1. CASE Disconnect(c)
      <4>1. PICK d : d = [c EXCEPT !.pc = "stop"]
        OBVIOUS
      <4> QED
        BY <2>1, <3>1, <4>1 DEF Disconnect, Replace, Cleaner
    <3>2. CASE StopBoxes(c)
      <4>1. PICK d : d = [c EXCEPT !.todo = IdsOf(c.res), !.pc = "remove"]
        OBVIOUS
      <4> QED
        BY <2>1, <3>2, <4>1 DEF StopBoxes, Replace, Cleaner
    <3>3. CASE RemoveBox(c)
      <4>1. PICK id \in c.todo : Replace(c, [c EXCEPT !.todo = c.todo \ {id}])
        BY <3>3 DEF RemoveBox
      <4>2. PICK d : d = [c EXCEPT !.todo = c.todo \ {id}]
        OBVIOUS
      <4> QED
        BY <2>1, <2>3, <4>1, <4>2 DEF Replace, Cleaner
    <3>4. CASE BoxesRemoved(c)
      <4>1. PICK d : d = [c EXCEPT !.pc = "nets"]
        OBVIOUS
      <4> QED
        BY <2>1, <3>4, <4>1 DEF BoxesRemoved, Replace, Cleaner
    <3>5. CASE RemoveNetwork(c)
      BY <2>3, <3>5 DEF RemoveNetwork
    <3>6. CASE NetworkStays(c) /\ LastTry(c)
      BY <2>3, <3>6 DEF NetworkStays
    <3>7. CASE NetworkStays(c) /\ ~LastTry(c)
      <4>1. PICK d : d = [c EXCEPT !.tries = c.tries - 1]
        OBVIOUS
      <4> QED
        BY <2>1, <2>3, <3>7, <4>1 DEF NetworkStays, Replace, Cleaner
    <3> QED
      BY <1>7, <3>1, <3>2, <3>3, <3>4, <3>5, <3>6, <3>7
  <2> QED
    BY <2>2, <2>4, ApartCleaner
<1>8. CASE Complete
  <2> DEFINE d == CleanerOf("release", live, "pop", NoRecord)
  <2>1. cleaners' = cleaners \cup {d} /\ UNCHANGED <<resources, pv>> /\ live # 0
    BY <1>8 DEF Complete, BeginRelease
  <2>2. d.res = NoRecord
    BY DEF CleanerOf
  <2> HIDE DEF d
  <2>3. pv.pc \notin {"startup", "purge"}
    BY <2>1 DEF NetTypes, Flow
  <2> QED
    BY <2>1, <2>2, <2>3, ApartRelease
<1>9. CASE Restart
  BY <1>9 DEF Restart, Apart
<1>10. CASE \/ Accept \/ UpdateDockerfiles \/ NetIdle \/ UNCHANGED nvars
            \/ RunEntrypoint \/ \E id \in Ids : BoxRuns(id) \/ BoxDies(id)
  <2>1. UNCHANGED <<pv, resources, cleaners>>
    BY <1>10 DEF Accept, UpdateDockerfiles, NetIdle, RunEntrypoint, BoxRuns, BoxDies, nvars
  <2> QED
    BY <2>1 DEF Apart
<1> QED
  BY <1>1, <1>2, <1>3, <1>4, <1>5, <1>6, <1>7, <1>8, <1>9, <1>10
     DEF Next, CleanUps, CleanUp, Containers

(* Faults are only ever added.                                              *)
LEMMA TriesGrow ==
  ASSUME NetTypes, NetFault \/ UNCHANGED faults
  PROVE  faults \in Nat /\ faults' \in Nat /\ faults <= faults'
BY FaultType DEF NetFault

(* Whoever has the record of a published network is followed by a release   *)
(* that takes it.                                                           *)
LEMMA NextDue ==
  ASSUME Kept, Apart, ~overtaken, Due, [Next]_nvars, ~overtaken'
  PROVE  Due'
<1> USE DEF Kept
<1>0. ASSUME UNCHANGED <<pv, resources, cleaners, live, taken>> PROVE Due'
  BY <1>0 DEF Due, Judging
<1>1. CASE Provision /\ ~(Publish \/ BeginAbort \/ FailAttempt \/ EndFailure \/ TakeSetup)
  <2>1. UNCHANGED <<resources, cleaners, sids>>
    BY <1>1, Quietly
  <2>2. pv.pc # "idle" /\ pv'.pc # "aborting" /\ (pv'.pc \in Underway => pv.pc \in Underway)
    BY <1>1, Onwards DEF Underway, Early, Starting
  <2> QED
    BY <2>1, <2>2 DEF Due, Judging, sids
<1>2. CASE Publish
  <2>1. pv.pc = "publish" /\ pv'.pc = "idle" /\ UNCHANGED <<live, taken>>
    BY <1>2 DEF Publish, Quiet, sids
  <2>2. live = taken /\ taken # 0
    BY <2>1 DEF Due, NetTypes, Flow, Underway, Starting
  <2> QED
    BY <2>1, <2>2 DEF Due, Judging, Underway, Early, Starting
<1>3. CASE BeginAbort
  <2>1. /\ pv.pc = "abort" /\ pv'.pc = "aborting" /\ cleaners \subseteq cleaners'
        /\ UNCHANGED <<resources, live, taken>>
    BY <1>3, BeginAbortStep DEF BeginAbort, sids
  <2> QED
    BY <2>1 DEF Due, Judging, Underway
<1>4. CASE FailAttempt
  <2>1. pv.pc = "aborting" /\ live = taken /\ taken # 0
    BY <1>4 DEF FailAttempt, Due, NetTypes, Flow
  <2> DEFINE d == CleanerOf("abort", live, "pop", NoRecord)
  <2>2. pv'.pc = "failed" /\ cleaners' = cleaners \cup {d}
    BY <1>4, <2>1, Fields DEF FailAttempt, BeginRelease, Goto
  <2>3. d.pc = "pop"
    BY DEF CleanerOf
  <2> HIDE DEF d
  <2> QED
    BY <2>2, <2>3 DEF Due, Underway, Early, Starting
<1>5. CASE EndFailure
  <2>1. pv.pc = "failed" /\ pv'.pc = "idle" /\ UNCHANGED <<resources, cleaners, live, taken>>
    BY <1>5 DEF EndFailure, Quiet, sids
  <2> QED
    BY <2>1 DEF Due, Judging, Underway, Early, Starting
<1>6. CASE TakeSetup
  <2>1. /\ pv.pc = "idle" /\ pv'.pc = "list" /\ taken' = live /\ live > taken
        /\ UNCHANGED <<resources, cleaners, live>>
    BY <1>6, TakeSetupStep DEF TakeSetup
  <2>2. live \in Nat /\ taken \in Nat
    BY DEF NetTypes, DockerType
  <2> QED
    BY <2>1, <2>2 DEF Due, Judging
<1>7. ASSUME NEW c \in cleaners, Pop(c) PROVE Due'
  <2>1. resources' = NoRecord /\ UNCHANGED <<pv, live, taken>>
    BY <1>7 DEF Pop, TakeRecord, sids
  <2> QED
    BY <2>1 DEF Due
<1>8. ASSUME NEW c \in cleaners,
             Disconnect(c) \/ StopBoxes(c) \/ RemoveBox(c) \/ BoxesRemoved(c) \/ NetworkStays(c)
               \/ RemoveNetwork(c)
      PROVE  Due'
  <2>1. UNCHANGED <<pv, resources, live, taken>> /\ c.pc # "pop"
    BY <1>8 DEF Disconnect, StopBoxes, RemoveBox, BoxesRemoved, NetworkStays, RemoveNetwork, sids
  <2>2. cleaners \ {c} \subseteq cleaners'
    BY <1>8 DEF Disconnect, StopBoxes, RemoveBox, BoxesRemoved, NetworkStays, RemoveNetwork, Replace
  <2>3. (\E e \in cleaners : e.pc = "pop") => \E e \in cleaners' : e.pc = "pop"
    BY <2>1, <2>2
  <2> QED
    BY <2>1, <2>3 DEF Due, Judging
<1>9. CASE Accept
  <2>1. live = 0 /\ UNCHANGED <<pv, resources, cleaners, taken>>
    BY <1>9 DEF Accept
  <2>2. pv.pc \notin Underway \cup {"aborting"}
    BY <2>1 DEF Due, NetTypes, Flow
  <2> QED
    BY <2>1, <2>2 DEF Due, Judging
<1>10. CASE Complete
  <2>1. Judging
    BY <1>10 DEF Complete
  <2> DEFINE d == CleanerOf("release", live, "pop", NoRecord)
  <2>2. cleaners' = cleaners \cup {d} /\ UNCHANGED pv
    BY <1>10 DEF Complete, BeginRelease
  <2>3. d.pc = "pop"
    BY DEF CleanerOf
  <2> HIDE DEF d
  <2> QED
    BY <2>1, <2>2, <2>3 DEF Due, Judging, Underway, Early, Starting
<1>11. CASE Restart
  BY <1>11 DEF Restart, Due, Quiet, Underway, Early, Starting
<1>12. CASE \/ UpdateDockerfiles \/ NetIdle \/ UNCHANGED nvars
            \/ RunEntrypoint \/ \E id \in Ids : BoxRuns(id) \/ BoxDies(id)
  BY <1>0, <1>12 DEF UpdateDockerfiles, NetIdle, RunEntrypoint, BoxRuns, BoxDies, nvars, sids
<1> QED
  BY <1>1, <1>2, <1>3, <1>4, <1>5, <1>6, <1>7, <1>8, <1>9, <1>10, <1>11, <1>12
     DEF Next, CleanUps, CleanUp, Containers

(* What was overtaken stays so.                                             *)
LEMMA StaysOvertaken ==
  ASSUME [Next]_nvars, ~overtaken'
  PROVE  ~overtaken
<1>1. CASE Provision
  BY <1>1, Quietly DEF Publish, BeginAbort, FailAttempt, EndFailure, TakeSetup, ghosts
<1>2. ASSUME NEW c \in cleaners, CleanUp(c) PROVE ~overtaken
  BY <1>2 DEF CleanUp, Pop, Disconnect, StopBoxes, RemoveBox, BoxesRemoved, RemoveNetwork,
     NetworkStays, ghosts
<1>3. CASE \/ Accept \/ Complete \/ UpdateDockerfiles \/ Restart \/ NetIdle \/ UNCHANGED nvars
           \/ RunEntrypoint \/ \E id \in Ids : BoxRuns(id) \/ BoxDies(id)
  BY <1>3 DEF Accept, Complete, UpdateDockerfiles, Restart, NetIdle, RunEntrypoint, BoxRuns,
     BoxDies, nvars, ghosts
<1> QED
  BY <1>1, <1>2, <1>3 DEF Next, CleanUps, Containers

-----------------------------------------------------------------------------
(* A step of provisioning that neither publishes nor gives up keeps on      *)
(* record what it has, except for what is lost.                             *)
LEMMA KnownStep ==
  ASSUME NetTypes, Known, UNCHANGED <<resources, cleaners>>, lost \subseteq lost',
         NetFault \/ UNCHANGED faults, pv.pc \notin {"startup", "purge"},
         \A id \in NetLive' : \/ id \in NetLive
                              \/ /\ pv'.pc \in Starting \cup {"abort"}
                                 /\ id \in IdsOf(pv'.rec) \cup pv'.fresh,
         \A n \in nets' : \/ n \in nets
                          \/ pv'.pc \in Starting \cup {"abort"} /\ n \in pv'.rec.nets,
         pv.pc \in Starting \cup {"abort"} =>
           /\ pv'.pc \in Starting \cup {"abort"} /\ pv.rec.nets \subseteq pv'.rec.nets
           /\ IdsOf(pv.rec) \cup pv.fresh \subseteq IdsOf(pv'.rec) \cup pv'.fresh
  PROVE  Known'
<1>1. \A c : Doing(c)' = Doing(c)
  BY DEF Doing
<1>2. ASSUME NEW id \in NetLive' \ lost' PROVE BoxKnown(id)'
  <2>1. CASE id \in NetLive
    <3>1. BoxKnown(id)
      BY <1>2, <2>1 DEF Known
    <3> QED
      BY <1>1, <3>1 DEF BoxKnown
  <2>2. CASE id \notin NetLive
    BY <1>2, <2>2 DEF BoxKnown
  <2> QED
    BY <2>1, <2>2
<1>3. ASSUME lost' = {}, NEW n \in nets' PROVE NetKnown(n)'
  <2>1. CASE n \in nets
    <3>1. NetKnown(n)
      BY <1>3, <2>1 DEF Known
    <3> QED
      BY <3>1 DEF NetKnown
  <2>2. CASE n \notin nets
    BY <1>3, <2>2 DEF NetKnown
  <2> QED
    BY <2>1, <2>2
<1>4. ASSUME lost' = {}, NEW c \in cleaners' PROVE 2 - c.tries <= faults'
  <2>1. c \in Cleaner /\ c.tries \in 0..2 /\ 2 - c.tries <= faults
    BY <1>4, CleanerType DEF Known, Cleaner
  <2> QED
    BY <2>1, TriesGrow
<1> QED
  BY <1>2, <1>3, <1>4 DEF Known

(* A step of a clean-up that still has to do what it had, except for what   *)
(* has been removed or is lost.                                             *)
LEMMA KnownCleaner ==
  ASSUME NetTypes, Known, UNCHANGED <<pv, resources>>, lost \subseteq lost',
         NetFault \/ UNCHANGED faults, NEW c \in cleaners, NEW d,
         cleaners' = (cleaners \ {c}) \cup {d}, d.res = c.res, d.tries \in 0..2,
         NetLive' \subseteq NetLive, nets' \subseteq nets,
         Doing(c) \cap NetLive' \subseteq Doing(d) \cup lost',
         lost' = {} => 2 - d.tries <= faults'
  PROVE  Known'
<1>1. \A e : Doing(e)' = Doing(e)
  BY DEF Doing
<1>2. ASSUME NEW id \in NetLive' \ lost' PROVE BoxKnown(id)'
  <2>1. BoxKnown(id)
    BY <1>2 DEF Known
  <2>2. ASSUME NEW e \in cleaners, id \in Doing(e) PROVE \E g \in cleaners' : id \in Doing(g)
    BY <1>2, <2>2
  <2> QED
    BY <1>1, <2>1, <2>2 DEF BoxKnown
<1>3. ASSUME lost' = {}, NEW n \in nets' PROVE NetKnown(n)'
  <2>1. NetKnown(n)
    BY <1>3 DEF Known
  <2>2. ASSUME NEW e \in cleaners, n \in e.res.nets PROVE \E g \in cleaners' : n \in g.res.nets
    BY <2>2
  <2> QED
    BY <2>1, <2>2 DEF NetKnown
<1>4. ASSUME lost' = {}, NEW e \in cleaners' PROVE 2 - e.tries <= faults'
  <2>1. CASE e = d
    BY <1>4, <2>1
  <2>2. CASE e # d
    <3>1. e \in cleaners
      BY <2>2
    <3>2. e \in Cleaner /\ e.tries \in 0..2 /\ 2 - e.tries <= faults
      BY <1>4, <3>1, CleanerType DEF Known, Cleaner
    <3> QED
      BY <3>2, TriesGrow
  <2> QED
    BY <2>1, <2>2
<1> QED
  BY <1>2, <1>3, <1>4 DEF Known

(* A step outside provisioning and the clean-ups under way.                 *)
LEMMA KnownAside ==
  ASSUME NetTypes, Known, UNCHANGED <<resources, lost, box, nets>>,
         NetFault \/ UNCHANGED faults,
         pv'.pc = pv.pc \/ {pv.pc, pv'.pc} \cap (Starting \cup {"abort", "startup", "purge"}) = {},
         pv'.rec = pv.rec \/ pv'.pc \notin Starting \cup {"abort"},
         pv'.fresh = pv.fresh \/ pv'.pc \notin Starting \cup {"abort"},
         pv'.todo = pv.todo \/ pv'.pc # "purge",
         cleaners \subseteq cleaners', \A c \in cleaners' : c \in cleaners \/ c.tries = 2
  PROVE  Known'
<1>1. (\A e : Doing(e)' = Doing(e)) /\ NetLive' = NetLive
  BY SameLive DEF Doing
<1>2. ASSUME NEW id \in NetLive' \ lost' PROVE BoxKnown(id)'
  <2>1. BoxKnown(id)
    BY <1>1, <1>2 DEF Known
  <2> QED
    BY <1>1, <2>1 DEF BoxKnown
<1>3. ASSUME lost' = {}, NEW n \in nets' PROVE NetKnown(n)'
  <2>1. NetKnown(n)
    BY <1>3 DEF Known
  <2> QED
    BY <2>1 DEF NetKnown
<1>4. ASSUME lost' = {}, NEW e \in cleaners' PROVE 2 - e.tries <= faults'
  <2>1. CASE e \in cleaners
    <3>1. e \in Cleaner /\ e.tries \in 0..2 /\ 2 - e.tries <= faults
      BY <1>4, <2>1, CleanerType DEF Known, Cleaner
    <3> QED
      BY <3>1, TriesGrow
  <2>2. CASE e \notin cleaners
    BY <1>4, <2>2, TriesGrow
  <2> QED
    BY <2>1, <2>2
<1> QED
  BY <1>2, <1>3, <1>4 DEF Known

(* Stale resources: while the process starts whatever is found is removed   *)
(* or lost, and without containers no network is in use.                    *)
LEMMA StaleKnown ==
  ASSUME Kept, Boxed, Apart, Known, ListStale \/ RemoveStale \/ RemoveStaleNets
  PROVE  Known'
<1> USE DEF Kept
<1>1. UNCHANGED <<resources, cleaners>>
  BY DEF ListStale, RemoveStale, RemoveStaleNets
<1>2. CASE ListStale /\ pv.pc = "startup"
  <2>1. pv'.pc = "purge" /\ cleaners' = {} /\ UNCHANGED box
    BY <1>1, <1>2, ListStaleStep DEF Apart, ListStale, docker, boxes
  <2>2. NetLive' = NetLive
    BY <2>1, SameLive
  <2>3. pv'.todo = NetLive \/ lost' = NetLive
    <3>1. PICK ids : ids = {id \in NetLive : StaleName(id[1])}
      OBVIOUS
    <3>2. ids = NetLive
      BY <1>2, <3>1 DEF StaleName
    <3>3. \/ pv' = [pv EXCEPT !.todo = ids, !.pc = "purge"]
          \/ lost' = NetLive
      BY <1>2, <3>1 DEF ListStale
    <3> QED
      BY <3>2, <3>3, Fields
  <2>4. \A id \in NetLive' \ lost' : BoxKnown(id)'
    BY <2>1, <2>2, <2>3 DEF BoxKnown
  <2>5. \A n \in nets' : NetKnown(n)'
    BY <2>1 DEF NetKnown
  <2> QED
    BY <2>1, <2>4, <2>5 DEF Known
<1>3. CASE ListStale /\ pv.pc = "list"
  <2>1. /\ UNCHANGED <<box, nets, lost>> /\ pv'.pc = "stale" /\ (NetFault \/ UNCHANGED faults)
    BY <1>3, ListStaleStep DEF ListStale, docker, boxes
  <2>2. NetLive' = NetLive
    BY <2>1, SameLive
  <2> QED
    BY <1>1, <1>3, <2>1, <2>2, KnownStep DEF Starting
<1>4. CASE RemoveStale
  <2>1. PICK id \in pv.todo :
          /\ pv'.todo = pv.todo \ {id}
          /\ \/ RemoveBoxes({id}) /\ UNCHANGED <<faults, lost>>
             \/ NetFault /\ UNCHANGED <<boxes, joined>> /\ lost' = lost \cup {id}
    BY <1>4, Fields DEF RemoveStale
  <2>2. pv.pc \in {"purge", "stale"} /\ pv'.pc = pv.pc /\ UNCHANGED nets
    BY <1>4, RemoveStaleStep, Fields DEF RemoveStale, Same
  <2>3. NetLive' \subseteq NetLive /\ lost \subseteq lost' /\ id \notin NetLive' \ lost'
    BY <2>1, RemoveLive, SameLive DEF boxes
  <2>4. CASE pv.pc = "stale"
    BY <1>1, <2>1, <2>2, <2>3, <2>4, KnownStep DEF Starting
  <2>5. CASE pv.pc = "purge"
    <3>1. cleaners = {} /\ resources = NoRecord
      BY <2>5 DEF Apart
    <3>2. \A e \in NetLive' \ lost' : e \in pv.todo /\ e # id
      BY <2>3, <2>5, <3>1 DEF Known, BoxKnown, NoRecord, IdsOf, Starting
    <3>3. \A e \in NetLive' \ lost' : BoxKnown(e)'
      BY <2>1, <2>2, <2>5, <3>2 DEF BoxKnown
    <3>4. \A n \in nets' : NetKnown(n)'
      BY <2>2, <2>5 DEF NetKnown
    <3> QED
      BY <1>1, <3>1, <3>3, <3>4 DEF Known
  <2> QED
    BY <2>2, <2>4, <2>5
<1>5. CASE RemoveStaleNets /\ pv.pc = "stale"
  <2>1. /\ UNCHANGED box /\ nets' \subseteq nets /\ lost \subseteq lost' /\ pv'.pc = "config"
        /\ (NetFault \/ UNCHANGED faults)
    BY <1>5, Fields DEF RemoveStaleNets, boxes
  <2>2. NetLive' = NetLive
    BY <2>1, SameLive
  <2> QED
    BY <1>1, <1>5, <2>1, <2>2, KnownStep DEF Starting
<1>6. CASE RemoveStaleNets /\ pv.pc = "purge"
  <2>1. cleaners = {} /\ resources = NoRecord /\ pv.todo = {} /\ UNCHANGED box
    BY <1>6 DEF Apart, RemoveStaleNets, boxes
  <2>2. NetLive \subseteq lost /\ NetLive' = NetLive
    BY <1>6, <2>1, SameLive DEF Known, BoxKnown, NoRecord, IdsOf, Starting
  <2>3. lost \subseteq lost'
    BY <1>6 DEF RemoveStaleNets
  <2>4. ASSUME lost' = {} PROVE nets' = {}
    <3>1. up = {}
      BY <2>2, <2>3, <2>4 DEF Boxed
    <3>2. \A n : ~Active(n)
      BY <3>1 DEF Active
    <3>3. nets' = {n \in nets : Active(n)} \/ (lost' = lost \cup {NetId(n) : n \in nets} /\ nets' = nets)
      BY <1>6 DEF RemoveStaleNets
    <3> QED
      BY <2>4, <3>2, <3>3
  <2> QED
    BY <1>1, <2>1, <2>2, <2>3, <2>4 DEF Known
<1> QED
  BY <1>2, <1>3, <1>4, <1>5, <1>6 DEF ListStale, RemoveStaleNets

(* Provisioning keeps account of what it creates.                           *)
LEMMA ProvisionKnown ==
  ASSUME Kept, Boxed, Apart, Recording, Known, Provision, resources = NoRecord \/ ~Publish
  PROVE  Known'
<1> USE DEF Kept
<1>0. UNCHANGED box => NetLive' = NetLive
  BY SameLive
<1>1. CASE ListStale \/ RemoveStale \/ RemoveStaleNets
  BY <1>1, StaleKnown
<1>2. CASE ReadConfig \/ FindDockerfiles \/ BuildImage \/ ImagesBuilt
  <2>1. /\ UNCHANGED <<resources, cleaners, lost, box, nets>> /\ (NetFault \/ UNCHANGED faults)
        /\ pv.pc \in {"config", "checksum", "extract", "build"}
    BY <1>2 DEF ReadConfig, FindDockerfiles, TakeChecksum, TakeFiles, BuildImage, ImagesBuilt,
       docker, boxes, ghosts
  <2> QED
    BY <1>0, <2>1, KnownStep DEF Starting
<1>3. CASE DecideTopology
  <2>1. /\ UNCHANGED <<resources, cleaners, lost, box, faults>> /\ nets' \subseteq nets
        /\ pv.pc = "topology"
    BY <1>3 DEF DecideTopology, boxes, ghosts
  <2> QED
    BY <1>0, <2>1, KnownStep DEF Starting
<1>4. CASE CreateNetwork
  <2>1. /\ UNCHANGED <<resources, cleaners, lost, box>> /\ (NetFault \/ UNCHANGED faults)
        /\ pv.pc = "network" /\ pv'.pc \in {"start", "abort"} /\ pv'.fresh = pv.fresh
        /\ \/ pv'.rec = pv.rec /\ nets' = nets
           \/ pv'.rec = [pv.rec EXCEPT !.nets = {pv.rec.of}] /\ nets' = nets \cup {pv.rec.of}
    BY <1>4, Fields DEF CreateNetwork, Abort, Goto, boxes, ghosts
  <2>2. pv.rec \in Record /\ pv.rec.of = taken
    BY <2>1, MyType DEF Starting
  <2>3. IdsOf(pv'.rec) = IdsOf(pv.rec)
    BY <2>1, <2>2 DEF Record, IdsOf
  <2>4. pv.rec.nets \subseteq {taken}
    BY <2>1 DEF Own, Of, Starting
  <2>5. pv.rec.nets \subseteq pv'.rec.nets /\ \A n \in nets' : n \in nets \/ n \in pv'.rec.nets
    BY <2>1, <2>2, <2>4 DEF Record
  <2> QED
    BY <1>0, <2>1, <2>3, <2>5, KnownStep DEF Starting
<1>5. CASE StartHost \/ HostCreatedOnly
  <2> DEFINE n == Head(pv.order)
  <2>1. /\ UNCHANGED <<resources, cleaners, lost, nets>> /\ (NetFault \/ UNCHANGED faults)
        /\ pv.pc = "start" /\ pv.order # <<>> /\ box[n] = 0 /\ box' = [box EXCEPT ![n] = pv.rec.of]
    BY <1>5 DEF StartHost, HostCreatedOnly, ghosts
  <2>2. /\ n \in Names /\ pv.rec.of \in Attempts /\ pv.rec \in Record
    BY <2>1, MyType DEF Starting, NetTypes, PvType
  <2>3. /\ pv'.pc \in {"start", "abort"}
        /\ \/ pv'.rec = pv.rec /\ pv'.fresh = pv.fresh \cup {Me(n)}
           \/ /\ pv'.fresh = {}
              /\ pv'.rec = [pv.rec EXCEPT !.boxes = pv.rec.boxes \cup pv.fresh \cup {Me(n)}]
    BY <1>5, StartHostStep, HostCreatedOnlyStep, Fields DEF Same
  <2> HIDE DEF n
  <2>4. NetLive' = NetLive \cup {Me(n)}
    BY <2>1, <2>2, CreateLive DEF Me
  <2>5. /\ pv'.rec.nets = pv.rec.nets
        /\ IdsOf(pv.rec) \cup pv.fresh \cup {Me(n)} \subseteq IdsOf(pv'.rec) \cup pv'.fresh
    BY <2>2, <2>3 DEF Record, IdsOf
  <2> QED
    BY <2>1, <2>3, <2>4, <2>5, KnownStep DEF Starting
<1>6. CASE CannotStartHost \/ WaitFor \/ WaitTimesOut \/ CollectAddresses \/ Settle \/ AllRunning
  <2>1. /\ UNCHANGED <<resources, cleaners, lost, box, nets>> /\ (NetFault \/ UNCHANGED faults)
    BY <1>6 DEF CannotStartHost, WaitFor, WaitTimesOut, CollectAddresses, Settle, AllRunning,
       docker, boxes, ghosts
  <2>2. pv.pc \in Starting /\ pv'.pc \in Starting \cup {"abort"}
    BY <1>6, CannotStartHostStep, WaitForStep, WaitTimesOutStep, CollectAddressesStep,
       SettleStep, AllRunningStep, Fields
       DEF CannotStartHost, WaitFor, WaitTimesOut, CollectAddresses, Settle, AllRunning, Same, Starting
  <2>3. pv'.rec = pv.rec /\ pv'.fresh = pv.fresh
    BY <1>6, CannotStartHostStep, WaitForStep, WaitTimesOutStep, CollectAddressesStep,
       SettleStep, AllRunningStep, Fields DEF Same
  <2>4. pv.pc \notin {"startup", "purge"}
    BY <2>2 DEF Starting
  <2> QED
    BY <1>0, <2>1, <2>2, <2>3, <2>4, KnownStep
<1>7. CASE HostsStarted
  <2>1. /\ UNCHANGED <<resources, cleaners, lost, box, nets, faults>>
        /\ pv.pc = "start" /\ pv'.pc \in {"waithosts", "wait"} /\ pv'.fresh = pv.fresh
        /\ \E m \in {"none", "net", "router"} : pv'.rec = [pv.rec EXCEPT !.mode = m]
    BY <1>7, HostsStartedStep, Fields DEF HostsStarted, Same, docker, boxes, ghosts
  <2>2. pv.rec \in Record
    BY <2>1, MyType DEF Starting
  <2>3. IdsOf(pv'.rec) = IdsOf(pv.rec) /\ pv'.rec.nets = pv.rec.nets
    BY <2>1, <2>2 DEF Record, IdsOf
  <2> QED
    BY <1>0, <2>1, <2>3, KnownStep DEF Starting
<1>8. CASE StartRouter
  <2>1. /\ UNCHANGED <<resources, cleaners, lost, nets, faults>>
        /\ pv.pc = "router" /\ box[Router] = 0 /\ box' = [box EXCEPT ![Router] = pv.rec.of]
    BY <1>8 DEF StartRouter, ghosts
  <2>2. /\ pv.rec.of \in Attempts /\ pv.rec \in Record /\ Router \in Names
    BY <2>1, MyType DEF Starting, Names
  <2>3. /\ pv'.pc \in {"connect", "settle"}
        /\ \/ pv'.rec = pv.rec /\ pv'.fresh = {Me(Router)}
           \/ /\ pv'.fresh = pv.fresh
              /\ pv'.rec = [pv.rec EXCEPT !.router = {Me(Router)}, !.mode = "router"]
    BY <1>8, StartRouterStep
  <2>4. NetLive' = NetLive \cup {Me(Router)}
    BY <2>1, <2>2, CreateLive DEF Me
  <2>5. pv.fresh = {} /\ pv.rec.router = {}
    BY <2>1 DEF Recording, Waiting
  <2>6. /\ pv'.rec.nets = pv.rec.nets
        /\ IdsOf(pv.rec) \cup {Me(Router)} \subseteq IdsOf(pv'.rec) \cup pv'.fresh
    BY <2>2, <2>3, <2>5 DEF Record, IdsOf
  <2> QED
    BY <2>1, <2>3, <2>4, <2>5, <2>6, KnownStep DEF Starting
<1>9. CASE CannotStartRouter
  <2>1. /\ UNCHANGED <<resources, cleaners, lost, nets>> /\ (NetFault \/ UNCHANGED faults)
        /\ pv.pc = "router" /\ pv'.pc = "abort" /\ pv'.rec = pv.rec
        /\ \/ UNCHANGED box /\ pv'.fresh = pv.fresh
           \/ /\ box[Router] = 0 /\ box' = [box EXCEPT ![Router] = pv.rec.of]
              /\ pv'.fresh = {Me(Router)}
    BY <1>9, CannotStartRouterStep, Fields DEF CannotStartRouter, Abort, Goto, Same, ghosts, boxes
  <2>2. /\ pv.rec.of \in Attempts /\ Router \in Names
    BY <2>1, MyType DEF Starting, Names
  <2>3. pv.fresh = {}
    BY <2>1 DEF Recording
  <2>4. NetLive' \subseteq NetLive \cup pv'.fresh
    BY <1>0, <2>1, <2>2, CreateLive DEF Me
  <2> QED
    BY <2>1, <2>3, <2>4, KnownStep DEF Starting
<1>10. CASE ConnectRouter
  <2>1. /\ UNCHANGED <<resources, cleaners, lost, nets, box>> /\ (NetFault \/ UNCHANGED faults)
        /\ pv.pc = "connect" /\ pv'.pc \in {"settle", "abort"}
        /\ \/ pv'.rec = pv.rec /\ pv'.fresh = pv.fresh
           \/ /\ pv'.fresh = {}
              /\ pv'.rec = [pv.rec EXCEPT !.router = {Me(Router)}, !.mode = "router"]
    BY <1>10, ConnectRouterStep DEF ConnectRouter, ghosts, boxes
  <2>2. pv.rec \in Record
    BY <2>1, MyType DEF Starting
  <2>3. pv.fresh = {Me(Router)} /\ pv.rec.router = {}
    BY <2>1 DEF Waiting
  <2>4. /\ pv'.rec.nets = pv.rec.nets
        /\ IdsOf(pv.rec) \cup pv.fresh \subseteq IdsOf(pv'.rec) \cup pv'.fresh
    BY <2>1, <2>2, <2>3 DEF Record, IdsOf
  <2> QED
    BY <1>0, <2>1, <2>4, KnownStep DEF Starting
<1>11. CASE Publish
  <2>1. /\ pv.pc = "publish" /\ pv'.pc = "idle" /\ resources' = pv.rec /\ resources = NoRecord
        /\ UNCHANGED <<cleaners, lost, nets, box, faults>>
    BY <1>11 DEF Publish, Quiet, docker, boxes
  <2>2. pv.fresh = {} /\ \A c : Doing(c)' = Doing(c)
    BY <2>1 DEF Recording, Doing
  <2>3. ASSUME NEW id \in NetLive' \ lost' PROVE BoxKnown(id)'
    <3>1. BoxKnown(id)
      BY <1>0, <2>1, <2>3 DEF Known
    <3> QED
      BY <2>1, <2>2, <3>1 DEF BoxKnown, NoRecord, IdsOf
  <2>4. ASSUME lost' = {}, NEW n \in nets' PROVE NetKnown(n)'
    <3>1. NetKnown(n)
      BY <2>1, <2>4 DEF Known
    <3> QED
      BY <2>1, <3>1 DEF NetKnown, NoRecord
  <2> QED
    BY <2>1, <2>3, <2>4 DEF Known
<1>12. CASE BeginAbort
  <2> DEFINE d == CleanerOf("abort", taken, "disconnect", pv.rec)
  <2>1. /\ pv.pc = "abort" /\ pv'.pc = "aborting" /\ cleaners' = cleaners \cup {d}
        /\ UNCHANGED <<resources, box, nets, faults>> /\ lost' = lost \cup pv.fresh
    BY <1>12, BeginAbortStep DEF BeginAbort, docker, boxes
  <2>2. d.res = pv.rec /\ d.pc = "disconnect" /\ d.tries = 2 /\ faults \in Nat
    BY <2>1, TriesGrow DEF CleanerOf
  <2> HIDE DEF d
  <2>3. Doing(d) = IdsOf(pv.rec) /\ \A c : Doing(c)' = Doing(c)
    BY <2>2 DEF Doing
  <2>4. ASSUME NEW id \in NetLive' \ lost' PROVE BoxKnown(id)'
    <3>1. BoxKnown(id) /\ id \notin pv.fresh
      BY <1>0, <2>1, <2>4 DEF Known
    <3> QED
      BY <2>1, <2>3, <3>1 DEF BoxKnown
  <2>5. ASSUME lost' = {}, NEW n \in nets' PROVE NetKnown(n)'
    <3>1. NetKnown(n)
      BY <2>1, <2>5 DEF Known
    <3> QED
      BY <2>1, <2>2, <3>1 DEF NetKnown
  <2>6. ASSUME lost' = {}, NEW c \in cleaners' PROVE 2 - c.tries <= faults'
    BY <2>1, <2>2, <2>6 DEF Known
  <2> QED
    BY <2>4, <2>5, <2>6 DEF Known
<1>13. CASE FailAttempt \/ EndFailure \/ TakeSetup
  <2>1. /\ UNCHANGED <<resources, lost, box, nets>> /\ (NetFault \/ UNCHANGED faults)
        /\ pv.pc \in {"aborting", "failed", "idle"}
    BY <1>13 DEF FailAttempt, EndFailure, TakeSetup, docker, boxes, ghosts
  <2>2. pv'.pc \in {"failed", "idle", "list"}
    BY <1>13, TakeSetupStep, Fields DEF FailAttempt, Goto, EndFailure, Quiet
  <2>3. cleaners \subseteq cleaners' /\ \A c \in cleaners' : c \in cleaners \/ c.tries = 2
    BY <1>13 DEF FailAttempt, BeginRelease, CleanerOf, EndFailure, TakeSetup
  <2> QED
    BY <2>1, <2>2, <2>3, KnownAside DEF Starting
<1> QED
  BY <1>1, <1>2, <1>3, <1>4, <1>5, <1>6, <1>7, <1>8, <1>9, <1>10, <1>11, <1>12, <1>13
     DEF Provision

(* A network in use while its clean-up is at the networks has a container   *)
(* that nobody has on record.                                               *)
LEMMA ActiveLost ==
  ASSUME Kept, Boxed, Apart, Known, NEW c \in cleaners, c.pc = "nets",
         NEW n \in c.res.nets, Active(n)
  PROVE  lost # {}
<1> USE DEF Kept
<1>1. PICK id \in up : <<id, n>> \in joined
  BY DEF Active
<1>2. id \in NetLive /\ id[2] = n
  BY <1>1 DEF Boxed
<1>3. n \in Of(c.res)
  BY DEF Of
<1>4. SUFFICES ASSUME id \notin lost PROVE FALSE
  OBVIOUS
<1>5. BoxKnown(id)
  BY <1>2, <1>4 DEF Known
<1>6. pv.pc \notin {"startup", "purge"}
  BY DEF Apart
<1>7. ~(pv.pc \in Starting \cup {"abort"} /\ id \in IdsOf(pv.rec) \cup pv.fresh)
  <2> SUFFICES ASSUME pv.pc \in Starting \cup {"abort"}, id \in IdsOf(pv.rec) \cup pv.fresh
               PROVE  FALSE
    OBVIOUS
  <2>1. id[2] = taken
    BY DEF Own, Of
  <2>2. taken \notin Of(c.res)
    BY DEF Own, Earlier, Underway
  <2> QED
    BY <1>2, <1>3, <2>1, <2>2
<1>8. id \notin IdsOf(resources)
  <2>1. Of(c.res) \cap Of(resources) = {}
    BY DEF Apart
  <2> QED
    BY <1>2, <1>3, <2>1 DEF Of
<1>9. \A e \in cleaners : id \notin Doing(e)
  <2> SUFFICES ASSUME NEW e \in cleaners, id \in Doing(e) PROVE FALSE
    OBVIOUS
  <2>1. e # c /\ id \in IdsOf(e.res)
    BY DEF Doing, Own
  <2>2. Of(e.res) \cap Of(c.res) = {}
    BY <2>1 DEF Apart
  <2> QED
    BY <1>2, <1>3, <2>1, <2>2 DEF Of
<1> QED
  BY <1>5, <1>6, <1>7, <1>8, <1>9 DEF BoxKnown

(* A clean-up removes what it has on record, or it is lost; the network is  *)
(* given up only for such a container, or after a third fault.              *)
LEMMA CleanUpKnown ==
  ASSUME Kept, Boxed, Apart, Known, \A p \in Problems : p.faults <= 2,
         NEW c \in cleaners, CleanUp(c)
  PROVE  Known'
<1> USE DEF Kept
<1>1. c \in Cleaner /\ c.tries \in 0..2
  BY CleanerType DEF Cleaner
<1>2. lost = {} => 2 - c.tries <= faults
  BY DEF Known
<1>3. c.todo \subseteq IdsOf(c.res)
  BY DEF Own
<1>4. UNCHANGED box => NetLive' = NetLive
  BY SameLive
<1>5. CASE Pop(c)
  <2>1. PICK d : d = [c EXCEPT !.res = resources, !.pc = "disconnect"]
    OBVIOUS
  <2>2. /\ resources' = NoRecord /\ cleaners' = (cleaners \ {c}) \cup {d} /\ c.pc = "pop"
        /\ UNCHANGED <<pv, box, nets, faults, lost>>
    BY <1>5, <2>1 DEF Pop, TakeRecord, Replace, docker, boxes
  <2>3. d.res = resources /\ d.pc = "disconnect" /\ d.tries = c.tries
    BY <1>1, <2>1 DEF Cleaner
  <2>4. c.res = NoRecord /\ Doing(c) = {}
    BY <2>2 DEF Apart, Doing, NoRecord, IdsOf
  <2>5. Doing(d) = IdsOf(resources) /\ \A e : Doing(e)' = Doing(e)
    BY <2>3 DEF Doing
  <2>6. ASSUME NEW id \in NetLive' \ lost' PROVE BoxKnown(id)'
    <3>1. BoxKnown(id)
      BY <1>4, <2>2, <2>6 DEF Known
    <3>2. ASSUME NEW e \in cleaners, id \in Doing(e) PROVE \E g \in cleaners' : id \in Doing(g)
      BY <2>2, <2>4, <3>2
    <3>3. id \in IdsOf(resources) => \E g \in cleaners' : id \in Doing(g)
      BY <2>2, <2>5
    <3> QED
      BY <2>2, <2>5, <3>1, <3>2, <3>3 DEF BoxKnown
  <2>7. ASSUME lost' = {}, NEW n \in nets' PROVE NetKnown(n)'
    <3>1. NetKnown(n)
      BY <2>2, <2>7 DEF Known
    <3>2. ASSUME NEW e \in cleaners, n \in e.res.nets PROVE \E g \in cleaners' : n \in g.res.nets
      BY <2>2, <2>4, <3>2 DEF NoRecord
    <3>3. n \in resources.nets => \E g \in cleaners' : n \in g.res.nets
      BY <2>2, <2>3
    <3> QED
      BY <2>2, <3>1, <3>2, <3>3 DEF NetKnown
  <2>8. ASSUME lost' = {}, NEW e \in cleaners' PROVE 2 - e.tries <= faults'
    BY <2>2, <2>3, <2>8 DEF Known
  <2> QED
    BY <2>6, <2>7, <2>8 DEF Known
<1>6. CASE Disconnect(c)
  <2>1. PICK d : d = [c EXCEPT !.pc = "stop"]
    OBVIOUS
  <2>2. /\ UNCHANGED <<pv, resources, box, nets, faults, lost>> /\ c.pc = "disconnect"
        /\ cleaners' = (cleaners \ {c}) \cup {d}
    BY <1>6, <2>1 DEF Disconnect, Replace, boxes, ghosts
  <2>3. d.res = c.res /\ d.pc = "stop" /\ d.tries = c.tries
    BY <1>1, <2>1 DEF Cleaner
  <2>4. Doing(d) = Doing(c)
    BY <2>2, <2>3 DEF Doing
  <2> QED
    BY <1>1, <1>2, <1>4, <2>2, <2>3, <2>4, KnownCleaner
<1>7. CASE StopBoxes(c)
  <2>1. PICK d : d = [c EXCEPT !.todo = IdsOf(c.res), !.pc = "remove"]
    OBVIOUS
  <2>2. /\ UNCHANGED <<pv, resources, box, nets, faults, lost>> /\ c.pc = "stop"
        /\ cleaners' = (cleaners \ {c}) \cup {d}
    BY <1>7, <2>1 DEF StopBoxes, Replace, ghosts
  <2>3. d.res = c.res /\ d.pc = "remove" /\ d.todo = IdsOf(c.res) /\ d.tries = c.tries
    BY <1>1, <2>1 DEF Cleaner
  <2>4. Doing(d) = Doing(c)
    BY <2>2, <2>3 DEF Doing
  <2> QED
    BY <1>1, <1>2, <1>4, <2>2, <2>3, <2>4, KnownCleaner
<1>8. CASE RemoveBox(c)
  <2>1. PICK id \in c.todo :
          /\ Replace(c, [c EXCEPT !.todo = c.todo \ {id}])
          /\ \/ RemoveBoxes({id}) /\ UNCHANGED <<faults, lost>>
             \/ NetFault /\ lost' = lost \cup {id} /\ UNCHANGED <<boxes, joined>>
    BY <1>8 DEF RemoveBox, Doomed
  <2>2. PICK d : d = [c EXCEPT !.todo = c.todo \ {id}]
    OBVIOUS
  <2>3. /\ UNCHANGED <<pv, resources, nets>> /\ c.pc = "remove" /\ (NetFault \/ UNCHANGED faults)
        /\ cleaners' = (cleaners \ {c}) \cup {d} /\ lost \subseteq lost'
    BY <1>8, <2>1, <2>2 DEF RemoveBox, Replace
  <2>4. d.res = c.res /\ d.pc = "remove" /\ d.todo = c.todo \ {id} /\ d.tries = c.tries
    BY <1>1, <2>2, <2>3 DEF Cleaner
  <2>5. NetLive' \subseteq NetLive /\ id \notin NetLive' \ lost'
    BY <1>4, <2>1, RemoveLive DEF boxes
  <2>6. Doing(c) \cap NetLive' \subseteq Doing(d) \cup lost'
    BY <2>3, <2>4, <2>5 DEF Doing
  <2>7. lost' = {} => 2 - d.tries <= faults'
    BY <1>1, <1>2, <2>3, <2>4, TriesGrow
  <2> QED
    BY <1>1, <2>3, <2>4, <2>5, <2>6, <2>7, KnownCleaner
<1>9. CASE BoxesRemoved(c)
  <2>1. PICK d : d = [c EXCEPT !.pc = "nets"]
    OBVIOUS
  <2>2. /\ UNCHANGED <<pv, resources, box, nets, faults, lost>> /\ c.pc = "remove" /\ c.todo = {}
        /\ cleaners' = (cleaners \ {c}) \cup {d}
    BY <1>9, <2>1 DEF BoxesRemoved, Replace, docker, boxes, ghosts
  <2>3. d.res = c.res /\ d.pc = "nets" /\ d.tries = c.tries
    BY <1>1, <2>1 DEF Cleaner
  <2>4. Doing(c) = {}
    BY <2>2 DEF Doing
  <2> QED
    BY <1>1, <1>2, <1>4, <2>2, <2>3, <2>4, KnownCleaner
<1>10. CASE RemoveNetwork(c)
  <2>1. /\ UNCHANGED <<pv, resources, box, faults, lost>> /\ c.pc = "nets"
        /\ cleaners' = cleaners \ {c} /\ nets' = nets \ c.res.nets
    BY <1>10 DEF RemoveNetwork, boxes, ghosts
  <2>2. Doing(c) = {} /\ \A e : Doing(e)' = Doing(e)
    BY <2>1 DEF Doing
  <2>3. ASSUME NEW id \in NetLive' \ lost' PROVE BoxKnown(id)'
    <3>1. BoxKnown(id)
      BY <1>4, <2>1, <2>3 DEF Known
    <3> QED
      BY <2>1, <2>2, <3>1 DEF BoxKnown
  <2>4. ASSUME lost' = {}, NEW n \in nets' PROVE NetKnown(n)'
    <3>1. NetKnown(n) /\ n \notin c.res.nets
      BY <2>1, <2>4 DEF Known
    <3> QED
      BY <2>1, <3>1 DEF NetKnown
  <2> QED
    BY <2>1, <2>3, <2>4 DEF Known
<1>11. CASE NetworkStays(c)
  <2>1. /\ UNCHANGED <<pv, resources, box, nets, lost>> /\ c.pc = "nets"
        /\ NetFault \/ UNCHANGED faults
    BY <1>11 DEF NetworkStays, docker, boxes, ghosts
  <2>2. lost = {} => NetFault
    <3> SUFFICES ASSUME lost = {} PROVE NetFault
      OBVIOUS
    <3>1. \A n \in c.res.nets \cap nets : ~Active(n)
      BY <2>1, ActiveLost
    <3> QED
      BY <1>11, <3>1 DEF NetworkStays
  <2>3. lost = {} => faults' = faults + 1 /\ faults' <= 2
    BY <2>2, FaultType, NetworkAssumption DEF NetFault, Problem
  <2>4. CASE LastTry(c)
    <3>1. cleaners' = cleaners \ {c}
      BY <1>11, <2>4 DEF NetworkStays
    <3>2. lost # {}
      <4>1. c.tries = 0 /\ faults \in Nat
        BY <2>1, <2>4, TriesGrow DEF LastTry
      <4> QED
        BY <1>2, <2>3, <4>1
    <3>3. Doing(c) = {} /\ \A e : Doing(e)' = Doing(e)
      BY <2>1 DEF Doing
    <3>4. ASSUME NEW id \in NetLive' \ lost' PROVE BoxKnown(id)'
      <4>1. BoxKnown(id)
        BY <1>4, <2>1, <3>4 DEF Known
      <4> QED
        BY <2>1, <3>1, <3>3, <4>1 DEF BoxKnown
    <3> QED
      BY <2>1, <3>2, <3>4 DEF Known
  <2>5. CASE ~LastTry(c)
    <3>1. PICK d : d = [c EXCEPT !.tries = c.tries - 1]
      OBVIOUS
    <3>2. cleaners' = (cleaners \ {c}) \cup {d}
      BY <1>11, <2>5, <3>1 DEF NetworkStays, Replace
    <3>3. d.res = c.res /\ d.pc = c.pc /\ d.tries = c.tries - 1 /\ d.tries \in 0..2
      BY <1>1, <2>5, <3>1 DEF Cleaner, LastTry
    <3>4. Doing(c) = {}
      BY <2>1 DEF Doing
    <3>5. lost' = {} => 2 - d.tries <= faults'
      BY <1>1, <1>2, <2>1, <2>3, <3>3, TriesGrow
    <3> QED
      BY <1>4, <2>1, <3>2, <3>3, <3>4, <3>5, KnownCleaner
  <2> QED
    BY <2>4, <2>5
<1> QED
  BY <1>5, <1>6, <1>7, <1>8, <1>9, <1>10, <1>11 DEF CleanUp

(* Every step keeps account of what there is.                               *)
LEMMA NextKnown ==
  ASSUME Kept, Boxed, Apart, Recording, Known, \A p \in Problems : p.faults <= 2,
         [Next]_nvars, resources = NoRecord \/ ~Publish
  PROVE  Known'
<1> USE DEF Kept
<1>1. CASE Provision
  BY <1>1, ProvisionKnown
<1>2. CASE CleanUps
  BY <1>2, CleanUpKnown DEF CleanUps
<1>3. CASE Complete
  <2>1. /\ UNCHANGED <<pv, resources, box, nets, lost>> /\ (NetFault \/ UNCHANGED faults)
        /\ cleaners \subseteq cleaners' /\ \A c \in cleaners' : c \in cleaners \/ c.tries = 2
    BY <1>3 DEF Complete, BeginRelease, CleanerOf, docker, boxes
  <2> QED
    BY <2>1, KnownAside
<1>4. CASE Restart
  <2>1. pv'.pc = "startup" /\ cleaners' = {}
    BY <1>4 DEF Restart, Quiet
  <2> QED
    BY <2>1 DEF Known, BoxKnown, NetKnown
<1>5. CASE \/ Accept \/ UpdateDockerfiles \/ NetIdle \/ UNCHANGED nvars
           \/ RunEntrypoint \/ \E id \in Ids : BoxRuns(id) \/ BoxDies(id)
  <2>1. /\ UNCHANGED <<pv, resources, cleaners, box, nets, lost>> /\ (NetFault \/ UNCHANGED faults)
    BY <1>5 DEF Accept, UpdateDockerfiles, NetIdle, RunEntrypoint, BoxRuns, BoxDies, nvars,
       docker, boxes, ghosts
  <2> QED
    BY <2>1, KnownAside
<1> QED
  BY <1>1, <1>2, <1>3, <1>4, <1>5 DEF Next, Containers

(* The invariant holds at the start.                                        *)
LEMMA InitLeft == Init => LeftInv
<1> SUFFICES ASSUME Init PROVE LeftInv
  OBVIOUS
<1>1. /\ up = {} /\ joined = {} /\ cleaners = {} /\ resources = NoRecord /\ nets = {}
      /\ pv.pc = "idle" /\ pv.fresh = {}
  BY DEF Init, Quiet
<1>2. NetLive = {}
  <2>1. \A id \in Ids : id[1] \in Names /\ id[2] # 0
    BY DEF Ids, Attempts
  <2> QED
    BY <2>1 DEF Init, NetLive, Exists
<1> QED
  BY <1>1, <1>2 DEF LeftInv, Boxed, Apart, Recording, Due, Known, Underway, Early, Starting

(* When the id is released and everybody is done, what is left of its       *)
(* containers is what nobody had on record or Docker would not remove, and  *)
(* a network is left only with such a container: as long as no more than    *)
(* two calls fail, since remove_network is tried three times.               *)
THEOREM NobodyLeavesAnything ==
  ASSUME \A p \in Problems : p.faults <= 2
  PROVE  Spec => []NothingLeft
<1>1. Kept /\ LeftInv /\ [Next]_nvars => LeftInv'
  <2> SUFFICES ASSUME Kept, LeftInv, [Next]_nvars PROVE LeftInv'
    OBVIOUS
  <2>1. (Boxed /\ Apart /\ Recording)'
    BY NextBoxed, NextApart, NextRecording DEF LeftInv
  <2>2. ASSUME ~overtaken' PROVE (Due /\ Known)'
    <3>1. ~overtaken
      BY <2>2, StaysOvertaken
    <3>2. Boxed /\ Apart /\ Recording /\ Due /\ Known
      BY <3>1 DEF LeftInv
    <3>3. resources = NoRecord \/ ~Publish
      BY <2>2 DEF Publish
    <3> QED
      BY <2>2, <3>1, <3>2, <3>3, NextDue, NextKnown
  <2> QED
    BY <2>1, <2>2 DEF LeftInv
<1>2. Kept /\ LeftInv => NothingLeft
  <2> SUFFICES ASSUME Kept, LeftInv, live = 0, pv.pc = "idle", cleaners = {}, ~overtaken
               PROVE  NetLive \subseteq lost /\ (nets # {} => lost # {})
    BY DEF NothingLeft
  <2>1. Due /\ Known
    BY DEF LeftInv
  <2>2. resources = NoRecord
    BY <2>1 DEF Due, Judging
  <2>3. \A id \in Ids : ~BoxKnown(id)
    BY <2>2 DEF BoxKnown, NoRecord, IdsOf, Starting
  <2>4. \A n : ~NetKnown(n)
    BY <2>2 DEF NetKnown, NoRecord, Starting
  <2> QED
    BY <2>1, <2>3, <2>4 DEF Known, NetLive
<1> QED
  BY <1>1, <1>2, InitLeft, AlwaysKept, PTL DEF Spec

-----------------------------------------------------------------------------
(* The rule that decides about a packet is the first one that matches.      *)
LEMMA FirstRule ==
  ASSUME NEW chain, Len(chain) \in Nat, NEW p, NEW i \in 1..Len(chain),
         Matches(chain[i], p), \A j \in 1..Len(chain) : Matches(chain[j], p) => i <= j
  PROVE  First(chain, p) = i
<1> DEFINE I == {j \in 1..Len(chain) : Matches(chain[j], p)}
<1>1. I # {} => First(chain, p) = Min(I)
  BY DEF First, SelectInSeq
<1>2. i \in I /\ \A j \in I : i <= j
  OBVIOUS
<1>3. \A j \in I : j \in Int
  OBVIOUS
<1> HIDE DEF I
<1>4. Min(I) = i
  <2>1. \E x \in I : \A y \in I : x <= y
    BY <1>2
  <2>2. Min(I) \in I /\ \A y \in I : Min(I) <= y
    BY <2>1 DEF Min
  <2>3. PICK m : m = Min(I)
    OBVIOUS
  <2>4. m \in I /\ m <= i /\ i <= m
    BY <1>2, <2>2, <2>3
  <2>5. m \in Int /\ i \in Int
    BY <1>2, <1>3, <2>4
  <2>6. m = i
    BY <2>4, <2>5
  <2> QED
    BY <2>3, <2>6
<1> QED
  BY <1>1, <1>2, <1>4

(* A packet of teacher or student leaves over loopback, or is decided by    *)
(* student_out, whether its connection is new or established.               *)
LEMMA GradedFilter ==
  ASSUME NEW conf, NEW user \in Graded, NEW to \in AnyHost(conf), NEW old \in BOOLEAN
  PROVE  LET p == Packet(user, to, old)
         IN Filter(conf, p) = IF to = Local THEN "accept"
                              ELSE StudentOut(conf)[First(StudentOut(conf), p)].verdict
<1> DEFINE p == Packet(user, to, old)
<1> DEFINE chain == OutputChain(conf)
<1>1. p.user = user /\ p.to = to /\ p.old = old
  BY DEF Packet
<1>2. Len(chain) = 5
  BY DEF OutputChain
<1>3. /\ chain[1] = Rule(Users, {Local}, FALSE, "accept")
      /\ chain[2] = Rule({"root", "dnsmasq"}, AnyHost(conf), FALSE, "accept")
      /\ chain[3] = Rule(Graded, AnyHost(conf), FALSE, "student_out")
  BY DEF OutputChain
<1>4. Matches(chain[1], p) <=> to = Local
  BY <1>1, <1>3 DEF Matches, Rule, Users, Graded
<1>5. ~Matches(chain[2], p)
  BY <1>1, <1>3 DEF Matches, Rule, Graded
<1>6. Matches(chain[3], p)
  BY <1>1, <1>3 DEF Matches, Rule, Graded
<1>7. chain[1].verdict = "accept" /\ chain[3].verdict = "student_out"
  BY <1>3 DEF Rule
<1>8. Filter(conf, p) = IF chain[First(chain, p)].verdict = "student_out"
                        THEN StudentOut(conf)[First(StudentOut(conf), p)].verdict
                        ELSE chain[First(chain, p)].verdict
  BY DEF Filter
<1> HIDE DEF chain, p
<1>9. First(chain, p) = IF to = Local THEN 1 ELSE 3
  <2>1. CASE to = Local
    BY <1>2, <1>4, <2>1, FirstRule
  <2>2. CASE to # Local
    <3>1. \A j \in 1..5 : Matches(chain[j], p) => 3 <= j
      BY <1>4, <1>5, <2>2
    <3> QED
      BY <1>2, <1>6, <2>2, <3>1, FirstRule
  <2> QED
    BY <2>1, <2>2
<1> QED
  BY <1>7, <1>8, <1>9 DEF p

(* In white mode student_out lets through what is on a list, and nothing    *)
(* else; a range is on none.                                                *)
LEMMA WhiteFilter ==
  ASSUME NEW conf, conf.model = "white", NEW user \in Graded, NEW to \in AnyHost(conf),
         NEW old \in BOOLEAN, to # Local
  PROVE  LET p == Packet(user, to, old)
         IN StudentOut(conf)[First(StudentOut(conf), p)].verdict
              = IF to \in ToSet(conf.ips) \cup {Listed, Resolved} THEN "accept" ELSE "reject"
<1> DEFINE p == Packet(user, to, old)
<1> DEFINE chain == StudentOut(conf)
<1>1. p.user = user /\ p.to = to /\ p.old = old
  BY DEF Packet
<1>2. Len(chain) = 5
  BY DEF StudentOut
<1>3. /\ chain[1] = Rule(Users, ToSet(conf.ips), FALSE, "accept")
      /\ chain[2] = Rule(Users, {Local}, FALSE, "accept")
      /\ chain[3] = Rule(Users, {Listed}, FALSE, "accept")
      /\ chain[4] = Rule(Users, {Resolved}, FALSE, "accept")
      /\ chain[5] = Rule(Users, AnyHost(conf), FALSE, "reject")
  BY DEF StudentOut
<1>4. /\ Matches(chain[1], p) <=> to \in ToSet(conf.ips)
      /\ ~Matches(chain[2], p)
  BY <1>1, <1>3 DEF Matches, Rule, Users, Graded
<1>5. /\ Matches(chain[3], p) <=> to = Listed
      /\ Matches(chain[4], p) <=> to = Resolved
  BY <1>1, <1>3 DEF Matches, Rule, Users, Graded
<1>6. Matches(chain[5], p)
  BY <1>1, <1>3 DEF Matches, Rule, Users, Graded
<1>7. /\ chain[1].verdict = "accept" /\ chain[3].verdict = "accept"
      /\ chain[4].verdict = "accept" /\ chain[5].verdict = "reject"
  BY <1>3 DEF Rule
<1> HIDE DEF chain, p
<1>8. CASE to \in ToSet(conf.ips)
  BY <1>2, <1>4, <1>7, <1>8, FirstRule DEF chain, p
<1>9. CASE to \notin ToSet(conf.ips) /\ to = Listed
  <2>1. \A j \in 1..5 : Matches(chain[j], p) => 3 <= j
    BY <1>4, <1>9
  <2>2. First(chain, p) = 3
    BY <1>2, <1>5, <1>9, <2>1, FirstRule
  <2> QED
    BY <1>7, <1>9, <2>2 DEF chain, p
<1>10. CASE to \notin ToSet(conf.ips) /\ to = Resolved
  <2>0. Resolved # Listed
    BY DEF Resolved, Listed
  <2>1. \A j \in 1..5 : Matches(chain[j], p) => 4 <= j
    BY <1>4, <1>5, <1>10, <2>0
  <2>2. First(chain, p) = 4
    BY <1>2, <1>5, <1>10, <2>1, FirstRule
  <2> QED
    BY <1>7, <1>10, <2>2 DEF chain, p
<1>11. CASE to \notin ToSet(conf.ips) \cup {Listed, Resolved}
  <2>1. \A j \in 1..5 : Matches(chain[j], p) => 5 <= j
    BY <1>4, <1>5, <1>11
  <2>2. First(chain, p) = 5
    BY <1>2, <1>6, <2>1, FirstRule
  <2> QED
    BY <1>7, <1>11, <2>2 DEF chain, p
<1> QED
  BY <1>8, <1>9, <1>10, <1>11

(* In black mode it rejects what is on the list.                            *)
LEMMA BlackFilter ==
  ASSUME NEW conf, conf.model # "white", NEW user \in Graded, NEW to \in AnyHost(conf),
         NEW old \in BOOLEAN
  PROVE  LET p == Packet(user, to, old)
         IN StudentOut(conf)[First(StudentOut(conf), p)].verdict
              = IF to = Listed THEN "reject" ELSE "accept"
<1> DEFINE p == Packet(user, to, old)
<1> DEFINE chain == StudentOut(conf)
<1>1. p.user = user /\ p.to = to /\ p.old = old
  BY DEF Packet
<1>2. Len(chain) = 2
  BY DEF StudentOut
<1>3. /\ chain[1] = Rule(Users, {Listed}, FALSE, "reject")
      /\ chain[2] = Rule(Users, AnyHost(conf), FALSE, "accept")
  BY DEF StudentOut
<1>4. (Matches(chain[1], p) <=> to = Listed) /\ Matches(chain[2], p)
  BY <1>1, <1>3 DEF Matches, Rule, Users, Graded
<1>5. chain[1].verdict = "reject" /\ chain[2].verdict = "accept"
  BY <1>3 DEF Rule
<1> HIDE DEF chain, p
<1>6. First(chain, p) = IF to = Listed THEN 1 ELSE 2
  <2>1. CASE to = Listed
    BY <1>2, <1>4, <2>1, FirstRule
  <2>2. CASE to # Listed
    <3>1. \A j \in 1..2 : Matches(chain[j], p) => 2 <= j
      BY <1>4, <2>2
    <3> QED
      BY <1>2, <1>4, <2>2, <3>1, FirstRule
  <2> QED
    BY <2>1, <2>2
<1> QED
  BY <1>5, <1>6 DEF chain, p

(* The rules of the router do what the configuration asks for, whatever the *)
(* internal hosts and their addresses are.                                  *)
THEOREM RulesEnforce ==
  ASSUME NEW conf, conf.model \in {"white", "black"}
  PROVE  EnforcesPolicy(conf)
<1>1. /\ Local # Listed /\ Local # Resolved /\ Local # Elsewhere /\ Listed # Elsewhere
      /\ Resolved \in Fixed /\ Elsewhere \in Fixed
  BY DEF Local, Listed, Resolved, Elsewhere, Fixed
<1>2. ASSUME NEW user \in Graded, NEW to \in AnyHost(conf), NEW old \in BOOLEAN
      PROVE  Passes(conf, Packet(user, to, old)) <=> MayReach(conf, to)
  <2>1. Filter(conf, Packet(user, to, old))
          = IF to = Local THEN "accept"
            ELSE StudentOut(conf)[First(StudentOut(conf), Packet(user, to, old))].verdict
    BY GradedFilter
  <2>2. CASE to = Local
    BY <1>1, <2>1, <2>2 DEF Passes, MayReach
  <2>3. CASE to # Local /\ conf.model = "white"
    <3>1. StudentOut(conf)[First(StudentOut(conf), Packet(user, to, old))].verdict
            = IF to \in ToSet(conf.ips) \cup {Listed, Resolved} THEN "accept" ELSE "reject"
      BY <2>3, WhiteFilter
    <3> QED
      BY <2>1, <2>3, <3>1 DEF Passes, MayReach
  <2>4. CASE to # Local /\ conf.model = "black"
    <3>1. StudentOut(conf)[First(StudentOut(conf), Packet(user, to, old))].verdict
            = IF to = Listed THEN "reject" ELSE "accept"
      BY <2>4, BlackFilter
    <3> QED
      BY <2>1, <2>4, <3>1 DEF Passes, MayReach
  <2> QED
    BY <2>2, <2>3, <2>4
<1>3. ASSUME NEW user \in Graded, NEW d \in Domains
      PROVE  Reaches(conf, user, d) <=> (conf.model = "white") = (d = "listed")
  <2>1. {Resolved, Elsewhere} \subseteq AnyHost(conf)
    BY <1>1 DEF AnyHost
  <2>2. Passes(conf, Packet(user, Resolved, FALSE)) <=> MayReach(conf, Resolved)
    BY <1>2, <2>1
  <2>3. Passes(conf, Packet(user, Elsewhere, FALSE)) <=> MayReach(conf, Elsewhere)
    BY <1>2, <2>1
  <2>4. CASE conf.model = "white" /\ d = "listed"
    BY <1>1, <2>2, <2>4 DEF Reaches, Lookup, MayReach
  <2>5. CASE conf.model = "white" /\ d # "listed"
    BY <2>5 DEF Reaches, Lookup
  <2>6. CASE conf.model = "black" /\ d = "listed"
    BY <2>6 DEF Reaches, Lookup
  <2>7. CASE conf.model = "black" /\ d # "listed"
    BY <1>1, <2>3, <2>7 DEF Reaches, Lookup, MayReach
  <2> QED
    BY <2>4, <2>5, <2>6, <2>7
<1> QED
  BY <1>2, <1>3 DEF EnforcesPolicy

(* A router is started and recorded only where one is needed.               *)
Routed ==
  /\ pv.pc \in {"waithosts", "router", "connect"} => NeedRouter
  /\ pv.pc \in {"settle", "wait", "publish"} /\ pv.rec.router # {} => NeedRouter

(* The rest of provisioning keeps it.                                       *)
LEMMA NextRouted ==
  ASSUME Kept, Routed, [Next]_nvars
  PROVE  Routed'
<1> USE DEF Kept
<1>0. ASSUME UNCHANGED pv PROVE Routed'
  BY <1>0 DEF Routed, NeedRouter
<1>1. CASE \/ ListStale \/ RemoveStale \/ RemoveStaleNets \/ ReadConfig \/ FindDockerfiles
           \/ BuildImage \/ ImagesBuilt
  <2>1. ASSUME ListStale \/ RemoveStale
        PROVE  pv'.pc \in {"startup", "purge", "list", "stale"}
    BY <2>1, ListStaleStep, RemoveStaleStep, Fields DEF RemoveStale, Same
  <2>2. ASSUME RemoveStaleNets PROVE pv'.pc \in {"idle", "config"}
    BY <2>2, Fields DEF RemoveStaleNets, Quiet
  <2>3. ASSUME ReadConfig \/ FindDockerfiles PROVE pv'.pc \in {"checksum", "extract", "build", "topology"}
    BY <2>3, Fields DEF ReadConfig, FindDockerfiles, TakeChecksum, TakeFiles, Goto
  <2>4. ASSUME BuildImage \/ ImagesBuilt PROVE pv'.pc \in {"build", "topology"}
    BY <2>4, Fields DEF BuildImage, ImagesBuilt, Goto
  <2> QED
    BY <1>1, <2>1, <2>2, <2>3, <2>4 DEF Routed
<1>2. CASE DecideTopology
  <2>1. /\ pv'.pc \in {"network", "router", "publish"} /\ (pv'.pc = "router" => NeedRouter)
        /\ pv'.rec.router = {} /\ pv'.cfg = pv.cfg
    BY <1>2, DecideTopologyStep, Fields DEF DecideTopology, Same, NoRecord
  <2> QED
    BY <2>1 DEF Routed, NeedRouter
<1>3. CASE CreateNetwork \/ StartHost
  BY <1>3, CreateNetworkStep, StartHostStep, Fields DEF Same, Routed
<1>4. CASE HostsStarted
  <2>1. /\ pv'.cfg = pv.cfg /\ pv'.pc = IF NeedRouter THEN "waithosts" ELSE "wait"
        /\ \E m \in {"none", "net", "router"} : pv'.rec = [pv.rec EXCEPT !.mode = m]
        /\ pv.pc = "start"
    BY <1>4, HostsStartedStep, Fields DEF HostsStarted, Same
  <2>2. pv.rec.router = {} /\ pv.rec \in Record
    BY <2>1, MyType DEF Waiting, Starting
  <2>3. pv'.rec.router = {}
    BY <2>1, <2>2 DEF Record
  <2> QED
    BY <2>1, <2>3 DEF Routed, NeedRouter
<1>5. CASE \/ CannotStartHost \/ HostCreatedOnly \/ WaitTimesOut \/ CannotStartRouter
           \/ BeginAbort \/ FailAttempt \/ EndFailure \/ TakeSetup \/ Publish
  <2>1. ASSUME CannotStartHost \/ HostCreatedOnly PROVE pv'.pc = "abort"
    BY <2>1, CannotStartHostStep, HostCreatedOnlyStep
  <2>2. ASSUME WaitTimesOut \/ CannotStartRouter PROVE pv'.pc = "abort"
    BY <2>2, WaitTimesOutStep, CannotStartRouterStep
  <2>3. ASSUME BeginAbort \/ TakeSetup PROVE pv'.pc \in {"aborting", "list"}
    BY <2>3, BeginAbortStep, TakeSetupStep
  <2>4. ASSUME FailAttempt \/ EndFailure \/ Publish PROVE pv'.pc \in {"failed", "idle"}
    BY <2>4, Fields DEF FailAttempt, Goto, EndFailure, Publish, Quiet
  <2> QED
    BY <1>5, <2>1, <2>2, <2>3, <2>4 DEF Routed
<1>6. CASE WaitFor \/ CollectAddresses \/ StartRouter \/ ConnectRouter
  <2>1. pv'.cfg = pv.cfg
    BY <1>6, WaitForStep, CollectAddressesStep, StartRouterStep, ConnectRouterStep, Fields DEF Same
  <2>2. CASE WaitFor
    BY <2>1, <2>2, WaitForStep, Fields DEF Same, Routed, NeedRouter
  <2>3. CASE CollectAddresses \/ StartRouter \/ ConnectRouter
    <3>1. pv.pc \in {"waithosts", "router", "connect"}
      BY <2>3, StartRouterStep, ConnectRouterStep DEF CollectAddresses
    <3> QED
      BY <2>1, <3>1 DEF Routed, NeedRouter
  <2> QED
    BY <1>6, <2>2, <2>3
<1>7. CASE Settle \/ AllRunning
  <2>1. pv.pc \in {"settle", "wait"} /\ pv'.rec = pv.rec /\ pv'.cfg = pv.cfg
        /\ pv'.pc \in {"wait", "publish"}
    BY <1>7, SettleStep, AllRunningStep, Fields DEF Settle, AllRunning, Same
  <2> QED
    BY <2>1 DEF Routed, NeedRouter
<1>8. CASE Restart
  BY <1>8 DEF Restart, Quiet, Routed
<1>9. ASSUME NEW c \in cleaners, CleanUp(c) PROVE UNCHANGED pv
  BY <1>9 DEF CleanUp, Pop, Disconnect, StopBoxes, RemoveBox, BoxesRemoved, RemoveNetwork,
     NetworkStays
<1>10. CASE \/ Accept \/ Complete \/ UpdateDockerfiles \/ NetIdle \/ UNCHANGED nvars
            \/ RunEntrypoint \/ \E id \in Ids : BoxRuns(id) \/ BoxDies(id)
  BY <1>0, <1>10 DEF Accept, Complete, UpdateDockerfiles, NetIdle, RunEntrypoint, BoxRuns,
     BoxDies, nvars
<1> QED
  BY <1>0, <1>1, <1>2, <1>3, <1>4, <1>5, <1>6, <1>7, <1>8, <1>9, <1>10
     DEF Next, CleanUps, Containers, Provision

(* The router of an attempt that gets to its cases does what the problem's  *)
(* configuration says: it is only started for a white or black list.        *)
THEOREM PolicyHolds == Spec => []PolicyEnforced
<1>1. Init => Routed
  BY DEF Init, Quiet, Routed
<1>2. Kept /\ Routed /\ [Next]_nvars => Routed'
  BY NextRouted
<1>3. Kept /\ Routed => PolicyEnforced
  <2> SUFFICES ASSUME Kept, Routed, pv.pc = "publish", pv.rec.router # {}
               PROVE  EnforcesPolicy(RouterConf)
    BY DEF PolicyEnforced
  <2>1. pv.cfg.external \in {"white", "black"}
    BY DEF Routed, NeedRouter, Kept, NetTypes, PvType, Config
  <2>2. RouterConf.model \in {"white", "black"}
    BY <2>1 DEF RouterConf
  <2> QED
    BY <2>2, RulesEnforce
<1> QED
  BY <1>1, <1>2, <1>3, AlwaysKept, PTL DEF Spec

-----------------------------------------------------------------------------
(* A range of numbers that begins at 1 has as many elements as its end.     *)
LEMMA UpTo ==
  ASSUME NEW n \in Nat
  PROVE  Cardinality(1..n) = n
<1>1. 1 \in Int /\ n \in Int
  OBVIOUS
<1>2. Cardinality(1..n) = IF 1 > n THEN 0 ELSE n - 1 + 1
  BY <1>1, FS_Interval
<1> QED
  BY <1>2

(* When all of them run, the addresses are those of all hosts, in order.    *)
LEMMA AllHosts ==
  ASSUME NetTypes, NEW ids, MyIds \subseteq ids
  PROVE  HostsAmong(ids) = Hosts
<1> DEFINE n == Len(Hosts)
           at == {i \in DOMAIN Hosts : Me(Hosts[i]) \in ids}
           Nth(k) == CHOOSE i \in at : Cardinality({j \in at : j < i}) = k - 1
<1>1. Hosts \in Seq(Names) /\ n \in Nat /\ DOMAIN Hosts = 1..n
  BY HostsType
<1>2. at = 1..n
  <2>1. \A i \in 1..n : Hosts[i] \in ToSet(Hosts)
    BY <1>1 DEF ToSet
  <2> QED
    BY <1>1, <2>1 DEF MyIds
<1>3. Cardinality(at) = n
  <2>1. Cardinality(1..n) = n
    BY <1>1, UpTo
  <2> QED
    BY <1>2, <2>1
<1>4. ASSUME NEW i \in 1..n PROVE Cardinality({j \in at : j < i}) = i - 1
  <2>1. {j \in at : j < i} = 1..(i - 1)
    BY <1>1, <1>2
  <2>2. i - 1 \in Nat
    OBVIOUS
  <2>3. Cardinality(1..(i - 1)) = i - 1
    BY <2>2, UpTo
  <2> QED
    BY <2>1, <2>3
<1>5. ASSUME NEW k \in 1..n PROVE Nth(k) = k
  <2>1. \A i \in at : (Cardinality({j \in at : j < i}) = k - 1) <=> i = k
    BY <1>1, <1>2, <1>4
  <2>2. k \in at
    BY <1>2
  <2> QED
    BY <2>1, <2>2
<1>6. HostsAmong(ids) = [k \in 1..Cardinality(at) |-> Hosts[Nth(k)]]
  BY DEF HostsAmong
<1>7. HostsAmong(ids) = [k \in 1..n |-> Hosts[k]]
  <2> HIDE DEF n, at, Nth
  <2> QED
    BY <1>3, <1>5, <1>6
<1> QED
  BY <1>1, <1>7

(* Once names and addresses were collected, both lists are those of the     *)
(* hosts, until the attempt is over.                                        *)
Collected == pv.pc \in {"router", "connect"} \/ pv.rec.router # {}
Before    == Early \cup {"idle", "startup", "purge"}
Named ==
  /\ pv.pc \in Before => pv.rec.nets = {}
  /\ Collected /\ pv.rec.nets # {} /\ ~pv.missed => pv.names = Hosts /\ pv.ips = Hosts

(* A step of provisioning that changes nothing the lists depend on.         *)
LEMMA SameNamed ==
  ASSUME NetTypes, Named, Same({"pc", "todo", "seen", "fresh", "order"}),
         pv'.pc \notin Before, pv'.pc \notin {"router", "connect"}
  PROVE  Named'
<1>1. /\ pv'.rec = pv.rec /\ pv'.missed = pv.missed /\ pv'.names = pv.names
      /\ pv'.ips = pv.ips /\ pv'.cfg = pv.cfg /\ pv'.built = pv.built
  BY Fields DEF Same
<1>2. Hosts' = Hosts
  BY <1>1 DEF Hosts, SideHosts, EnvHosts
<1> QED
  BY <1>1, <1>2 DEF Named, Collected

(* Names and addresses are collected when the hosts are there.              *)
LEMMA CollectNamed ==
  ASSUME NetTypes, CollectAddresses
  PROVE  Named'
<1>1. /\ pv'.cfg = pv.cfg /\ pv'.built = pv.built /\ pv'.pc = "router"
  BY CollectAddressesStep, Fields DEF Same
<1>2. Hosts' = Hosts
  BY <1>1 DEF Hosts, SideHosts, EnvHosts
<1>3. /\ pv'.names = HostNames
      /\ ~pv'.missed => pv'.ips = HostsAmong(up) /\ MyIds \subseteq up
  BY Fields DEF CollectAddresses
<1>4. HostNames = Hosts
  BY DEF HostNames, Hosts
<1>5. ~pv'.missed => pv'.ips = Hosts
  BY <1>3, AllHosts
<1> QED
  BY <1>1, <1>2, <1>3, <1>4, <1>5 DEF Named, Before, Early

(* The lists stay those of the hosts.                                       *)
LEMMA NextNamed ==
  ASSUME Kept, Named, [Next]_nvars
  PROVE  Named'
<1> USE DEF Kept
<1>0. ASSUME UNCHANGED pv PROVE Named'
  BY <1>0 DEF Named, Collected, Hosts, SideHosts, EnvHosts
<1>1. ASSUME pv'.rec.nets = {} PROVE Named'
  BY <1>1 DEF Named
<1>2. CASE \/ ListStale \/ RemoveStale \/ RemoveStaleNets \/ ReadConfig \/ FindDockerfiles
           \/ BuildImage \/ ImagesBuilt \/ TakeSetup
  <2>1. CASE RemoveStaleNets
    <3>1. pv.rec.nets = {}
      BY <2>1 DEF RemoveStaleNets, Named, Before, Early
    <3>2. pv'.rec = pv.rec \/ pv'.rec = NoRecord
      BY <2>1, Fields DEF RemoveStaleNets, Quiet
    <3> QED
      BY <1>1, <3>1, <3>2 DEF NoRecord
  <2>2. CASE ListStale \/ RemoveStale
    <3>1. pv.pc \in Before
      BY <2>2, ListStaleStep DEF RemoveStale, Before, Early
    <3>2. pv'.rec = pv.rec
      BY <2>2, ListStaleStep, RemoveStaleStep, Fields DEF Same
    <3> QED
      BY <1>1, <3>1, <3>2 DEF Named
  <2>3. CASE ReadConfig \/ FindDockerfiles \/ BuildImage \/ ImagesBuilt \/ TakeSetup
    <3>1. pv.pc \in Before
      BY <2>3, ReadConfigStep, FindDockerfilesStep, BuildImageStep, ImagesBuiltStep,
         TakeSetupStep DEF Before, Early
    <3>2. pv'.rec = pv.rec
      BY <2>3, ReadConfigStep, FindDockerfilesStep, BuildImageStep, ImagesBuiltStep,
         TakeSetupStep, Fields DEF Same
    <3> QED
      BY <1>1, <3>1, <3>2 DEF Named
  <2> QED
    BY <1>2, <2>1, <2>2, <2>3
<1>3. CASE DecideTopology
  BY <1>1, <1>3, DecideTopologyStep DEF NoRecord
<1>4. CASE CreateNetwork \/ StartHost \/ HostsStarted
  <2>1. pv.pc \in {"network", "start"} /\ pv'.pc \in {"start", "abort", "waithosts", "wait"}
    BY <1>4, CreateNetworkStep, StartHostStep, HostsStartedStep, Fields DEF Same
  <2>2. pv.rec.router = {} /\ pv.rec \in Record
    BY <2>1, MyType DEF Waiting, IdsOf, Starting
  <2>3. pv'.rec.router = pv.rec.router
    BY <1>4, <2>2, CreateNetworkStep, StartHostStep, HostsStartedStep DEF Record
  <2> QED
    BY <2>1, <2>2, <2>3 DEF Named, Collected, Before, Early
<1>5. CASE \/ CannotStartHost \/ HostCreatedOnly \/ WaitFor \/ WaitTimesOut
           \/ CannotStartRouter \/ Settle \/ AllRunning \/ BeginAbort
  <2>1. pv'.pc \in {"waithosts", "wait", "abort", "publish", "aborting"}
    BY <1>5, CannotStartHostStep, HostCreatedOnlyStep, WaitForStep, WaitTimesOutStep,
       CannotStartRouterStep, SettleStep, AllRunningStep, BeginAbortStep, Fields DEF Same
  <2>2. Same({"pc", "todo", "seen", "fresh", "order"})
    BY <1>5, CannotStartHostStep, HostCreatedOnlyStep, WaitForStep, WaitTimesOutStep,
       CannotStartRouterStep, SettleStep, AllRunningStep, BeginAbortStep DEF Same
  <2> QED
    BY <2>1, <2>2, SameNamed DEF Before, Early
<1>6. CASE CollectAddresses
  BY <1>6, CollectNamed
<1>7. CASE StartRouter \/ ConnectRouter
  <2>1. /\ pv.pc \in {"router", "connect"} /\ pv'.pc \in {"connect", "settle", "abort"}
        /\ pv'.missed = pv.missed /\ pv'.names = pv.names
        /\ pv'.ips = pv.ips /\ pv'.cfg = pv.cfg /\ pv'.built = pv.built
    BY <1>7, StartRouterStep, ConnectRouterStep, Fields DEF Same
  <2>2. pv.rec \in Record
    BY <2>1, MyType DEF Starting
  <2>3. pv'.rec.nets = pv.rec.nets
    BY <1>7, <2>2, StartRouterStep, ConnectRouterStep DEF Record
  <2>4. Hosts' = Hosts
    BY <2>1 DEF Hosts, SideHosts, EnvHosts
  <2> QED
    BY <2>1, <2>3, <2>4 DEF Named, Collected, Before, Early
<1>8. CASE Publish \/ EndFailure \/ FailAttempt \/ Restart
  <2>1. \/ pv'.rec = NoRecord
        \/ Same({"pc"}) /\ pv'.pc = "failed"
    BY <1>8, GotoSame DEF Publish, EndFailure, FailAttempt, Restart, Quiet
  <2>2. CASE pv'.rec = NoRecord
    BY <1>1, <2>2 DEF NoRecord
  <2>3. CASE Same({"pc"}) /\ pv'.pc = "failed"
    BY <2>3, SameNamed DEF Same, Before, Early
  <2> QED
    BY <2>1, <2>2, <2>3
<1>9. ASSUME NEW c \in cleaners, CleanUp(c) PROVE UNCHANGED pv
  BY <1>9 DEF CleanUp, Pop, Disconnect, StopBoxes, RemoveBox, BoxesRemoved, RemoveNetwork,
     NetworkStays
<1>10. CASE \/ Accept \/ Complete \/ UpdateDockerfiles \/ NetIdle \/ UNCHANGED nvars
            \/ RunEntrypoint \/ \E id \in Ids : BoxRuns(id) \/ BoxDies(id)
  BY <1>0, <1>10 DEF Accept, Complete, UpdateDockerfiles, NetIdle, RunEntrypoint, BoxRuns,
     BoxDies, nvars
<1> QED
  BY <1>0, <1>2, <1>3, <1>4, <1>5, <1>6, <1>7, <1>8, <1>9, <1>10
     DEF Next, CleanUps, Containers, Provision

(* The router gives every internal name the address of its own host: the    *)
(* two lists have the hosts in one order, made of configurations and of     *)
(* containers, unless an address was missing.                               *)
THEOREM NamesRight == Spec => []NamesResolve
<1>1. Init => Named
  BY DEF Init, Quiet, NoRecord, Named
<1>2. Kept /\ Named /\ [Next]_nvars => Named'
  BY NextNamed
<1>3. Kept /\ Named => NamesResolve
  <2> SUFFICES ASSUME Kept, Named, pv.rec.router # {}, pv.rec.nets # {}, ~pv.missed
               PROVE  HostRecords(RouterConf) = {<<n, n>> : n \in ToSet(Hosts)}
    BY DEF NamesResolve
  <2>1. pv.names = Hosts /\ pv.ips = Hosts
    BY DEF Named, Collected
  <2>2. RouterConf.names = Hosts /\ RouterConf.ips = Hosts
    BY <2>1 DEF RouterConf
  <2>3. HostRecords(RouterConf) = {<<Hosts[i], Hosts[i]>> : i \in DOMAIN Hosts}
    BY <2>2 DEF HostRecords
  <2> QED
    BY <2>3 DEF ToSet
<1> QED
  BY <1>1, <1>2, <1>3, AlwaysKept, PTL DEF Spec
=============================================================================
