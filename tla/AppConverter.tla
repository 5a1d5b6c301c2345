---------------------------- MODULE AppConverter ----------------------------
(***************************************************************************)
(* How the Compose services of an app become the objects of a pod          *)
(* (adapters/kube/converter.go): NewConverter, Convert, BindVolumes and    *)
(* Build, with their callers app deploy (validateApp) and box deploy, and  *)
(* the check of the network rules that comes before (ToModels).            *)
(*                                                                         *)
(* A converter takes the services one by one, in any order, and collects   *)
(* what they need together: the owners of the container ports, the routes  *)
(* from host ports, the directories to create, the volumes of configs and  *)
(* secrets.  Sizes, modes, labels, resources and environments are left     *)
(* out.  Names are none of Rollout's, because AppDeploy_proofs uses both.  *)
(***************************************************************************)
EXTENDS Naturals, FiniteSets, SequencesExt

CONSTANTS
  Inputs,     \* apps and what is asked for, by number: see InputOK
  Absent,
  Reserved,   \* names with the prefix of the app's own services
  Namespaces, \* of the cluster,
  Trusted,    \*   those that may always connect: its own, kube-system, Traefik's
  Ports       \* of network rules

Files == {"configs", "secrets"}

VolumeName(kind, n) == (IF kind = "configs" THEN "cfg-" ELSE "sec-") \o n

KeyPath == "/etc/ssh/authorized_keys"

IsSequence(s) == s \in Seq(ToSet(s))

\* An app, as the stores and compose-go give it: a service has no two volumes with one
\* target (KubeConverter.ja.md:255).  A port that is 0 is missing or not a number, and a
\* host whose port is 0 is one the app names.  Names of volumes, and the mounts of a box,
\* are whatever somebody wrote.
InputOK(in) ==
  /\ in.who \in {"app", "box", "other"}
  /\ \A s, t \in in.services : s.name = t.name => s = t
  /\ \A s \in in.services :
       /\ ToSet(s.ports) \subseteq [host : Nat, container : Nat]
       /\ \A kind \in Files : IsFiniteSet(DOMAIN s[kind])
       /\ \A v, w \in ToSet(s.volumes) : v.target = w.target => v = w
  /\ IsSequence(in.volumes)
  /\ \A v \in ToSet(in.volumes) : Absent \notin in.disks[v]
  /\ IsSequence(in.rules)
  /\ \A r \in ToSet(in.rules) : \A h \in ToSet(r.hosts) : h.port = 0
  /\ \A rule \in ToSet(in.allow) : IsSequence(rule.from) /\ IsSequence(rule.ports)
  /\ IsSequence(in.boxMounts)

ASSUME ConverterAssumption ==
  /\ \A i \in DOMAIN Inputs : InputOK(Inputs[i])
  /\ Trusted \subseteq Namespaces

VARIABLES
  input,  \* which of the inputs; never changes
  stage,  \* what is done next
  rest,   \* services not converted yet
  owner,  \* containerPortOwner: container port -> service
  route,  \* hostPortToContainer
  dirs,   \* subPathsPerVolume: <<volume, path>>
  mounts, \* of the containers, by service
  shared, \* volumes of configs and secrets
  warned, \* warnings: volumes that lose their target, <<service, target>>
  told,   \* the warnings Convert returns
  policy, \* rules of the NetworkPolicy
  ports,  \* of the Service, or Absent
  hosts,  \* rules of the two Ingresses
  bound,  \* VolumeBindings: <<volume, disk>>
  pod     \* the pod of the Deployment, or Absent

convertVars == <<input, stage, rest, owner, route, dirs, mounts, shared, warned, told,
                 policy, ports, hosts, bound, pod>>

collected == <<rest, owner, route, dirs, mounts, shared, warned>>

at == Inputs[input]

ConvertInit ==
  /\ input \in DOMAIN Inputs
  /\ stage = "admit"
  /\ rest = at.services
  /\ owner = <<>> /\ route = <<>>
  /\ dirs = {}
  /\ mounts = <<>>
  /\ shared = {}
  /\ warned = {} /\ told = {}
  /\ policy = {}
  /\ ports = Absent
  /\ hosts = {}
  /\ bound = <<>>
  /\ pod = Absent

Enter(next) == stage' = next /\ UNCHANGED input

GiveUp ==
  /\ Enter("failed")
  /\ UNCHANGED <<collected, told, policy, ports, hosts, bound, pod>>

-----------------------------------------------------------------------------
(* Reading.                                                                  *)

\* Mutant of RuleRight: the peers are not looked at.
RuleRightAnyPeer(rule) == rule.from # <<>>

\* A rule needs peers, and every peer a selector that is not empty.
RuleRight(rule) ==
  /\ rule.from # <<>>
  /\ \A peer \in ToSet(rule.from) : peer.selector = "some"

Admit ==
  /\ stage = "admit"
  /\ \A rule \in ToSet(at.allow) : RuleRight(rule)
  /\ Enter("read")
  /\ UNCHANGED <<collected, told, policy, ports, hosts, bound, pod>>

Refuse ==
  /\ stage = "admit"
  /\ \E rule \in ToSet(at.allow) : ~RuleRight(rule)
  /\ GiveUp

\* Only an app with local references has files: of its own, of environments, of
\* configs and secrets.
ComposeRight == at.compose = "inline" \/ (at.compose = "file" /\ at.local)

EnvRight(s) == s.env = "none" \/ (s.env = "right" /\ at.local)

ContentRight(content) == content \in {"external", "inline"} \/ (content = "file" /\ at.local)

Readable ==
  /\ ComposeRight
  /\ \A s \in at.services : EnvRight(s)
  /\ \A kind \in Files : \A n \in DOMAIN at[kind] : ContentRight(at[kind][n])

Read ==
  /\ stage = "read"
  /\ Readable
  /\ Enter("services")
  /\ UNCHANGED <<collected, told, policy, ports, hosts, bound, pod>>

ReadFails == stage = "read" /\ ~Readable /\ GiveUp

-----------------------------------------------------------------------------
(* One service.                                                              *)

\* A map with what is in f put into it.
PutInto(map, f) ==
  [k \in DOMAIN f \cup DOMAIN map |-> IF k \in DOMAIN f THEN f[k] ELSE map[k]]

HostPorts(s) == {p.host : p \in ToSet(s.ports)}
ContainerPorts(s) == {p.container : p \in ToSet(s.ports)}
RouteOf(s) == [h \in HostPorts(s) |-> (CHOOSE p \in ToSet(s.ports) : p.host = h).container]

\* Mutant of PortsRight: two services share a container port.
PortsRightShared(s) ==
  /\ 0 \notin HostPorts(s) \cup ContainerPorts(s)
  /\ \A p, q \in ToSet(s.ports) : p.host = q.host => p = q
  /\ \A p \in ToSet(s.ports) : p.host \in DOMAIN route => route[p.host] = p.container

PortsRight(s) ==
  /\ 0 \notin HostPorts(s) \cup ContainerPorts(s)
  /\ \A c \in ContainerPorts(s) \cap DOMAIN owner : owner[c] = s.name
  /\ \A p, q \in ToSet(s.ports) : p.host = q.host => p = q
  /\ \A p \in ToSet(s.ports) : p.host \in DOMAIN route => route[p.host] = p.container

\* A clean source is relative, without a colon, and no single file.  What is bound is
\* a directory of the first volume.
VolumeRight(v) ==
  /\ v.clean
  /\ \/ v.type = "bind" /\ at.local /\ at.volumes # <<>>
     \/ v.type = "volume" /\ v.name \in ToSet(at.volumes)

Backing(v) == IF v.type = "bind" THEN Head(at.volumes) ELSE v.name

\* What is mounted of configs and secrets, <<kind, index>>: external ones are not.
Refs(s) ==
  UNION {{<<kind, i>> : i \in {j \in DOMAIN s[kind] : at[kind][s[kind][j].source] # "external"}} :
           kind \in Files}

Source(s, r) == s[r[1]][r[2]].source

Target(s, r) ==
  IF s[r[1]][r[2]].target # Absent THEN s[r[1]][r[2]].target
  ELSE (IF r[1] = "configs" THEN "/" ELSE "/run/secrets/") \o Source(s, r)

RefsRight(s) == \A kind \in Files : \A ref \in ToSet(s[kind]) : ref.source \in DOMAIN at[kind]

\* checkTargetConflict: of configs and secrets with one target.
Unambiguous(s) == \A q, r \in Refs(s) : Target(s, q) = Target(s, r) => q = r

Taken(s) == {v.target : v \in ToSet(s.volumes)} \cap {Target(s, r) : r \in Refs(s)}

Mount(volume, target, sub) == [volume |-> volume, target |-> target, sub |-> sub]

AllMounts(s) ==
  {Mount(Backing(v), v.target, v.sub) : v \in ToSet(s.volumes)} \cup
  {Mount(VolumeName(r[1], Source(s, r)), Target(s, r), Source(s, r)) : r \in Refs(s)}

\* Mutant of Kept: nothing gives way.
KeptAll(s) == AllMounts(s)

\* A volume gives way to a config or secret.
Kept(s) ==
  {m \in AllMounts(s) : ~(m.volume \in ToSet(at.volumes) /\ m.target \in Taken(s))}

\* The volumes of the configs and secrets it mounts.
FilesOf(s) == {VolumeName(r[1], Source(s, r)) : r \in Refs(s)}

\* The init container makes those that are mounted below the root of a volume.
Directories(s) == {<<Backing(v), v.sub>> : v \in {w \in ToSet(s.volumes) : w.sub # Absent}}

Convertible(s) ==
  /\ PortsRight(s)
  /\ \A v \in ToSet(s.volumes) : VolumeRight(v)
  /\ RefsRight(s)
  /\ Unambiguous(s)

\* In any order: the services of a project are a map (compose-go v2).
ConvertService ==
  /\ stage = "services"
  /\ \E s \in rest :
        /\ Convertible(s)
        /\ rest' = rest \ {s}
        /\ owner' = PutInto(owner, [c \in ContainerPorts(s) |-> s.name])
        /\ route' = PutInto(route, RouteOf(s))
        /\ dirs' = dirs \cup Directories(s)
        /\ mounts' = PutInto(mounts, [n \in {s.name} |-> Kept(s)])
        /\ shared' = shared \cup FilesOf(s)
        /\ warned' = warned \cup {<<s.name, t>> : t \in Taken(s)}
  /\ UNCHANGED <<input, stage, told, policy, ports, hosts, bound, pod>>

ServiceFails ==
  /\ stage = "services"
  /\ \E s \in rest : ~Convertible(s)
  /\ GiveUp

-----------------------------------------------------------------------------
(* What the app shows to others.                                             *)

\* A peer without a selector, or an empty one, is skipped; a rule without peers and
\* ports altogether too.  {} stands for all.
Peers(rule) ==
  {peer.spaces : peer \in {q \in ToSet(rule.from) : q.selector = "some"}}

RulesOfPolicy ==
  {[from |-> {Trusted}, ports |-> {}]} \cup
  ({[from |-> Peers(rule), ports |-> ToSet(rule.ports)] : rule \in ToSet(at.allow)}
     \ {[from |-> {}, ports |-> {}]})

BuildPolicy ==
  /\ stage = "services"
  /\ rest = {}
  /\ policy' = RulesOfPolicy
  /\ Enter("service")
  /\ UNCHANGED <<collected, told, ports, hosts, bound, pod>>

RuleAt(i) == at.rules[i]

\* Rules of the app's ingress: the names are right, and no port, no host and no
\* container port, unless by the same name, is in two of them.
RulesRight ==
  /\ \A i \in DOMAIN at.rules :
       /\ RuleAt(i).name # Absent
       /\ RuleAt(i).port \in DOMAIN route
       /\ \A h \in ToSet(RuleAt(i).hosts) : h.domain # at.domain
       /\ \A k, l \in DOMAIN RuleAt(i).hosts : RuleAt(i).hosts[k] = RuleAt(i).hosts[l] => k = l
  /\ \A i, j \in DOMAIN at.rules : i # j =>
       /\ RuleAt(i).port # RuleAt(j).port
       /\ route[RuleAt(i).port] = route[RuleAt(j).port] => RuleAt(i).name = RuleAt(j).name
       /\ ToSet(RuleAt(i).hosts) \cap ToSet(RuleAt(j).hosts) = {}

NamesFree == \A s \in at.services : s.name \notin Reserved

\* The names of ports without rules, which nothing refers to, are left out.
ServicePorts ==
  IF at.rules # <<>>
    THEN {[name |-> r.name, port |-> r.port, target |-> route[r.port]] : r \in ToSet(at.rules)}
    ELSE {[name |-> Absent, port |-> h, target |-> route[h]] : h \in DOMAIN route}

BuildService ==
  /\ stage = "service"
  /\ RulesRight
  /\ NamesFree
  /\ ports' = IF ServicePorts = {} THEN Absent ELSE ServicePorts
  /\ Enter("ingress")
  /\ UNCHANGED <<collected, told, policy, hosts, bound, pod>>

ExposeFails == stage = "service" /\ ~(RulesRight /\ NamesFree) /\ GiveUp

PortName(r) == (CHOOSE p \in ports : p.target = route[r.port]).name

Custom(r) == {[host |-> h, name |-> PortName(r)] : h \in ToSet(r.hosts)}

\* The default host of a rule is made of its port.
Default(r) ==
  IF at.domain = Absent THEN {}
  ELSE {[host |-> [label |-> "", port |-> r.port, domain |-> at.domain], name |-> PortName(r)]}

HostsOfRules == UNION {Custom(r) \cup Default(r) : r \in ToSet(at.rules)}

\* The end of Convert.  It returns a list of its own for the warnings.
BuildIngress ==
  /\ stage = "ingress"
  /\ hosts' = HostsOfRules
  /\ told' = {}
  /\ Enter(IF at.who = "other" THEN "ok" ELSE "bind")
  /\ UNCHANGED <<collected, policy, ports, bound, pod>>

-----------------------------------------------------------------------------
(* Binding and the pod.                                                      *)

\* The volume of an app needs one assigned disk, with a handle and a class.
Assigned(v) == {d \in at.disks[v] : d.assigned}

Bindable(v) == Cardinality(Assigned(v)) = 1 /\ \A d \in Assigned(v) : d.handle

\* Mutant of BindApp: the disk of the first volume is kept for all.
BindAppFirst ==
  /\ stage = "bind"
  /\ at.who = "app"
  /\ \A v \in ToSet(at.volumes) : Bindable(v)
  /\ bound' = [i \in DOMAIN at.volumes |->
                 [volume |-> at.volumes[i],
                  disk |-> CHOOSE d \in Assigned(at.volumes[1]) : TRUE]]
  /\ Enter("build")
  /\ UNCHANGED <<collected, told, policy, ports, hosts, pod>>

BindApp ==
  /\ stage = "bind"
  /\ at.who = "app"
  /\ \A v \in ToSet(at.volumes) : Bindable(v)
  /\ bound' = [i \in DOMAIN at.volumes |->
                 [volume |-> at.volumes[i],
                  disk |-> CHOOSE d \in Assigned(at.volumes[i]) : TRUE]]
  /\ Enter("build")
  /\ UNCHANGED <<collected, told, policy, ports, hosts, pod>>

AppUnbound ==
  /\ stage = "bind"
  /\ at.who = "app"
  /\ \E v \in ToSet(at.volumes) : ~Bindable(v)
  /\ GiveUp

\* A box may mount any disk of the app's volumes.
MountRight(m) ==
  /\ m.volume \in ToSet(at.volumes)
  /\ m.disk \in at.disks[m.volume]
  /\ m.disk.handle

BindBox ==
  /\ stage = "bind"
  /\ at.who = "box"
  /\ \A m \in ToSet(at.boxMounts) : MountRight(m)
  /\ bound' = [i \in DOMAIN at.boxMounts |->
                 [volume |-> at.boxMounts[i].volume, disk |-> at.boxMounts[i].disk]]
  /\ Enter("build")
  /\ UNCHANGED <<collected, told, policy, ports, hosts, pod>>

BoxUnbound ==
  /\ stage = "bind"
  /\ at.who = "box"
  /\ \E m \in ToSet(at.boxMounts) : ~MountRight(m)
  /\ GiveUp

\* The claim of a disk: VolumeResourceName hashes its volume and handle.
Claim(b) == b

\* The volumes of the pod are a sequence of names and of what they stand for.
ClaimsOfApp == [i \in DOMAIN bound |-> [name |-> bound[i].volume, claim |-> Claim(bound[i])]]

Contents == SetToSeq({[name |-> n, claim |-> Absent] : n \in shared})

PodOfApp == [volumes |-> ClaimsOfApp \o Contents, mounts |-> mounts, dirs |-> dirs]

Build ==
  /\ stage = "build"
  /\ at.who = "app"
  /\ pod' = PodOfApp
  /\ Enter("ok")
  /\ UNCHANGED <<collected, told, policy, ports, hosts, bound>>

\* A box has its own container, where the disks go by their claims, and a key for SSH.
ClaimsOfBox == [i \in DOMAIN bound |-> [name |-> Claim(bound[i]), claim |-> Claim(bound[i])]]

Key == [name |-> Claim([volume |-> "authorized-keys", disk |-> Absent]), claim |-> Absent]

MountsOfBox ==
  {Mount(Claim(bound[i]), at.boxMounts[i].path, Absent) : i \in DOMAIN bound} \cup
  (IF at.key THEN {Mount(Key.name, KeyPath, "authorized_keys")} ELSE {})

PodOfBox ==
  [volumes |-> ClaimsOfBox \o (IF at.key THEN <<Key>> ELSE <<>>),
   mounts |-> [c \in {"box"} |-> MountsOfBox], dirs |-> {}]

BuildBox ==
  /\ stage = "build"
  /\ at.who = "box"
  /\ pod' = PodOfBox
  /\ Enter("ok")
  /\ UNCHANGED <<collected, told, policy, ports, hosts, bound>>

ConvertNext ==
  \/ Admit \/ Refuse \/ Read \/ ReadFails
  \/ ConvertService \/ ServiceFails
  \/ BuildPolicy \/ BuildService \/ ExposeFails \/ BuildIngress
  \/ BindApp \/ AppUnbound \/ BindBox \/ BoxUnbound
  \/ Build \/ BuildBox

ConvertSpec == ConvertInit /\ [][ConvertNext]_convertVars

-----------------------------------------------------------------------------
(* Properties.                                                               *)

Stages == {"admit", "read", "services", "service", "ingress", "bind", "build"}

ConvertTypeOK ==
  /\ input \in DOMAIN Inputs
  /\ stage \in Stages \cup {"ok", "failed"}
  /\ rest \subseteq at.services
  /\ \A h \in DOMAIN route : route[h] \in DOMAIN owner
  /\ \A d \in dirs : d[1] \in ToSet(at.volumes)
  /\ DOMAIN mounts = {s.name : s \in at.services \ rest}
  /\ \A i \in DOMAIN bound :
       bound[i].volume \in ToSet(at.volumes) /\ bound[i].disk \in at.disks[bound[i].volume]

\* What an app would have to respect and nothing on the way to its pod checks: only the
\* old format checks the names of volumes (config/kompoxopscfg/validate.go:51), and
\* nobody compares them with the names Build makes up for files.
FilesApart == ToSet(at.volumes) \cap UNION {FilesOf(s) : s \in at.services} = {}

VolumesApart == FilesApart /\ IsInjective(at.volumes)

\* And a box: its mounts are of different disks, at different paths, not over its key
\* (usecase/box/deploy.go:86).
BoxApart ==
  /\ \A i, j \in DOMAIN at.boxMounts : i # j =>
       /\ \/ at.boxMounts[i].volume # at.boxMounts[j].volume
          \/ at.boxMounts[i].disk # at.boxMounts[j].disk
       /\ at.boxMounts[i].path # at.boxMounts[j].path
  /\ at.key => \A m \in ToSet(at.boxMounts) : m.path # KeyPath

\* Kubernetes accepts a pod whose volumes have names of their own and in whose containers
\* every mount has a place of its own.
Acceptable ==
  /\ \A i, j \in DOMAIN pod.volumes : pod.volumes[i].name = pod.volumes[j].name => i = j
  /\ \A c \in DOMAIN pod.mounts : \A m, n \in pod.mounts[c] : m.target = n.target => m = n

\* Whatever was written, a mount of the pod (Build, converter.go:1246; box/deploy.go:145)
\* is of one of its volumes, and the directories mounted are made before.  The pod is
\* acceptable exactly when these names were apart: nothing else an app says can spoil it.
\* And a service then has what it asked for where it asked for it, of two claims to a
\* place the file's; a volume with the name of a file's can cost it both.
PodMountable ==
  pod # Absent =>
    LET Names == {v.name : v \in ToSet(pod.volumes)}
    IN /\ \A c \in DOMAIN pod.mounts : \A m \in pod.mounts[c] : m.volume \in Names
       /\ \A d \in pod.dirs : d[1] \in Names
       /\ Acceptable <=> (IF at.who = "app" THEN VolumesApart ELSE BoxApart)
       /\ at.who = "app" => \A s \in at.services :
            /\ \A m \in pod.mounts[s.name] :
                 m.sub # Absent /\ m.volume \notin shared => <<m.volume, m.sub>> \in pod.dirs
            /\ FilesApart =>
                 /\ \A v \in ToSet(s.volumes) : \E m \in pod.mounts[s.name] :
                      m.target = v.target /\ (m.volume = Backing(v) \/ m.volume \in FilesOf(s))
                 /\ \A r \in Refs(s) : \E m \in pod.mounts[s.name] :
                      m.target = Target(s, r) /\ m.volume = VolumeName(r[1], Source(s, r))

\* Traefik finds the way the app describes (KubeConverter.ja.md:600): a host leads, by
\* the name of a port of the Service, to the one service that publishes the port of
\* its rule.  A Service in which two ports have one name is refused by Kubernetes.
HostsLeadRight ==
  stage \in {"bind", "build", "ok"} /\ at.rules # <<>> /\
  (\A p, q \in ports : p.name = q.name => p = q) =>
    /\ \A h, g \in hosts : h.host = g.host => h = g
    /\ \A r \in ToSet(at.rules), h \in hosts :
         h.host \in ToSet(r.hosts) \/ h.host.port = r.port =>
           \E p \in ports, s \in at.services :
             /\ p.name = h.name
             /\ [host |-> r.port, container |-> p.target] \in ToSet(s.ports)
             /\ \A t \in at.services : p.target \in ContainerPorts(t) => t = s

\* Who may connect where: pairs of a namespace and a port.
Opened(rule) ==
  {c \in Namespaces \X Ports :
     /\ rule.from = {} \/ \E spaces \in rule.from : c[1] \in spaces
     /\ rule.ports = {} \/ c[2] \in rule.ports}

Written(rule) ==
  {c \in Namespaces \X Ports :
     /\ \E peer \in ToSet(rule.from) : peer.selector = "some" /\ c[1] \in peer.spaces
     /\ rule.ports = <<>> \/ c[2] \in ToSet(rule.ports)}

\* The policy lets in the known namespaces and what the rules write, and nothing else
\* (KubeConverter.ja.md:874), although Convert (converter.go:790) skips peers: a rule
\* all of whose peers it skips would let in everybody.
PolicyAsWritten ==
  policy # {} =>
    UNION {Opened(rule) : rule \in policy} =
      (Trusted \X Ports) \cup UNION {Written(rule) : rule \in ToSet(at.allow)}

ExposedAsWritten == HostsLeadRight /\ PolicyAsWritten

\* converter.go:238 and KubeConverter.ja.md:430: a volume that gives way to a config or
\* secret is warned of.  Whoever gets the result of Convert knows of each.
LossesAreTold ==
  stage \in {"bind", "build", "ok"} => \A s \in at.services : \A m \in AllMounts(s) :
    m \in mounts[s.name] \/ <<s.name, m.target>> \in told

-----------------------------------------------------------------------------
(* The inductive invariant: what the steps taken so far have left behind.    *)

Admitted == \A rule \in ToSet(at.allow) : RuleRight(rule)

\* A converted service has its ports, its mounts, and what these need.
Converted(s) ==
  /\ \A p \in ToSet(s.ports) :
       /\ p.host \in DOMAIN route /\ route[p.host] = p.container
       /\ p.container \in DOMAIN owner /\ owner[p.container] = s.name
  /\ \A v \in ToSet(s.volumes) : VolumeRight(v)
  /\ RefsRight(s)
  /\ Unambiguous(s)
  /\ mounts[s.name] = Kept(s)
  /\ Directories(s) \subseteq dirs

\* And nothing else was collected.
Collected ==
  /\ \A s \in at.services \ rest : Converted(s)
  /\ \A h \in DOMAIN route :
       /\ h # 0
       /\ \E s \in at.services \ rest : [host |-> h, container |-> route[h]] \in ToSet(s.ports)
  /\ IsFiniteSet(shared)
  /\ shared = UNION {FilesOf(s) : s \in at.services \ rest}

Shown ==
  /\ policy # {} => policy = RulesOfPolicy /\ Admitted
  /\ stage \in {"ingress", "bind", "build", "ok"} =>
       RulesRight /\ ports = IF ServicePorts = {} THEN Absent ELSE ServicePorts
  /\ stage \in {"bind", "build", "ok"} => hosts = HostsOfRules

\* The bindings are those of all volumes of an app, or of all mounts of a box.
Bound ==
  /\ stage \in {"build", "ok"} /\ at.who = "app" =>
       DOMAIN bound = DOMAIN at.volumes /\ \A i \in DOMAIN bound : bound[i].volume = at.volumes[i]
  /\ stage \in {"build", "ok"} /\ at.who = "box" =>
       /\ bound = [i \in DOMAIN at.boxMounts |->
                     [volume |-> at.boxMounts[i].volume, disk |-> at.boxMounts[i].disk]]
       /\ \A m \in ToSet(at.boxMounts) : MountRight(m)
  /\ pod # Absent =>
       /\ stage = "ok" /\ at.who \in {"app", "box"}
       /\ pod = IF at.who = "app" THEN PodOfApp ELSE PodOfBox

ConvertInv ==
  /\ stage \notin {"admit", "failed"} => Admitted
  /\ stage \notin {"admit", "read", "services", "failed"} => rest = {}
  /\ Collected
  /\ Shown
  /\ Bound
=============================================================================
