------------------------------ MODULE Rollout ------------------------------
(***************************************************************************)
(* What app deploy, app destroy, secret env and secret pull do to the      *)
(* objects of one app (usecase/app/deploy.go and destroy.go,               *)
(* usecase/secret, adapters/kube/client_apply.go, client_delete.go,        *)
(* client_deployment.go, content_hash.go).                                 *)
(*                                                                         *)
(* Deploy applies one object after the other, prunes headless services and *)
(* patches the pod template.  The patch is computed from three reads: the  *)
(* content hashes of all secrets and config maps the template refers to,   *)
(* in the order it refers to them, become the hash that restarts the pods; *)
(* the pull secret is referred to if it exists.  The secret commands write *)
(* one secret and patch as well.                                           *)
(*                                                                         *)
(* A content hash is a model value; the hash of a template is what it is   *)
(* computed from, the order of the references and the hashes, or None.     *)
(***************************************************************************)
EXTENDS Naturals

CONSTANTS
  Ops,       \* the invocations
  Confs,     \* the configs of the app, which deploy applies
  Heads,     \* the headless services, one per compose service
  Orders,    \* the orders in which a Go map gives the configs
  Specs,     \* the versions of the app: texts of the configs, exposed objects
  ConfTexts, \* what a config may hold
  EnvTexts,  \* what secret env set may be given
  PullTexts, \* what secret pull set may be given
  None,
  MaxCommands \* bound: commands in all

Sealed  == {"override", "pull"}
Docs    == Confs \cup Sealed
Exposed == {"service", "ingress"} \cup Heads
Objects == {"claims"} \cup Exposed
Texts   == ConfTexts \cup EnvTexts \cup PullTexts

\* A Deployment: the order of its config volumes, the hash, whether it refers to
\* the pull secret.  The same for a patch, where None leaves a field as it is.
Hashes  == [order : Orders, docs : [Docs -> Texts \cup {None}]]
Deploys == [order : Orders, hash : Hashes \cup {None}, pull : BOOLEAN]
Patches == [hash : Hashes \cup {None}, pull : BOOLEAN \cup {None}]

ASSUME RolloutAssumption ==
  /\ Specs \subseteq [texts : [Confs -> ConfTexts], objects : SUBSET Exposed]
  /\ None \notin Texts \cup Specs \cup Hashes \cup Deploys \cup BOOLEAN
  /\ MaxCommands \in Nat
  /\ Confs \cap Sealed = {}
  /\ Heads \cap {"service", "ingress", "claims"} = {}

VARIABLES
  namespace,  \* "none", "active", or "ending" while Kubernetes deletes it
  stored,     \* per secret or config map: its content hash, or None
  there,      \* the other objects
  dep,        \* the Deployment, or None
  pc, cmd, arg,
  todo,       \* per invocation: the objects left of the current step
  found,      \* per invocation: the secret as it was read
  fits,       \* per invocation: the resource version read is the current one
  got,        \* per invocation: the Deployment as it was read, then what to patch
  secs,       \* per invocation: the secrets as they were listed
  swallowed,  \* history: the best-effort calls of the invocation that failed
  calm,       \* history: nobody else changed anything since the start
  left        \* commands that may still begin

cluster == <<namespace, stored, there, dep>>
local   == <<cmd, arg, todo, found, got, secs>>
vars == <<cluster, pc, local, fits, swallowed, calm, left>>

Commands == {"deploy", "destroy", "wipe", "setEnv", "deleteEnv", "setPull", "deletePull"}
Points == {"idle", "namespace", "claims", "confs", "expose", "prune",
           "getDep", "listSecrets", "listMaps", "patch",
           "ingress", "listServices", "deleteServices", "listClaims",
           "deleteNamespace", "get", "write", "delete", "noop", "ok", "failed"}

TypeOK ==
  /\ namespace \in {"none", "active", "ending"}
  /\ stored \in [Docs -> Texts \cup {None}]
  /\ there \subseteq Objects
  /\ dep \in Deploys \cup {None}
  /\ pc \in [Ops -> Points]
  /\ cmd \in [Ops -> Commands]
  /\ arg \in [Ops -> Specs \cup Texts \cup {None}]
  /\ todo \in [Ops -> SUBSET (Objects \cup Confs)]
  /\ found \in [Ops -> Texts \cup {None}]
  /\ fits \in [Ops -> BOOLEAN]
  /\ got \in [Ops -> Deploys \cup Patches \cup {None}]
  /\ secs \in [Ops -> [Sealed -> Texts \cup {None}]]
  /\ swallowed \in [Ops -> SUBSET {"clean", "patch"}]
  /\ calm \in [Ops -> BOOLEAN]
  /\ left \in 0 .. MaxCommands

NoSecrets == [d \in Sealed |-> None]

Init ==
  /\ namespace = "none"
  /\ stored = [d \in Docs |-> None]
  /\ there = {}
  /\ dep = None
  /\ pc = [p \in Ops |-> "idle"]
  /\ cmd = [p \in Ops |-> "deploy"]
  /\ arg = [p \in Ops |-> None]
  /\ todo = [p \in Ops |-> {}]
  /\ found = [p \in Ops |-> None]
  /\ fits = [p \in Ops |-> FALSE]
  /\ got = [p \in Ops |-> None]
  /\ secs = [p \in Ops |-> NoSecrets]
  /\ swallowed = [p \in Ops |-> {}]
  /\ calm = [p \in Ops |-> FALSE]
  /\ left = MaxCommands

-----------------------------------------------------------------------------

Goto(p, l) == pc' = [pc EXCEPT ![p] = l]
Changes(p) == calm' = [q \in Ops |-> calm[q] /\ q = p]
Swallow(p, what) == swallowed' = [swallowed EXCEPT ![p] = @ \cup {what}]

Ended(p) == pc[p] \in {"idle", "noop", "ok", "failed"}

\* A command that ends without a claim leaves nothing of itself.
Over(p, how) ==
  /\ Goto(p, how)
  /\ cmd' = [cmd EXCEPT ![p] = "deploy"]
  /\ arg' = [arg EXCEPT ![p] = None]
  /\ todo' = [todo EXCEPT ![p] = {}]
  /\ found' = [found EXCEPT ![p] = None]
  /\ fits' = [fits EXCEPT ![p] = FALSE]
  /\ got' = [got EXCEPT ![p] = None]
  /\ secs' = [secs EXCEPT ![p] = NoSecrets]
  /\ swallowed' = [swallowed EXCEPT ![p] = {}]
  /\ calm' = [calm EXCEPT ![p] = FALSE]

\* App, cluster, validation, conversion and kubeconfig; then the first request.
Start(p) ==
  /\ Ended(p)
  /\ left > 0
  /\ left' = left - 1
  /\ \E c \in Commands :
       /\ cmd' = [cmd EXCEPT ![p] = c]
       /\ \E a \in CASE c = "deploy"  -> Specs
                     [] c = "setEnv"  -> EnvTexts
                     [] c = "setPull" -> PullTexts
                     [] OTHER         -> {None} :
            arg' = [arg EXCEPT ![p] = a]
       /\ Goto(p, CASE c = "deploy"                   -> "namespace"
                    [] c \in {"destroy", "wipe"}       -> "ingress"
                    [] c \in {"setEnv", "setPull"}     -> "get"
                    [] c \in {"deleteEnv", "deletePull"} -> "delete")
  /\ swallowed' = [swallowed EXCEPT ![p] = {}]
  /\ calm' = [calm EXCEPT ![p] = TRUE]
  /\ UNCHANGED <<cluster, todo, found, got, secs, fits>>

\* Kubernetes creates nothing in a namespace it is deleting.
CanWrite(exists) == namespace = "active" \/ (namespace = "ending" /\ exists)

-----------------------------------------------------------------------------
(* app deploy: ApplyObjects in the order of AllObjects.                      *)

ApplyNamespace(p) ==
  /\ pc[p] = "namespace"
  /\ namespace' = IF namespace = "none" THEN "active" ELSE namespace
  /\ Goto(p, "claims")
  /\ Changes(p)
  /\ UNCHANGED <<stored, there, dep, local, fits, swallowed>>

ApplyClaims(p) ==
  /\ pc[p] = "claims"
  /\ CanWrite("claims" \in there)
  /\ there' = there \cup {"claims"}
  /\ todo' = [todo EXCEPT ![p] = Confs]
  /\ Goto(p, "confs")
  /\ Changes(p)
  /\ UNCHANGED <<namespace, stored, dep, cmd, arg, found, got, secs, fits, swallowed>>

ApplyConf(p) ==
  /\ pc[p] = "confs"
  /\ \E c \in todo[p] :
       /\ CanWrite(stored[c] # None)
       /\ stored' = [stored EXCEPT ![c] = arg[p].texts[c]]
       /\ todo' = [todo EXCEPT ![p] = @ \ {c}]
  /\ Changes(p)
  /\ UNCHANGED <<namespace, there, dep, pc, cmd, arg, found, got, secs, fits, swallowed>>

\* The config volumes come out of a Go map: in any order.  The hash and the
\* reference to the pull secret belong to the patch, and stay.
ApplyDeployment(p) ==
  /\ pc[p] = "confs"
  /\ todo[p] = {}
  /\ CanWrite(dep # None)
  /\ \E r \in Orders :
       dep' = IF dep = None THEN [order |-> r, hash |-> None, pull |-> FALSE]
              ELSE [dep EXCEPT !.order = r]
  /\ todo' = [todo EXCEPT ![p] = arg[p].objects]
  /\ Goto(p, "expose")
  /\ Changes(p)
  /\ UNCHANGED <<namespace, stored, there, cmd, arg, found, got, secs, fits, swallowed>>

\* Service, headless services, ingresses.
FirstOf(objects) ==
  IF "service" \in objects THEN {"service"}
  ELSE IF objects \cap Heads # {} THEN objects \cap Heads ELSE objects

Expose(p) ==
  /\ pc[p] = "expose"
  /\ \E o \in FirstOf(todo[p]) :
       /\ CanWrite(o \in there)
       /\ there' = there \cup {o}
       /\ todo' = [todo EXCEPT ![p] = @ \ {o}]
  /\ Changes(p)
  /\ UNCHANGED <<namespace, stored, dep, pc, cmd, arg, found, got, secs, fits, swallowed>>

\* Mutant of ListHeads: the selector matches no headless service.
ListHeadsNone(p) ==
  /\ pc[p] = "expose"
  /\ todo[p] = {}
  /\ Goto(p, "prune")
  /\ UNCHANGED <<cluster, local, fits, swallowed, calm>>

\* The headless services that are there and not of this version; without the list
\* none are pruned.
ListHeads(p) ==
  /\ pc[p] = "expose"
  /\ todo[p] = {}
  /\ \/ /\ todo' = [todo EXCEPT ![p] = (there \cap Heads) \ arg[p].objects]
        /\ UNCHANGED swallowed
     \/ Swallow(p, "clean") /\ UNCHANGED todo
  /\ Goto(p, "prune")
  /\ UNCHANGED <<cluster, cmd, arg, found, got, secs, fits, calm>>

Prune(p) ==
  /\ pc[p] = "prune"
  /\ \E h \in todo[p] :
       /\ todo' = [todo EXCEPT ![p] = @ \ {h}]
       /\ \/ h \in there /\ there' = there \ {h} /\ Changes(p) /\ UNCHANGED swallowed
          \/ Swallow(p, "clean") /\ UNCHANGED <<there, calm>>
  /\ UNCHANGED <<namespace, stored, dep, pc, cmd, arg, found, got, secs, fits>>

Pruned(p) ==
  /\ pc[p] = "prune"
  /\ todo[p] = {}
  /\ Goto(p, "getDep")
  /\ UNCHANGED <<cluster, local, fits, swallowed, calm>>

Deploy(p) ==
  \/ ApplyNamespace(p) \/ ApplyClaims(p) \/ ApplyConf(p) \/ ApplyDeployment(p)
  \/ Expose(p) \/ ListHeads(p) \/ Prune(p) \/ Pruned(p)

-----------------------------------------------------------------------------
(* PatchDeploymentPodContentHash.  Its errors are only logged.               *)

GetDeployment(p) ==
  /\ pc[p] = "getDep"
  /\ dep # None
  /\ got' = [got EXCEPT ![p] = dep]
  /\ Goto(p, "listSecrets")
  /\ UNCHANGED <<cluster, cmd, arg, todo, found, secs, fits, swallowed, calm>>

ListSecrets(p) ==
  /\ pc[p] = "listSecrets"
  /\ secs' = [secs EXCEPT ![p] = [d \in Sealed |-> stored[d]]]
  /\ Goto(p, "listMaps")
  /\ UNCHANGED <<cluster, cmd, arg, todo, found, got, fits, swallowed, calm>>

\* Mutant of Plan: the pull secret is left out of the hash.
PlanWithoutPull(d, docs) ==
  LET hash == [order |-> d.order, docs |-> [docs EXCEPT !["pull"] = None]]
      pull == docs["pull"] # None
  IN [hash |-> IF hash = d.hash THEN None ELSE hash,
      pull |-> IF pull = d.pull THEN None ELSE pull]

\* ComputePodContentHash with the pull secret if there is one, and what differs
\* from the Deployment that was read.
Plan(d, docs) ==
  LET hash == [order |-> d.order, docs |-> docs]
      pull == docs["pull"] # None
  IN [hash |-> IF hash = d.hash THEN None ELSE hash,
      pull |-> IF pull = d.pull THEN None ELSE pull]

\* The last read, and the end if there is nothing to patch.
ListMaps(p) ==
  /\ pc[p] = "listMaps"
  /\ LET docs == [d \in Docs |-> IF d \in Sealed THEN secs[p][d] ELSE stored[d]]
         plan == Plan(got[p], docs)
     IN IF plan.hash = None /\ plan.pull = None
          THEN Goto(p, "ok") /\ got' = [got EXCEPT ![p] = None]
          ELSE Goto(p, "patch") /\ got' = [got EXCEPT ![p] = plan]
  /\ secs' = [secs EXCEPT ![p] = NoSecrets]
  /\ UNCHANGED <<cluster, cmd, arg, todo, found, fits, swallowed, calm>>

\* Mutant of Patch: what did not change is written as null.
PatchWithNulls(p) ==
  /\ pc[p] = "patch"
  /\ dep # None
  /\ dep' = [dep EXCEPT !.hash = got[p].hash, !.pull = got[p].pull]
  /\ got' = [got EXCEPT ![p] = None]
  /\ Goto(p, "ok")
  /\ Changes(p)
  /\ UNCHANGED <<namespace, stored, there, cmd, arg, todo, found, secs, fits, swallowed>>

\* The JSON patch, or the merge patch when that is refused: what changed is
\* written, whatever is there now.
Patch(p) ==
  /\ pc[p] = "patch"
  /\ dep # None
  /\ dep' = [dep EXCEPT !.hash = IF got[p].hash = None THEN @ ELSE got[p].hash,
                        !.pull = IF got[p].pull = None THEN @ ELSE got[p].pull]
  /\ got' = [got EXCEPT ![p] = None]
  /\ Goto(p, "ok")
  /\ Changes(p)
  /\ UNCHANGED <<namespace, stored, there, cmd, arg, todo, found, secs, fits, swallowed>>

PatchFails(p) ==
  /\ pc[p] \in {"getDep", "listSecrets", "listMaps", "patch"}
  /\ got' = [got EXCEPT ![p] = None]
  /\ secs' = [secs EXCEPT ![p] = NoSecrets]
  /\ Goto(p, "ok")
  /\ Swallow(p, "patch")
  /\ UNCHANGED <<cluster, cmd, arg, todo, found, fits, calm>>

PatchHash(p) ==
  GetDeployment(p) \/ ListSecrets(p) \/ ListMaps(p) \/ Patch(p) \/ PatchFails(p)

-----------------------------------------------------------------------------
(* app destroy: the default targets by the component's selector.  No error   *)
(* of a list or a delete counts.                                             *)

Ingress(p) ==
  /\ pc[p] = "ingress"
  /\ \/ there' = there \ {"ingress"} /\ Changes(p) /\ UNCHANGED swallowed
     \/ Swallow(p, "clean") /\ UNCHANGED <<there, calm>>
  /\ Goto(p, "listServices")
  /\ UNCHANGED <<namespace, stored, dep, local, fits>>

\* Mutant of ListServices: headless services are not listed.
ListServicesMain(p) ==
  /\ pc[p] = "listServices"
  /\ todo' = [todo EXCEPT ![p] = there \cap {"service"}]
  /\ Goto(p, "deleteServices")
  /\ UNCHANGED <<cluster, cmd, arg, found, got, secs, fits, swallowed, calm>>

ListServices(p) ==
  /\ pc[p] = "listServices"
  /\ \/ /\ todo' = [todo EXCEPT ![p] = there \cap ({"service"} \cup Heads)]
        /\ UNCHANGED swallowed
     \/ Swallow(p, "clean") /\ UNCHANGED todo
  /\ Goto(p, "deleteServices")
  /\ UNCHANGED <<cluster, cmd, arg, found, got, secs, fits, calm>>

DeleteService(p) ==
  /\ pc[p] = "deleteServices"
  /\ \E o \in todo[p] :
       /\ todo' = [todo EXCEPT ![p] = @ \ {o}]
       /\ \/ o \in there /\ there' = there \ {o} /\ Changes(p) /\ UNCHANGED swallowed
          \/ Swallow(p, "clean") /\ UNCHANGED <<there, calm>>
  /\ UNCHANGED <<namespace, stored, dep, pc, cmd, arg, found, got, secs, fits>>

DeleteDeployment(p) ==
  /\ pc[p] = "deleteServices"
  /\ todo[p] = {}
  /\ \/ dep' = None /\ Changes(p) /\ UNCHANGED swallowed
     \/ Swallow(p, "clean") /\ UNCHANGED <<dep, calm>>
  /\ Goto(p, "listClaims")
  /\ UNCHANGED <<namespace, stored, there, local, fits>>

\* The volumes and claims do not carry the label that is selected.
ListClaims(p) ==
  /\ pc[p] = "listClaims"
  /\ Goto(p, IF cmd[p] = "wipe" THEN "deleteNamespace" ELSE "ok")
  /\ UNCHANGED <<cluster, local, fits, swallowed, calm>>

DeleteNamespace(p) ==
  /\ pc[p] = "deleteNamespace"
  /\ namespace' = IF namespace = "active" THEN "ending" ELSE namespace
  /\ Goto(p, "ok")
  /\ Changes(p)
  /\ UNCHANGED <<stored, there, dep, local, fits, swallowed>>

Destroy(p) ==
  \/ Ingress(p) \/ ListServices(p) \/ DeleteService(p) \/ DeleteDeployment(p)
  \/ ListClaims(p) \/ DeleteNamespace(p)

\* Kubernetes: everything in the namespace is gone.  (So are the claims; the
\* volumes they stand for here remain.)
NamespaceGone ==
  /\ namespace = "ending"
  /\ namespace' = "none"
  /\ stored' = [d \in Docs |-> None]
  /\ there' = there \cap {"claims"}
  /\ dep' = None
  /\ fits' = [p \in Ops |-> FALSE]
  /\ calm' = [p \in Ops |-> calm[p] /\ cmd[p] = "wipe"]
  /\ UNCHANGED <<pc, local, swallowed>>

-----------------------------------------------------------------------------
(* secret env and secret pull.                                               *)

Doc(c) == IF c \in {"setEnv", "deleteEnv"} THEN "override" ELSE "pull"

\* The secret is as it should be: pull patches all the same, env has done.
Noop(p) ==
  IF Doc(cmd[p]) = "pull"
    THEN /\ Goto(p, "getDep")
         /\ UNCHANGED <<local, fits, swallowed, calm>>
    ELSE Over(p, "noop")

\* What p writes is new to everyone who has read it.
Writes(p, text) ==
  /\ stored' = [stored EXCEPT ![Doc(cmd[p])] = text]
  /\ fits' = [q \in Ops |-> fits[q] /\ Doc(cmd[q]) # Doc(cmd[p])]
  /\ found' = [found EXCEPT ![p] = None]
  /\ Goto(p, "getDep")
  /\ Changes(p)
  /\ UNCHANGED <<namespace, there, dep, cmd, arg, todo, got, secs, swallowed>>

GetSecret(p) ==
  /\ pc[p] = "get"
  /\ LET text == stored[Doc(cmd[p])]
     IN IF text = arg[p]
          THEN Noop(p)
          ELSE /\ Goto(p, "write")
               /\ found' = [found EXCEPT ![p] = text]
               /\ fits' = [fits EXCEPT ![p] = TRUE]
               /\ UNCHANGED <<cmd, arg, todo, got, secs, swallowed, calm>>
  /\ UNCHANGED cluster

\* Update, which fails if the secret was changed since, or Create.
WriteSecret(p) ==
  /\ pc[p] = "write"
  /\ IF found[p] # None THEN fits[p] ELSE stored[Doc(cmd[p])] = None
  /\ CanWrite(found[p] # None)
  /\ Writes(p, arg[p])

DeleteSecret(p) ==
  /\ pc[p] = "delete"
  /\ IF stored[Doc(cmd[p])] = None
       THEN Noop(p) /\ UNCHANGED cluster
       ELSE Writes(p, None)

Secret(p) == GetSecret(p) \/ WriteSecret(p) \/ DeleteSecret(p)

-----------------------------------------------------------------------------

\* A request that counts fails, the context ends or the process dies.
Fail(p) == ~Ended(p) /\ Over(p, "failed") /\ UNCHANGED cluster

Step(p) == Deploy(p) \/ PatchHash(p) \/ Destroy(p) \/ Secret(p) \/ Fail(p)

Next ==
  \/ \E p \in Ops : Start(p) \/ (Step(p) /\ UNCHANGED left)
  \/ NamespaceGone /\ UNCHANGED left

Spec == Init /\ [][Next]_vars

-----------------------------------------------------------------------------
(* Properties.                                                               *)

\* PatchDeploymentPodContentHash (client_deployment.go:20): after a command that
\* has patched, the template's hash is that of the configs and secrets stored now,
\* and it refers to the pull secret if there is one: whatever lost patches and
\* races came before, unless something changed since the command began.
HashTrue ==
  \A p \in Ops :
    /\ pc[p] = "ok" /\ calm[p] /\ "patch" \notin swallowed[p]
    /\ cmd[p] \notin {"destroy", "wipe"}
    => /\ dep # None
       /\ dep.hash = [order |-> dep.order, docs |-> stored]
       /\ dep.pull = (stored["pull"] # None)

\* Deploy (deploy.go:38): all of the version is there, and of the headless
\* services no others, unless the prune failed.
DeployGives ==
  \A p \in Ops : pc[p] = "ok" /\ calm[p] /\ cmd[p] = "deploy" =>
    /\ arg[p].objects \cup {"claims"} \subseteq there
    /\ \A c \in Confs : stored[c] = arg[p].texts[c]
    /\ dep # None
    /\ "clean" \notin swallowed[p] => there \cap Heads \subseteq arg[p].objects

\* Destroy (destroy.go:33): nothing is exposed and nothing runs, unless one of its
\* calls failed, and a namespace to delete is being deleted.
DestroyClears ==
  \A p \in Ops : pc[p] = "ok" /\ calm[p] /\ cmd[p] \in {"destroy", "wipe"} =>
    /\ "clean" \notin swallowed[p] => dep = None /\ there \cap Exposed = {}
    /\ cmd[p] = "wipe" => namespace # "active"

-----------------------------------------------------------------------------
(* The inductive invariant.                                                  *)

DeployPoints == {"namespace", "claims", "confs", "expose", "prune"}
PatchPoints  == {"getDep", "listSecrets", "listMaps", "patch"}
ClearPoints  == {"ingress", "listServices", "deleteServices", "listClaims", "deleteNamespace"}

\* The control points know their command, its argument, and what they have in hand.
Known(p) ==
  /\ pc[p] \in DeployPoints => cmd[p] = "deploy"
  /\ pc[p] \in PatchPoints => cmd[p] \notin {"destroy", "wipe"}
  /\ pc[p] \in ClearPoints => cmd[p] \in {"destroy", "wipe"}
  /\ pc[p] = "deleteNamespace" => cmd[p] = "wipe"
  /\ pc[p] \in {"get", "write"} => cmd[p] \in {"setEnv", "setPull"} /\ arg[p] \in Texts
  /\ pc[p] = "delete" => cmd[p] \in {"deleteEnv", "deletePull"}
  /\ cmd[p] = "deploy" /\ pc[p] \in DeployPoints \cup PatchPoints \cup {"ok"} => arg[p] \in Specs
  /\ pc[p] = "confs" => todo[p] \subseteq Confs
  /\ pc[p] = "expose" => todo[p] \subseteq arg[p].objects
  /\ pc[p] = "prune" => todo[p] \subseteq Heads \ arg[p].objects
  /\ pc[p] \in {"listSecrets", "listMaps"} => got[p] \in Deploys
  /\ pc[p] = "patch" => got[p] \in Patches

\* What was read for the hash is still so, and what is patched makes it right.
Patching(p) ==
  calm[p] =>
    /\ pc[p] \in {"listSecrets", "listMaps"} => got[p] = dep
    /\ pc[p] = "listMaps" => \A d \in Sealed : secs[p][d] = stored[d]
    /\ pc[p] = "patch" => dep # None /\ got[p] = Plan(dep, stored)

\* Of a deploy, what is applied so far.
Giving(p) ==
  calm[p] /\ cmd[p] = "deploy" =>
    /\ pc[p] \in {"confs", "expose", "prune", "ok"} \cup PatchPoints => "claims" \in there
    /\ pc[p] = "confs" => \A c \in Confs : c \in todo[p] \/ stored[c] = arg[p].texts[c]
    /\ pc[p] \in {"expose", "prune", "ok"} \cup PatchPoints =>
         dep # None /\ \A c \in Confs : stored[c] = arg[p].texts[c]
    /\ pc[p] = "expose" => arg[p].objects \subseteq there \cup todo[p]
    /\ pc[p] \in {"prune", "ok"} \cup PatchPoints => arg[p].objects \subseteq there
    /\ pc[p] = "prune" /\ "clean" \notin swallowed[p] =>
         there \cap Heads \subseteq arg[p].objects \cup todo[p]
    /\ pc[p] \in {"ok"} \cup PatchPoints /\ "clean" \notin swallowed[p] =>
         there \cap Heads \subseteq arg[p].objects

\* Of a destroy, what is gone so far.
Clearing(p) ==
  calm[p] /\ cmd[p] \in {"destroy", "wipe"} =>
    /\ "clean" \notin swallowed[p] =>
         /\ pc[p] \in {"listServices", "deleteServices", "listClaims", "deleteNamespace", "ok"} =>
              "ingress" \notin there
         /\ pc[p] = "deleteServices" => there \cap ({"service"} \cup Heads) \subseteq todo[p]
         /\ pc[p] \in {"listClaims", "deleteNamespace", "ok"} =>
              dep = None /\ there \cap Exposed = {}
    /\ pc[p] = "ok" /\ cmd[p] = "wipe" => namespace # "active"

Inv == HashTrue /\ \A p \in Ops : Known(p) /\ Patching(p) /\ Giving(p) /\ Clearing(p)
=============================================================================
