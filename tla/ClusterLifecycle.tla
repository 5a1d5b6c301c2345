-------------------------- MODULE ClusterLifecycle --------------------------
(***************************************************************************)
(* provision, deprovision, install and uninstall of one cluster, as the    *)
(* cluster use cases (usecase/cluster) drive them through the AKS driver   *)
(* (adapters/drivers/provider/aks) and the in-cluster client (adapters/kube).*)
(*                                                                         *)
(* Nothing is stored locally.  The driver derives every answer from the    *)
(* subscription-scoped deployment record (its state and its outputs), from *)
(* the resource group and from the cluster's API server, one call after the*)
(* other, while other invocations may run.  Several of these calls are     *)
(* best-effort: their error is taken for an answer and the command goes on.*)
(***************************************************************************)
CONSTANTS
  Ops,       \* slots of concurrently running CLI invocations
  Commands   \* the commands invocations issue

AllCommands == {"provision", "deprovision", "install", "uninstall"}
Levels      == {"none", "cannotDelete", "readOnly"}

ASSUME CommandsAssumption == Commands \subseteq AllCommands

VARIABLES
  record,     \* the deployment record; it has outputs when "succeeded"
  dropping,   \* the record's deletion was accepted and not waited for
  group,      \* the resource group: without ("partial") or with AKS ("complete")
  vault,      \* the group's Key Vault; a "deleted" one is only soft-deleted
  namespace,  \* the ingress namespace
  account,    \* the ingress ServiceAccount exists
  release,    \* the Traefik release; "stuck" while Helm works, or after it died
  pc, cmd,    \* per invocation: control point and command
  force,      \* --force
  level,      \* the protection level the cluster's configuration had at the start
  vaults,     \* the listing before the group's deletion named the Key Vault
  conn,       \* the kube client reaches the present cluster
  helm,       \* the Helm operation under way
  pend,       \* the invocation's Azure operation in flight
  calm,       \* history: no other invocation has changed anything since the start
  swallowed   \* history: the invocation took an error for an answer

azure == <<record, dropping, group, vault>>
k8s   == <<namespace, account, release>>
ops   == <<pc, cmd, force, level, vaults, conn, helm, pend, calm, swallowed>>
vars  == <<azure, k8s, ops>>

Running == {"status", "statusCreds", "statusIngress", "record", "deploy", "wait",
            "guard", "unrecord", "group", "vaults", "remove", "purge",
            "client", "clientCreds", "namespace", "outputs", "account",
            "namespaceAgain", "helm", "release", "unhelm", "unhelmed", "unspace"}
Ended   == {"idle", "ok", "skipped", "failed"}

TypeOK ==
  /\ record \in {"none", "running", "succeeded", "failed"}
  /\ dropping \in BOOLEAN
  /\ group \in {"absent", "partial", "complete"}
  /\ vault \in {"none", "live", "deleted", "purging"}
  /\ namespace \in {"none", "active", "terminating"}
  /\ account \in BOOLEAN
  /\ release \in {"none", "stuck", "deployed"}
  /\ pc \in [Ops -> Running \cup Ended]
  /\ cmd \in [Ops -> AllCommands]
  /\ force \in [Ops -> BOOLEAN]
  /\ level \in [Ops -> Levels]
  /\ vaults \in [Ops -> BOOLEAN]
  /\ conn \in [Ops -> BOOLEAN]
  /\ helm \in [Ops -> {"none", "install", "upgrade"}]
  /\ pend \in [Ops -> {"none", "group", "cluster", "delete"}]
  /\ calm \in [Ops -> BOOLEAN]
  /\ swallowed \in [Ops -> BOOLEAN]

Init ==
  /\ record = "none"
  /\ dropping = FALSE
  /\ group = "absent"
  /\ vault = "none"
  /\ namespace = "none"
  /\ account = FALSE
  /\ release = "none"
  /\ pc = [p \in Ops |-> "idle"]
  /\ cmd = [p \in Ops |-> "provision"]
  /\ force = [p \in Ops |-> FALSE]
  /\ level = [p \in Ops |-> "none"]
  /\ vaults = [p \in Ops |-> FALSE]
  /\ conn = [p \in Ops |-> FALSE]
  /\ helm = [p \in Ops |-> "none"]
  /\ pend = [p \in Ops |-> "none"]
  /\ calm = [p \in Ops |-> FALSE]
  /\ swallowed = [p \in Ops |-> FALSE]

-----------------------------------------------------------------------------
(* Starting an invocation.  It reads the cluster's configuration once: the   *)
(* protection level of its scope and the existing flag.                      *)

\* What a document can say of a level; "other" is any other word.
Words == Levels \cup {"", "other"}

\* Mutant of LevelOf: any word is taken for a level.
LevelOfAny(w) == IF w = "" THEN {"none"} ELSE {w}

\* The level a word sets: nothing said is none, and a document with an unknown
\* word is refused, so that no command begins.
LevelOf(w) == IF w = "" THEN {"none"} ELSE {w} \cap Levels

Configured == UNION {LevelOf(w) : w \in Words}

Start(p, c, first, f, l) ==
  /\ c \in Commands
  /\ pc[p] \in Ended
  /\ pend[p] = "none"
  /\ pc' = [pc EXCEPT ![p] = first]
  /\ cmd' = [cmd EXCEPT ![p] = c]
  /\ force' = [force EXCEPT ![p] = f]
  /\ level' = [level EXCEPT ![p] = l]
  /\ vaults' = [vaults EXCEPT ![p] = FALSE]
  /\ conn' = [conn EXCEPT ![p] = FALSE]
  /\ helm' = [helm EXCEPT ![p] = "none"]
  /\ calm' = [calm EXCEPT ![p] = TRUE]
  /\ swallowed' = [swallowed EXCEPT ![p] = FALSE]
  /\ UNCHANGED <<azure, k8s, pend>>

BeginProvision(p) ==
  \E f \in BOOLEAN, l \in Configured : Start(p, "provision", "status", f, l)

\* The driver ignores --force for these three.
BeginDeprovision(p) == \E l \in Configured : Start(p, "deprovision", "guard", FALSE, l)

BeginInstall(p) == \E l \in Configured : Start(p, "install", "status", FALSE, l)

BeginUninstall(p) == \E l \in Configured : Start(p, "uninstall", "guard", FALSE, l)

\* cluster.existing is set and --force is not: there is nothing to do.
BeginSkipped(p) ==
  \E c \in {"provision", "deprovision"} : Start(p, c, "skipped", FALSE, "none")

Begin(p) ==
  \/ BeginProvision(p) \/ BeginDeprovision(p) \/ BeginSkipped(p)
  \/ BeginInstall(p) \/ BeginUninstall(p)

-----------------------------------------------------------------------------
(* Control points shared by the commands.                                    *)

Goto(p, l) == pc' = [pc EXCEPT ![p] = l]

\* A step that only moves p's control point.
Proceed(p, l) ==
  /\ Goto(p, l)
  /\ UNCHANGED <<azure, k8s, cmd, force, level, vaults, conn, helm, pend, calm, swallowed>>

\* The command ends with an error: the process forgets what it knew.
Error(p) ==
  /\ Goto(p, "failed")
  /\ force' = [force EXCEPT ![p] = FALSE]
  /\ level' = [level EXCEPT ![p] = "none"]
  /\ vaults' = [vaults EXCEPT ![p] = FALSE]
  /\ conn' = [conn EXCEPT ![p] = FALSE]
  /\ helm' = [helm EXCEPT ![p] = "none"]
  /\ calm' = [calm EXCEPT ![p] = FALSE]
  /\ swallowed' = [swallowed EXCEPT ![p] = FALSE]
  /\ UNCHANGED <<azure, k8s, cmd, pend>>

\* The call failed, and the code goes on as if it had answered.
Swallow(p, l) ==
  /\ Goto(p, l)
  /\ swallowed' = [swallowed EXCEPT ![p] = TRUE]
  /\ UNCHANGED <<azure, k8s, cmd, force, level, vaults, conn, helm, pend, calm>>

\* p changes what the other invocations may have read.
Disturb(p) == calm' = [q \in Ops |-> q = p /\ calm[q]]

-----------------------------------------------------------------------------
(* Protection.  provision and install count as the first time, which         *)
(* readOnly allows, unless the status says the cluster, or the ingress, is   *)
(* there; every error of the status reads says it is not.                    *)

AfterStatus(p) == IF cmd[p] = "provision" THEN "record" ELSE "client"

\* Mutant of WhenPresent: readOnly does not block updates.
WhenPresentAllowed(p) == Proceed(p, AfterStatus(p))

\* The resource is there: the command is an update.
WhenPresent(p) ==
  IF level[p] = "readOnly" THEN Error(p) ELSE Proceed(p, AfterStatus(p))

\* kubeClient, first half: the deployment's outputs.
StatusOutputs(p) ==
  /\ pc[p] = "status"
  /\ \/ Proceed(p, IF record = "succeeded" THEN "statusCreds" ELSE AfterStatus(p))
     \/ Swallow(p, AfterStatus(p))

\* kubeClient, second half: the admin credentials of the AKS cluster.
StatusCreds(p) ==
  /\ pc[p] = "statusCreds"
  /\ \/ group # "complete" /\ Proceed(p, AfterStatus(p))
     \/ group = "complete" /\ cmd[p] = "provision" /\ WhenPresent(p)
     \/ group = "complete" /\ cmd[p] = "install" /\ Proceed(p, "statusIngress")
     \/ Swallow(p, AfterStatus(p))

\* The ingress Service, which Helm creates on the way.
StatusIngress(p) ==
  /\ pc[p] = "statusIngress"
  /\ \/ release # "none" /\ WhenPresent(p)
     \/ release # "deployed" /\ Proceed(p, AfterStatus(p))
     \/ Swallow(p, AfterStatus(p))

\* Mutant of Guard: cannotDelete does not block deletes.
GuardReadOnlyOnly(p) ==
  /\ pc[p] = "guard"
  /\ IF level[p] # "readOnly"
     THEN Proceed(p, IF cmd[p] = "deprovision" THEN "unrecord" ELSE "client")
     ELSE Error(p)

\* deprovision and uninstall are deletes: every level but none blocks them.
Guard(p) ==
  /\ pc[p] = "guard"
  /\ IF level[p] = "none"
     THEN Proceed(p, IF cmd[p] = "deprovision" THEN "unrecord" ELSE "client")
     ELSE Error(p)

-----------------------------------------------------------------------------
(* Provision: ensureAzureDeploymentCreated.                                  *)

\* Mutant of GetRecord: a record of a deployment under way is enough.
GetRecordAny(p) ==
  /\ pc[p] = "record"
  /\ Proceed(p, IF record # "none" /\ ~force[p] THEN "ok" ELSE "deploy")

\* A succeeded record is the answer unless forced; an error is no record.
GetRecord(p) ==
  /\ pc[p] = "record"
  /\ \/ Proceed(p, IF record = "succeeded" /\ ~force[p] THEN "ok" ELSE "deploy")
     \/ Swallow(p, "deploy")

\* Azure refuses a second deployment of the same name while one runs.
IssueDeployment(p) ==
  /\ pc[p] = "deploy"
  /\ IF record = "running"
     THEN Error(p)
     ELSE /\ record' = "running"
          /\ pend' = [pend EXCEPT ![p] = "group"]
          /\ Goto(p, "wait")
          /\ Disturb(p)
          /\ UNCHANGED <<dropping, group, vault, k8s,
                         cmd, force, level, vaults, conn, helm, swallowed>>

\* The deployment's resource group, the first resource of the template.
LandGroup(p) ==
  /\ pend[p] = "group"
  /\ group' = IF group = "absent" THEN "partial" ELSE group
  /\ pend' = [pend EXCEPT ![p] = "cluster"]
  /\ Disturb(p)
  /\ UNCHANGED <<record, dropping, vault, k8s,
                 pc, cmd, force, level, vaults, conn, helm, swallowed>>

Settle(p, l) ==
  /\ pend' = [pend EXCEPT ![p] = "none"]
  /\ pc' = IF pc[p] = "wait" THEN [pc EXCEPT ![p] = l] ELSE pc
  /\ Disturb(p)
  /\ UNCHANGED <<dropping, cmd, force, level, vaults, swallowed>>

\* The vault and the AKS cluster inside it; a vault of the same name that is
\* soft-deleted, or not purged yet, is a conflict.
LandCluster(p) ==
  /\ pend[p] = "cluster"
  /\ group # "absent"
  /\ vault \in {"none", "live"}
  /\ record' = "succeeded"
  /\ group' = "complete"
  /\ vault' = "live"
  /\ Settle(p, "ok")
  /\ UNCHANGED <<k8s, conn, helm>>

\* The deployment fails, with whatever it had created by then.
LandFailure(p) ==
  /\ pend[p] \in {"group", "cluster"}
  /\ record' = "failed"
  /\ \/ UNCHANGED <<group, vault>>
     \/ /\ pend[p] = "cluster"
        /\ group # "absent"
        /\ group' \in {group, "complete"}
        /\ vault' = IF vault = "none" THEN "live" ELSE vault
  /\ Settle(p, "failed")
  /\ UNCHANGED <<k8s, conn, helm>>

-----------------------------------------------------------------------------
(* Deprovision: ensureAzureDeploymentDeleted, which never fails, then        *)
(* ensureAzureResourceGroupDeleted.                                          *)

\* Mutant of DropRecord: the record is left to the end, and then forgotten.
DropRecordNever(p) == pc[p] = "unrecord" /\ Proceed(p, "group")

\* A record whose deployment runs cannot be deleted.  When only the waiting
\* fails, the deletion is still to come.
DropRecord(p) ==
  /\ pc[p] = "unrecord"
  /\ \/ /\ record # "running"
        /\ record' = "none"
        /\ Goto(p, "group")
        /\ Disturb(p)
        /\ UNCHANGED <<dropping, group, vault, k8s,
                       cmd, force, level, vaults, conn, helm, pend, swallowed>>
     \/ Swallow(p, "group")
     \/ /\ record # "running"
        /\ dropping' = TRUE
        /\ swallowed' = [swallowed EXCEPT ![p] = TRUE]
        /\ Goto(p, "group")
        /\ UNCHANGED <<record, group, vault, k8s,
                       cmd, force, level, vaults, conn, helm, pend, calm>>

\* An error of the Get means, like a missing group, that all is done.
GetGroup(p) ==
  /\ pc[p] = "group"
  /\ \/ Proceed(p, IF group = "absent" THEN "ok" ELSE "vaults")
     \/ Swallow(p, "ok")

\* vaults[p]: there is something to purge once the group is gone.
ListVaults(p) ==
  /\ pc[p] = "vaults"
  /\ \/ /\ vaults' = [vaults EXCEPT ![p] = (vault = "live")]
        /\ Goto(p, "remove")
        /\ UNCHANGED <<azure, k8s, cmd, force, level, conn, helm, pend, calm, swallowed>>
     \/ Swallow(p, "remove")

IssueGroupDelete(p) ==
  /\ pc[p] = "remove"
  /\ pend' = [pend EXCEPT ![p] = "delete"]
  /\ Goto(p, "wait")
  /\ UNCHANGED <<azure, k8s, cmd, force, level, vaults, conn, helm, calm, swallowed>>

\* The group goes with everything in it; its vault is only soft-deleted.
LandGroupDelete(p) ==
  /\ pend[p] = "delete"
  /\ group' = "absent"
  /\ vault' = IF vault = "live" THEN "deleted" ELSE vault
  /\ namespace' = "none"
  /\ account' = FALSE
  /\ release' = "none"
  /\ conn' = [q \in Ops |-> FALSE]
  /\ helm' = [q \in Ops |-> "none"]
  /\ Settle(p, IF vaults[p] THEN "purge" ELSE "ok")
  /\ UNCHANGED record

\* Azure refuses or gives up the deletion.
RejectDelete(p) ==
  /\ pend[p] = "delete"
  /\ Settle(p, "failed")
  /\ UNCHANGED <<record, group, vault, k8s, conn, helm>>

\* Mutant of Purge: the purge is left out.
PurgeNever(p) == pc[p] = "purge" /\ Proceed(p, "ok")

\* Only a soft-deleted vault can be purged; the purge is not waited for, and an
\* error is logged.
Purge(p) ==
  /\ pc[p] = "purge"
  /\ \/ /\ vault = "deleted"
        /\ vault' = "purging"
        /\ Goto(p, "ok")
        /\ Disturb(p)
        /\ UNCHANGED <<record, dropping, group, k8s,
                       cmd, force, level, vaults, conn, helm, pend, swallowed>>
     \/ Swallow(p, "ok")

-----------------------------------------------------------------------------
(* Install and uninstall talk to the cluster through the kube client.        *)

ClientOutputs(p) ==
  /\ pc[p] = "client"
  /\ IF record = "succeeded" THEN Proceed(p, "clientCreds") ELSE Error(p)

ClientCreds(p) ==
  /\ pc[p] = "clientCreds"
  /\ IF group = "complete"
     THEN /\ conn' = [conn EXCEPT ![p] = TRUE]
          /\ Goto(p, IF cmd[p] = "install" THEN "namespace" ELSE "unhelm")
          /\ UNCHANGED <<azure, k8s, cmd, force, level, vaults, helm, pend, calm, swallowed>>
     ELSE Error(p)

\* CreateNamespace: an existing namespace will do, also one being deleted.
\* Install ensures it twice, the second time from InstallIngressTraefik.
EnsureNamespace(p) ==
  /\ pc[p] \in {"namespace", "namespaceAgain"}
  /\ conn[p]
  /\ namespace' = IF namespace = "none" THEN "active" ELSE namespace
  /\ Goto(p, IF pc[p] = "namespace" THEN "outputs" ELSE "helm")
  /\ Disturb(p)
  /\ UNCHANGED <<azure, account, release,
                 cmd, force, level, vaults, conn, helm, pend, swallowed>>

InstallOutputs(p) ==
  /\ pc[p] = "outputs"
  /\ IF record = "succeeded" THEN Proceed(p, "account") ELSE Error(p)

\* CreateServiceAccount: nothing is created in a namespace being deleted.
EnsureAccount(p) ==
  /\ pc[p] = "account"
  /\ conn[p]
  /\ IF account \/ namespace = "active"
     THEN /\ account' = TRUE
          /\ Goto(p, "namespaceAgain")
          /\ Disturb(p)
          /\ UNCHANGED <<azure, namespace, release,
                         cmd, force, level, vaults, conn, helm, pend, swallowed>>
     ELSE Error(p)

\* Helm upgrades a deployed release and installs a missing one; a release in
\* any other state is an error.
StartRelease(p) ==
  /\ pc[p] = "helm"
  /\ conn[p]
  /\ IF namespace = "active" /\ release # "stuck"
     THEN /\ release' = "stuck"
          /\ helm' = [helm EXCEPT ![p] = IF release = "none" THEN "install" ELSE "upgrade"]
          /\ Goto(p, "release")
          /\ Disturb(p)
          /\ UNCHANGED <<azure, namespace, account,
                         cmd, force, level, vaults, conn, pend, swallowed>>
     ELSE Error(p)

EndRelease(p, r, l) ==
  /\ pc[p] = "release"
  /\ helm[p] # "none"
  /\ release' = r
  /\ helm' = [helm EXCEPT ![p] = "none"]
  /\ Goto(p, l)
  /\ Disturb(p)
  /\ UNCHANGED <<azure, namespace, account,
                 cmd, force, level, vaults, conn, pend, swallowed>>

\* Helm waits for the pods, which run under the ServiceAccount.
ReleaseReady(p) ==
  /\ namespace = "active"
  /\ account
  /\ EndRelease(p, "deployed", "ok")

\* Mutant of ReleaseFails: Helm's error is logged and not returned.
ReleaseFailsUnnoticed(p) ==
  EndRelease(p, IF helm[p] = "install" THEN "none" ELSE "deployed", "ok")

\* Atomic: a failed install is removed, a failed upgrade is rolled back.
ReleaseFails(p) ==
  EndRelease(p, IF helm[p] = "install" THEN "none" ELSE "deployed", "failed")

\* Helm uninstall, of a release in any state; an unknown release is fine.
UninstallRelease(p) ==
  /\ pc[p] = "unhelm"
  /\ conn[p]
  /\ release' = IF release = "none" THEN "none" ELSE "stuck"
  /\ helm' = [q \in Ops |-> "none"]
  /\ Goto(p, IF release = "none" THEN "unspace" ELSE "unhelmed")
  /\ Disturb(p)
  /\ UNCHANGED <<azure, namespace, account,
                 cmd, force, level, vaults, conn, pend, swallowed>>

\* The release's records are deleted, those of a Helm run in progress too.
ReleaseRemoved(p) ==
  /\ pc[p] = "unhelmed"
  /\ conn[p]
  /\ release' = IF release = "stuck" THEN "none" ELSE release
  /\ helm' = [q \in Ops |-> "none"]
  /\ Goto(p, "unspace")
  /\ Disturb(p)
  /\ UNCHANGED <<azure, namespace, account,
                 cmd, force, level, vaults, conn, pend, swallowed>>

\* Mutant of DropNamespace: the namespace is left behind.
DropNamespaceNever(p) == pc[p] = "unspace" /\ conn[p] /\ Proceed(p, "ok")

\* DeleteNamespace does not wait for the namespace to be gone.
DropNamespace(p) ==
  /\ pc[p] = "unspace"
  /\ conn[p]
  /\ namespace' = IF namespace = "active" THEN "terminating" ELSE namespace
  /\ Goto(p, "ok")
  /\ Disturb(p)
  /\ UNCHANGED <<azure, account, release,
                 cmd, force, level, vaults, conn, helm, pend, swallowed>>

-----------------------------------------------------------------------------
(* What happens without a command.                                           *)

\* A record deletion that was accepted and not waited for takes effect.
RecordDropped ==
  /\ dropping
  /\ record # "running"
  /\ record' = "none"
  /\ dropping' = FALSE
  /\ calm' = [q \in Ops |-> FALSE]
  /\ UNCHANGED <<group, vault, k8s,
                 pc, cmd, force, level, vaults, conn, helm, pend, swallowed>>

\* Azure finishes a purge.
VaultPurged ==
  /\ vault = "purging"
  /\ vault' = "none"
  /\ UNCHANGED <<record, dropping, group, k8s, ops>>

\* The cluster finishes a namespace's deletion, with everything in it.
NamespaceGone ==
  /\ namespace = "terminating"
  /\ namespace' = "none"
  /\ account' = FALSE
  /\ release' = "none"
  /\ helm' = [q \in Ops |-> "none"]
  /\ UNCHANGED <<azure, pc, cmd, force, level, vaults, conn, pend, calm, swallowed>>

\* An API call fails, the command's context times out, or the process dies.
\* Azure operations stay in flight; Helm stops where it was.
Fail(p) ==
  \/ pc[p] \in Running \ {"wait"} /\ Error(p)
  \/ pc[p] = "wait" /\ Proceed(p, "failed")

-----------------------------------------------------------------------------

Step(p) ==
  \/ StatusOutputs(p) \/ StatusCreds(p) \/ StatusIngress(p) \/ Guard(p)
  \/ GetRecord(p) \/ IssueDeployment(p)
  \/ DropRecord(p) \/ GetGroup(p) \/ ListVaults(p) \/ IssueGroupDelete(p) \/ Purge(p)
  \/ ClientOutputs(p) \/ ClientCreds(p)
  \/ EnsureNamespace(p) \/ InstallOutputs(p) \/ EnsureAccount(p)
  \/ StartRelease(p) \/ ReleaseReady(p) \/ ReleaseFails(p)
  \/ UninstallRelease(p) \/ ReleaseRemoved(p) \/ DropNamespace(p)

Land(p) ==
  LandGroup(p) \/ LandCluster(p) \/ LandFailure(p) \/ LandGroupDelete(p) \/ RejectDelete(p)

Next ==
  \/ \E p \in Ops : Begin(p) \/ Step(p) \/ Land(p) \/ Fail(p)
  \/ RecordDropped
  \/ VaultPurged
  \/ NamespaceGone

Spec == Init /\ [][Next]_vars

-----------------------------------------------------------------------------
(* Properties.  A command that nobody interferes with (calm) must keep its   *)
(* promise from every state that failures, crashes and races left behind.    *)

\* ClusterProvision (cluster.go:28): after a successful provision the record
\* has outputs; after a forced one the cluster is there, too.  Without --force
\* the record alone is believed (azure_aks.go:84).
ProvisionGivesCluster ==
  \A p \in Ops : pc[p] = "ok" /\ cmd[p] = "provision" /\ calm[p] =>
    /\ record = "succeeded"
    /\ force[p] => group = "complete"

\* ClusterDeprovision (cluster.go:59): when no error was swallowed on the way,
\* a successful deprovision leaves no record, no group and no live vault, and
\* the purge of the vault of the group it deleted is under way.
DeprovisionLeavesNothing ==
  \A p \in Ops : pc[p] = "ok" /\ cmd[p] = "deprovision" /\ calm[p] /\ ~swallowed[p] =>
    /\ record = "none"
    /\ group = "absent"
    /\ vault # "live"
    /\ vaults[p] => vault \in {"none", "purging"}

\* Both (cluster.go:28 and 59): the cluster follows the last command that succeeded,
\* from whatever state earlier commands left.
ClusterFollows == ProvisionGivesCluster /\ DeprovisionLeavesNothing

\* ClusterInstall (cluster.go:111): after a successful install the ingress runs
\* in a live namespace under its ServiceAccount, also when a namespace of an
\* earlier uninstall was still being deleted.
InstallGivesIngress ==
  \A p \in Ops : pc[p] = "ok" /\ cmd[p] = "install" /\ calm[p] =>
    /\ group = "complete"
    /\ namespace = "active"
    /\ account
    /\ release = "deployed"

\* ClusterUninstall (cluster.go:295): no release is left, also no stuck one.
UninstallRemovesIngress ==
  \A p \in Ops : pc[p] = "ok" /\ cmd[p] = "uninstall" /\ calm[p] =>
    release = "none" /\ namespace # "active"

\* Both (cluster.go:111 and 295): the ingress follows the last command that succeeded.
IngressFollows == InstallGivesIngress /\ UninstallRemovesIngress

\* Protection (cluster_protection.go): group and namespace are only deleted by
\* invocations that found the level none, however late Azure acts.
DeletesNeedConsent ==
  [][/\ group # "absent" /\ group' = "absent" =>
          \E p \in Ops : pend[p] = "delete" /\ pend'[p] = "none" /\ level[p] = "none"
     /\ namespace = "active" /\ namespace' = "terminating" =>
          \E p \in Ops : pc[p] = "unspace" /\ pc'[p] = "ok" /\ level[p] = "none"]_vars

\* The update of p redeploys a cluster, or upgrades a release, that is there.
Updates(p) ==
  \/ pc[p] = "deploy" /\ pc'[p] = "wait" /\ record = "succeeded" /\ group = "complete"
  \/ pc[p] = "helm" /\ pc'[p] = "release" /\ release = "deployed"

\* Protection: readOnly blocks updates whenever the status could be read
\* (provision.go:28, install.go:28).
UpdatesNeedConsent ==
  [][\A p \in Ops : Updates(p) /\ level[p] = "readOnly" /\ calm[p] => swallowed[p]]_vars

\* Both: no step that the protection of its invocation rules out (cluster_protection.go:8).
ConsentRespected == DeletesNeedConsent /\ UpdatesNeedConsent

\* Deprovision deletes the record before the group: a succeeded record without
\* its cluster, which provision would trust, is only left behind by a swallowed
\* error or by two invocations at once.
RecordGoesFirst ==
  [][group # "absent" /\ group' = "absent" /\ record = "succeeded" =>
       \E p \in Ops : /\ pend[p] = "delete" /\ pend'[p] = "none"
                      /\ ~calm[p] \/ swallowed[p]]_vars

-----------------------------------------------------------------------------
(* The invariant behind these properties.                                    *)

\* What is in the group goes with it, and what is in the cluster with AKS.
Contents ==
  /\ vault = "live" => group # "absent"
  /\ namespace # "none" \/ account \/ release # "none" => group = "complete"

Updating(p)  == pc[p] \in {"record", "deploy"}
Deleting(p)  == pc[p] \in {"group", "vaults", "remove", "purge"} \/ pend[p] = "delete"
Connected(p) == pc[p] \in {"namespace", "outputs", "account", "namespaceAgain", "helm",
                           "release", "unhelm", "unhelmed", "unspace"}

\* Control points belong to their commands, and an operation is in flight
\* exactly while its command polls, or after the command was abandoned.
Flow(p) ==
  /\ pc[p] = "wait" => pend[p] # "none"
  /\ pend[p] # "none" => pc[p] \in {"wait", "failed"}
  /\ pend[p] \in {"group", "cluster"} => record = "running" /\ cmd[p] = "provision"
  /\ Updating(p) => cmd[p] = "provision"
  /\ pc[p] \in {"status", "statusCreds"} => cmd[p] \in {"provision", "install"}
  /\ pc[p] = "statusIngress" => cmd[p] = "install"
  /\ pc[p] = "guard" => cmd[p] \in {"deprovision", "uninstall"}
  /\ pc[p] = "unrecord" \/ Deleting(p) => cmd[p] = "deprovision" /\ level[p] = "none"
  /\ pc[p] \in {"client", "clientCreds"} => cmd[p] \in {"install", "uninstall"}
  /\ pc[p] \in {"namespace", "outputs", "account", "namespaceAgain", "helm", "release"}
       => cmd[p] = "install"
  /\ pc[p] \in {"unhelm", "unhelmed", "unspace"} => cmd[p] = "uninstall"
  /\ cmd[p] = "uninstall" => level[p] = "none" \/ pc[p] = "guard"
  /\ conn[p] => group = "complete"
  /\ helm[p] # "none" => pc[p] = "release" /\ release = "stuck"

\* What a deprovision nobody disturbed knows.
Deprovisioning(p) == calm[p] /\ cmd[p] = "deprovision" /\ ~swallowed[p] =>
  /\ Deleting(p) => record = "none"
  /\ pc[p] \in {"guard", "unrecord", "group", "vaults"} => ~vaults[p]
  /\ pc[p] = "remove" => vaults[p] = (vault = "live")
  /\ pc[p] = "wait" => vaults[p] = (vault = "live")
  /\ pc[p] = "purge" => group = "absent" /\ vault = "deleted"

\* What an update under readOnly nobody disturbed knows, its status read.
ReadOnlyUpdating(p) == calm[p] /\ level[p] = "readOnly" /\ ~swallowed[p] =>
  /\ pc[p] \in {"statusCreds", "statusIngress", "clientCreds"} => record = "succeeded"
  /\ pc[p] = "statusIngress" => group = "complete"
  /\ Updating(p) => record # "succeeded" \/ group # "complete"
  /\ pc[p] = "client" => record # "succeeded" \/ group # "complete" \/ release # "deployed"
  /\ pc[p] = "clientCreds" => group # "complete" \/ release # "deployed"
  /\ Connected(p) => release # "deployed"

\* What an uninstall nobody disturbed knows.
Uninstalling(p) == calm[p] =>
  /\ pc[p] = "unhelmed" => release # "deployed"
  /\ pc[p] = "unspace" => release = "none"

\* Azure runs one deployment of a name, and Helm one operation on a release.
OneAtATime ==
  \A p, q \in Ops :
    \/ pend[p] \in {"group", "cluster"} /\ pend[q] \in {"group", "cluster"}
    \/ helm[p] # "none" /\ helm[q] # "none"
    => p = q

Inv ==
  /\ Contents
  /\ OneAtATime
  /\ \A p \in Ops :
       Flow(p) /\ Deprovisioning(p) /\ ReadOnlyUpdating(p) /\ Uninstalling(p)
  /\ ProvisionGivesCluster
  /\ DeprovisionLeavesNothing
  /\ InstallGivesIngress
  /\ UninstallRemovesIngress
=============================================================================
