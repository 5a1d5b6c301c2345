----------------------- MODULE ClusterLifecycle_proofs -----------------------
(***************************************************************************)
(* The invariant of ClusterLifecycle and the safety properties it implies, *)
(* for any number of invocations.                                          *)
(*                                                                         *)
(* Inv is taken apart by invocation: Good(p) is what p's control point     *)
(* implies and what p knows while it is calm.  A step of p keeps Good(p)   *)
(* because the step found it out (StepKeeps, LandKeeps, BeginKeeps,        *)
(* FailKeeps).  It keeps Good(q) of another q either because it only works *)
(* on p's own variables (QuietKeeps), or because it ends q's calm and      *)
(* leaves q its control flow (DisturbedKeeps).  OneAtATime is needed for   *)
(* the latter: only p's own deployment ends the record's "running", and    *)
(* only p's own Helm operation the release's "stuck".                      *)
(***************************************************************************)
EXTENDS ClusterLifecycle, TLAPS

-----------------------------------------------------------------------------
(* Types.                                                                    *)

\* The program starts with nothing provisioned.
LEMMA InitTypeOK == Init => TypeOK
  <1> SUFFICES ASSUME Init PROVE TypeOK
    OBVIOUS
  <1>1. /\ force \in [Ops -> BOOLEAN] /\ vaults \in [Ops -> BOOLEAN]
        /\ conn \in [Ops -> BOOLEAN] /\ calm \in [Ops -> BOOLEAN]
        /\ swallowed \in [Ops -> BOOLEAN]
    BY Zenon DEF Init
  <1>2. /\ pc \in [Ops -> Running \cup Ended]
        /\ cmd \in [Ops -> AllCommands]
        /\ level \in [Ops -> Levels]
        /\ helm \in [Ops -> {"none", "install", "upgrade"}]
        /\ pend \in [Ops -> {"none", "group", "cluster", "delete"}]
    BY DEF Init, Running, Ended, AllCommands, Levels
  <1>3. dropping \in BOOLEAN /\ account \in BOOLEAN
    BY Zenon DEF Init
  <1> QED BY <1>1, <1>2, <1>3 DEF Init, TypeOK

\* Moving to a control point keeps pc's type.
LEMMA GotoTypes ==
  ASSUME TypeOK, NEW p \in Ops, NEW l \in Running \cup Ended, Goto(p, l)
  PROVE  pc' \in [Ops -> Running \cup Ended]
  BY DEF TypeOK, Goto

\* Ending the calm of others keeps calm's type.
LEMMA DisturbTypes ==
  ASSUME TypeOK, NEW p \in Ops, Disturb(p) PROVE calm' \in [Ops -> BOOLEAN]
  BY DEF TypeOK, Disturb

\* A step that only moves its control point keeps the types.
LEMMA ProceedTypeOK ==
  ASSUME TypeOK, NEW p \in Ops, NEW l \in Running \cup Ended, Proceed(p, l)
  PROVE  TypeOK'
  BY GotoTypes DEF TypeOK, Proceed, azure, k8s

\* An error taken for an answer keeps the types.
LEMMA SwallowTypeOK ==
  ASSUME TypeOK, NEW p \in Ops, NEW l \in Running \cup Ended, Swallow(p, l)
  PROVE  TypeOK'
  BY GotoTypes DEF TypeOK, Swallow, azure, k8s

\* A command that ends with an error keeps the types.
LEMMA ErrorTypeOK ==
  ASSUME TypeOK, NEW p \in Ops, Error(p)
  PROVE  TypeOK'
  <1>1. "failed" \in Running \cup Ended
    BY DEF Ended
  <1> QED BY <1>1, GotoTypes DEF TypeOK, Error, Levels, azure, k8s

\* The end of a Helm run keeps the types.
LEMMA EndReleaseTypeOK ==
  ASSUME TypeOK, NEW p \in Ops, NEW l \in Running \cup Ended,
         NEW r \in {"none", "deployed"}, EndRelease(p, r, l)
  PROVE  TypeOK'
  <1>1. pc' \in [Ops -> Running \cup Ended]
    BY GotoTypes DEF EndRelease
  <1>2. calm' \in [Ops -> BOOLEAN]
    BY DisturbTypes DEF EndRelease
  <1>3. helm' \in [Ops -> {"none", "install", "upgrade"}]
    BY DEF EndRelease, TypeOK
  <1>4. /\ release' = r
        /\ UNCHANGED <<azure, namespace, account, cmd, force, level, vaults, conn,
                       pend, swallowed>>
    BY DEF EndRelease
  <1> QED BY <1>1, <1>2, <1>3, <1>4 DEF TypeOK, azure

\* Every control point a step goes to is one.
LEMMA Points ==
  /\ {"statusCreds", "statusIngress", "record", "deploy", "wait", "unrecord", "group",
      "vaults", "remove", "purge", "client", "clientCreds", "namespace", "outputs",
      "account", "namespaceAgain", "helm", "release", "unhelm", "unhelmed", "unspace",
      "ok", "failed"} \subseteq Running \cup Ended
  /\ \A p : AfterStatus(p) \in Running \cup Ended
  BY DEF Running, Ended, AfterStatus

\* Every call a command makes keeps the types.
LEMMA StepTypeOK == ASSUME TypeOK, NEW p \in Ops, Step(p) PROVE TypeOK'
  <1>1. CASE StatusOutputs(p)
    BY <1>1, Points, ProceedTypeOK, SwallowTypeOK DEF StatusOutputs
  <1>2. CASE StatusCreds(p)
    BY <1>2, Points, ProceedTypeOK, SwallowTypeOK, ErrorTypeOK
       DEF StatusCreds, WhenPresent
  <1>3. CASE StatusIngress(p)
    BY <1>3, Points, ProceedTypeOK, SwallowTypeOK, ErrorTypeOK
       DEF StatusIngress, WhenPresent
  <1>4. CASE Guard(p)
    BY <1>4, Points, ProceedTypeOK, ErrorTypeOK DEF Guard
  <1>5. CASE GetRecord(p)
    BY <1>5, Points, ProceedTypeOK, SwallowTypeOK DEF GetRecord
  <1>6. CASE IssueDeployment(p)
    BY <1>6, Points, ErrorTypeOK, GotoTypes, DisturbTypes
       DEF IssueDeployment, TypeOK, k8s
  <1>7. CASE DropRecord(p)
    <2>1. CASE Swallow(p, "group")
      BY <2>1, Points, SwallowTypeOK
    <2>2. CASE ~Swallow(p, "group")
      <3>1. pc' \in [Ops -> Running \cup Ended]
        BY <1>7, <2>2, Points, GotoTypes DEF DropRecord
      <3>2. calm' \in [Ops -> BOOLEAN] /\ swallowed' \in [Ops -> BOOLEAN]
        BY <1>7, <2>2, DisturbTypes DEF DropRecord, TypeOK
      <3>3. /\ record' \in {record, "none"} /\ dropping' \in {dropping, TRUE}
            /\ UNCHANGED <<group, vault, k8s, cmd, force, level, vaults, conn, helm, pend>>
        BY <1>7, <2>2 DEF DropRecord
      <3>4. record' \in {"none", "running", "succeeded", "failed"}
        BY <3>3 DEF TypeOK
      <3>5. dropping' \in BOOLEAN
        BY <3>3 DEF TypeOK
      <3> QED BY <3>1, <3>2, <3>3, <3>4, <3>5 DEF TypeOK, k8s
    <2> QED BY <2>1, <2>2
  <1>8. CASE GetGroup(p)
    BY <1>8, Points, ProceedTypeOK, SwallowTypeOK DEF GetGroup
  <1>9. CASE ListVaults(p)
    <2>1. CASE Swallow(p, "remove")
      BY <2>1, Points, SwallowTypeOK
    <2>2. CASE /\ vaults' = [vaults EXCEPT ![p] = (vault = "live")]
               /\ Goto(p, "remove")
               /\ UNCHANGED <<azure, k8s, cmd, force, level, conn, helm, pend, calm, swallowed>>
      <3>1. vaults' \in [Ops -> BOOLEAN]
        BY <2>2 DEF TypeOK
      <3>2. pc' \in [Ops -> Running \cup Ended]
        BY <2>2, Points, GotoTypes
      <3> QED BY <2>2, <3>1, <3>2 DEF TypeOK, azure, k8s
    <2> QED BY <1>9, <2>1, <2>2 DEF ListVaults
  <1>10. CASE IssueGroupDelete(p)
    BY <1>10, Points, GotoTypes DEF IssueGroupDelete, TypeOK, azure, k8s
  <1>11. CASE Purge(p)
    <2>1. CASE Swallow(p, "ok")
      BY <2>1, Points, SwallowTypeOK
    <2>2. CASE ~Swallow(p, "ok")
      <3>1. pc' \in [Ops -> Running \cup Ended]
        BY <1>11, <2>2, Points, GotoTypes DEF Purge
      <3>2. calm' \in [Ops -> BOOLEAN]
        BY <1>11, <2>2, DisturbTypes DEF Purge
      <3>3. /\ vault' = "purging"
            /\ UNCHANGED <<record, dropping, group, k8s, cmd, force, level, vaults,
                           conn, helm, pend, swallowed>>
        BY <1>11, <2>2 DEF Purge
      <3> QED BY <3>1, <3>2, <3>3 DEF TypeOK, k8s
    <2> QED BY <2>1, <2>2
  <1>12. CASE ClientOutputs(p)
    BY <1>12, Points, ProceedTypeOK, ErrorTypeOK DEF ClientOutputs
  <1>13. CASE ClientCreds(p)
    <2>1. CASE group = "complete"
      <3>1. pc' \in [Ops -> Running \cup Ended]
        BY <1>13, <2>1, Points, GotoTypes DEF ClientCreds
      <3>2. conn' \in [Ops -> BOOLEAN]
        BY <1>13, <2>1 DEF ClientCreds, TypeOK
      <3>3. UNCHANGED <<azure, k8s, cmd, force, level, vaults, helm, pend, calm, swallowed>>
        BY <1>13, <2>1 DEF ClientCreds
      <3> QED BY <3>1, <3>2, <3>3 DEF TypeOK, azure, k8s
    <2>2. CASE group # "complete"
      BY <1>13, <2>2, ErrorTypeOK DEF ClientCreds
    <2> QED BY <2>1, <2>2
  <1>14. CASE EnsureNamespace(p)
    <2>1. pc' \in [Ops -> Running \cup Ended]
      BY <1>14, Points, GotoTypes DEF EnsureNamespace
    <2>2. calm' \in [Ops -> BOOLEAN]
      BY <1>14, DisturbTypes DEF EnsureNamespace
    <2>3. /\ namespace' \in {"active", namespace}
          /\ UNCHANGED <<azure, account, release, cmd, force, level, vaults, conn,
                         helm, pend, swallowed>>
      BY <1>14 DEF EnsureNamespace
    <2> QED BY <2>1, <2>2, <2>3 DEF TypeOK, azure
  <1>15. CASE InstallOutputs(p)
    BY <1>15, Points, ProceedTypeOK, ErrorTypeOK DEF InstallOutputs
  <1>16. CASE EnsureAccount(p)
    <2>1. CASE account \/ namespace = "active"
      <3>1. pc' \in [Ops -> Running \cup Ended]
        BY <1>16, <2>1, Points, GotoTypes DEF EnsureAccount
      <3>2. calm' \in [Ops -> BOOLEAN]
        BY <1>16, <2>1, DisturbTypes DEF EnsureAccount
      <3>3. /\ account' = TRUE
            /\ UNCHANGED <<azure, namespace, release, cmd, force, level, vaults,
                           conn, helm, pend, swallowed>>
        BY <1>16, <2>1 DEF EnsureAccount
      <3> QED BY <3>1, <3>2, <3>3 DEF TypeOK, azure
    <2>2. CASE ~(account \/ namespace = "active")
      BY <1>16, <2>2, ErrorTypeOK DEF EnsureAccount
    <2> QED BY <2>1, <2>2
  <1>17. CASE StartRelease(p)
    <2>1. CASE namespace = "active" /\ release # "stuck"
      <3>1. pc' \in [Ops -> Running \cup Ended]
        BY <1>17, <2>1, Points, GotoTypes DEF StartRelease
      <3>2. calm' \in [Ops -> BOOLEAN]
        BY <1>17, <2>1, DisturbTypes DEF StartRelease
      <3>3. helm' \in [Ops -> {"none", "install", "upgrade"}]
        BY <1>17, <2>1 DEF StartRelease, TypeOK
      <3>4. /\ release' = "stuck"
            /\ UNCHANGED <<azure, namespace, account, cmd, force, level, vaults,
                           conn, pend, swallowed>>
        BY <1>17, <2>1 DEF StartRelease
      <3> QED BY <3>1, <3>2, <3>3, <3>4 DEF TypeOK, azure
    <2>2. CASE ~(namespace = "active" /\ release # "stuck")
      BY <1>17, <2>2, ErrorTypeOK DEF StartRelease
    <2> QED BY <2>1, <2>2
  <1>18. CASE ReleaseReady(p)
    BY <1>18, Points, EndReleaseTypeOK DEF ReleaseReady
  <1>19. CASE ReleaseFails(p)
    BY <1>19, Points, EndReleaseTypeOK DEF ReleaseFails
  <1>20. CASE UninstallRelease(p)
    <2>1. pc' \in [Ops -> Running \cup Ended]
      BY <1>20, Points, GotoTypes DEF UninstallRelease
    <2>2. calm' \in [Ops -> BOOLEAN]
      BY <1>20, DisturbTypes DEF UninstallRelease
    <2>3. /\ release' \in {"none", "stuck"}
          /\ helm' = [q \in Ops |-> "none"]
          /\ UNCHANGED <<azure, namespace, account, cmd, force, level, vaults,
                         conn, pend, swallowed>>
      BY <1>20 DEF UninstallRelease
    <2> QED BY <2>1, <2>2, <2>3 DEF TypeOK, azure
  <1>21. CASE ReleaseRemoved(p)
    <2>1. pc' \in [Ops -> Running \cup Ended]
      BY <1>21, Points, GotoTypes DEF ReleaseRemoved
    <2>2. calm' \in [Ops -> BOOLEAN]
      BY <1>21, DisturbTypes DEF ReleaseRemoved
    <2>3. /\ release' \in {"none", release}
          /\ helm' = [q \in Ops |-> "none"]
          /\ UNCHANGED <<azure, namespace, account, cmd, force, level, vaults,
                         conn, pend, swallowed>>
      BY <1>21 DEF ReleaseRemoved
    <2> QED BY <2>1, <2>2, <2>3 DEF TypeOK, azure
  <1>22. CASE DropNamespace(p)
    <2>1. pc' \in [Ops -> Running \cup Ended]
      BY <1>22, Points, GotoTypes DEF DropNamespace
    <2>2. calm' \in [Ops -> BOOLEAN]
      BY <1>22, DisturbTypes DEF DropNamespace
    <2>3. /\ namespace' \in {"terminating", namespace}
          /\ UNCHANGED <<azure, account, release, cmd, force, level, vaults, conn,
                         helm, pend, swallowed>>
      BY <1>22 DEF DropNamespace
    <2> QED BY <2>1, <2>2, <2>3 DEF TypeOK, azure
  <1> QED BY <1>1, <1>2, <1>3, <1>4, <1>5, <1>6, <1>7, <1>8, <1>9, <1>10,
         <1>11, <1>12, <1>13, <1>14, <1>15, <1>16, <1>17, <1>18, <1>19, <1>20,
         <1>21, <1>22 DEF Step

\* The end of an Azure operation keeps the types of what it settles.
LEMMA SettleTypes ==
  ASSUME TypeOK, NEW p \in Ops, NEW l \in Running \cup Ended, Settle(p, l)
  PROVE  /\ pc' \in [Ops -> Running \cup Ended]
         /\ pend' \in [Ops -> {"none", "group", "cluster", "delete"}]
         /\ calm' \in [Ops -> BOOLEAN]
  BY DEF TypeOK, Settle, Disturb

\* What Azure does with an operation in flight keeps the types.
LEMMA LandTypeOK == ASSUME TypeOK, NEW p \in Ops, Land(p) PROVE TypeOK'
  <1>1. CASE LandGroup(p)
    BY <1>1 DEF TypeOK, LandGroup, Disturb, k8s
  <1>2. CASE LandCluster(p)
    <2>1. Settle(p, "ok")
      BY <1>2 DEF LandCluster
    <2>2. /\ record' = "succeeded" /\ group' = "complete" /\ vault' = "live"
          /\ UNCHANGED <<dropping, k8s, cmd, force, level, vaults, conn, helm, swallowed>>
      BY <1>2 DEF LandCluster, Settle
    <2> QED BY <2>1, <2>2, Points, SettleTypes DEF TypeOK, k8s
  <1>3. CASE LandFailure(p)
    <2>1. Settle(p, "failed")
      BY <1>3 DEF LandFailure
    <2>2. /\ record' = "failed"
          /\ group' \in {group, "complete"} /\ vault' \in {vault, "live"}
          /\ UNCHANGED <<dropping, k8s, cmd, force, level, vaults, conn, helm, swallowed>>
      BY <1>3 DEF LandFailure, Settle
    <2> QED BY <2>1, <2>2, Points, SettleTypes DEF TypeOK, k8s
  <1>4. CASE LandGroupDelete(p)
    <2>1. conn' \in [Ops -> BOOLEAN]
      BY <1>4, Zenon DEF LandGroupDelete
    <2>2. (IF vaults[p] THEN "purge" ELSE "ok") \in Running \cup Ended
      BY DEF Running, Ended
    <2> QED BY <1>4, <2>1, <2>2, SettleTypes DEF TypeOK, LandGroupDelete, Settle
  <1>5. CASE RejectDelete(p)
    <2>1. Settle(p, "failed")
      BY <1>5 DEF RejectDelete
    <2>2. UNCHANGED <<record, group, vault, dropping, k8s, cmd, force, level, vaults,
                      conn, helm, swallowed>>
      BY <1>5 DEF RejectDelete, Settle
    <2> QED BY <2>1, <2>2, Points, SettleTypes DEF TypeOK, k8s
  <1> QED BY <1>1, <1>2, <1>3, <1>4, <1>5 DEF Land

\* toModels (sink_tomodels.go:14): what a command is configured with is a level.
LEMMA ConfiguredAreLevels == Configured \subseteq Levels
  BY DEF Configured, LevelOf, Levels

\* Starting an invocation keeps the types.
LEMMA BeginTypeOK == ASSUME TypeOK, NEW p \in Ops, Begin(p) PROVE TypeOK'
  <1>1. ASSUME NEW c \in AllCommands, NEW first \in Running \cup Ended,
               NEW f \in BOOLEAN, NEW l \in Levels, Start(p, c, first, f, l)
        PROVE  TypeOK'
    BY <1>1 DEF TypeOK, Start, azure, k8s
  <1>2. "none" \in Levels
    BY DEF Levels
  <1> QED BY <1>1, <1>2, ConfiguredAreLevels
          DEF Begin, BeginProvision, BeginDeprovision, BeginInstall,
              BeginUninstall, BeginSkipped, AllCommands, Running, Ended

\* TypeOK is inductive on its own.
LEMMA NextTypeOK == TypeOK /\ [Next]_vars => TypeOK'
  <1> SUFFICES ASSUME TypeOK, [Next]_vars PROVE TypeOK'
    OBVIOUS
  <1>1. CASE UNCHANGED vars
    BY <1>1 DEF TypeOK, vars, azure, k8s, ops
  <1>2. ASSUME NEW p \in Ops, Fail(p) PROVE TypeOK'
    <2>1. CASE Error(p)
      BY <2>1 DEF TypeOK, Error, Goto, azure, k8s, Ended, Levels
    <2>2. CASE Proceed(p, "failed")
      BY <2>2 DEF TypeOK, Proceed, Goto, azure, k8s, Ended
    <2> QED BY <1>2, <2>1, <2>2 DEF Fail
  <1>3. CASE RecordDropped
    <2>1. calm' \in [Ops -> BOOLEAN]
      BY <1>3, Zenon DEF RecordDropped
    <2> QED BY <1>3, <2>1 DEF TypeOK, RecordDropped, k8s
  <1>4. CASE NamespaceGone
    BY <1>4 DEF TypeOK, NamespaceGone, azure
  <1>5. CASE VaultPurged
    BY <1>5 DEF TypeOK, VaultPurged, k8s, ops
  <1> QED BY <1>1, <1>2, <1>3, <1>4, <1>5, BeginTypeOK, StepTypeOK, LandTypeOK DEF Next

-----------------------------------------------------------------------------
(* The invariant, taken apart by invocation.                                 *)

\* What a successful command promises while nobody else has changed anything.
Promise(p) == pc[p] = "ok" /\ calm[p] =>
  /\ cmd[p] = "provision" => record = "succeeded" /\ (force[p] => group = "complete")
  /\ cmd[p] = "deprovision" /\ ~swallowed[p] =>
       /\ record = "none" /\ group = "absent" /\ vault # "live"
       /\ vaults[p] => vault \in {"none", "purging"}
  /\ cmd[p] = "install" =>
       group = "complete" /\ namespace = "active" /\ account /\ release = "deployed"
  /\ cmd[p] = "uninstall" => release = "none" /\ namespace # "active"

Good(p) ==
  Flow(p) /\ Deprovisioning(p) /\ ReadOnlyUpdating(p) /\ Uninstalling(p) /\ Promise(p)

\* The invariant, invocation by invocation.
LEMMA InvMeans == Inv <=> Contents /\ OneAtATime /\ \A p \in Ops : Good(p)
  BY DEF Inv, Good, Promise, ProvisionGivesCluster, DeprovisionLeavesNothing,
         InstallGivesIngress, UninstallRemovesIngress

\* Nothing has run yet: there is nothing to know.
LEMMA InitInv == Init => Inv
  BY InvMeans DEF Init, Contents, OneAtATime, Good, Flow, Deprovisioning,
     ReadOnlyUpdating, Uninstalling, Promise, Updating, Deleting, Connected

\* What the running invocation does keeps what it knows.
LEMMA StepKeeps ==
  ASSUME TypeOK, Contents, NEW p \in Ops, Good(p), Step(p)
  PROVE  Good(p)'
  <1>1. CASE StatusOutputs(p)
    BY <1>1
          DEF TypeOK, Contents, Good, Flow, Deprovisioning, ReadOnlyUpdating,
              Uninstalling, Promise, Updating, Deleting, Connected,
              StatusOutputs, Proceed, Swallow, Goto, AfterStatus, azure, k8s
  <1>2. CASE StatusCreds(p)
    BY <1>2
          DEF TypeOK, Contents, Good, Flow, Deprovisioning, ReadOnlyUpdating,
              Uninstalling, Promise, Updating, Deleting, Connected,
              StatusCreds, Proceed, Swallow, Error, Goto, AfterStatus,
              WhenPresent, azure, k8s
  <1>3. CASE StatusIngress(p)
    BY <1>3
          DEF TypeOK, Contents, Good, Flow, Deprovisioning, ReadOnlyUpdating,
              Uninstalling, Promise, Updating, Deleting, Connected,
              StatusIngress, Proceed, Swallow, Error, Goto, AfterStatus,
              WhenPresent, azure, k8s
  <1>4. CASE Guard(p)
    BY <1>4
          DEF TypeOK, Contents, Good, Flow, Deprovisioning, ReadOnlyUpdating,
              Uninstalling, Promise, Updating, Deleting, Connected, Guard,
              Proceed, Error, Goto, azure, k8s
  <1>5. CASE GetRecord(p)
    BY <1>5
          DEF TypeOK, Contents, Good, Flow, Deprovisioning, ReadOnlyUpdating,
              Uninstalling, Promise, Updating, Deleting, Connected,
              GetRecord, Proceed, Swallow, Goto, azure, k8s
  <1>6. CASE IssueDeployment(p)
    BY <1>6
          DEF TypeOK, Contents, Good, Flow, Deprovisioning, ReadOnlyUpdating,
              Uninstalling, Promise, Updating, Deleting, Connected,
              IssueDeployment, Error, Goto, Disturb, azure, k8s
  <1>7. CASE DropRecord(p)
    BY <1>7
          DEF TypeOK, Contents, Good, Flow, Deprovisioning, ReadOnlyUpdating,
              Uninstalling, Promise, Updating, Deleting, Connected,
              DropRecord, Swallow, Goto, Disturb, azure, k8s
  <1>8. CASE GetGroup(p)
    BY <1>8
          DEF TypeOK, Contents, Good, Flow, Deprovisioning, ReadOnlyUpdating,
              Uninstalling, Promise, Updating, Deleting, Connected, GetGroup,
              Proceed, Swallow, Goto, azure, k8s
  <1>9. CASE ListVaults(p)
    BY <1>9
          DEF TypeOK, Contents, Good, Flow, Deprovisioning, ReadOnlyUpdating,
              Uninstalling, Promise, Updating, Deleting, Connected,
              ListVaults, Swallow, Goto, azure, k8s
  <1>10. CASE IssueGroupDelete(p)
    BY <1>10
          DEF TypeOK, Contents, Good, Flow, Deprovisioning, ReadOnlyUpdating,
              Uninstalling, Promise, Updating, Deleting, Connected,
              IssueGroupDelete, Goto, azure, k8s
  <1>11. CASE Purge(p)
    BY <1>11
          DEF TypeOK, Contents, Good, Flow, Deprovisioning, ReadOnlyUpdating,
              Uninstalling, Promise, Updating, Deleting, Connected, Purge,
              Swallow, Goto, Disturb, azure, k8s
  <1>12. CASE ClientOutputs(p)
    BY <1>12
          DEF TypeOK, Contents, Good, Flow, Deprovisioning, ReadOnlyUpdating,
              Uninstalling, Promise, Updating, Deleting, Connected,
              ClientOutputs, Proceed, Error, Goto, azure, k8s
  <1>13. CASE ClientCreds(p)
    BY <1>13
          DEF TypeOK, Contents, Good, Flow, Deprovisioning, ReadOnlyUpdating,
              Uninstalling, Promise, Updating, Deleting, Connected,
              ClientCreds, Error, Goto, azure, k8s
  <1>14. CASE EnsureNamespace(p)
    BY <1>14
          DEF TypeOK, Contents, Good, Flow, Deprovisioning, ReadOnlyUpdating,
              Uninstalling, Promise, Updating, Deleting, Connected,
              EnsureNamespace, Goto, Disturb, azure, k8s
  <1>15. CASE InstallOutputs(p)
    BY <1>15
          DEF TypeOK, Contents, Good, Flow, Deprovisioning, ReadOnlyUpdating,
              Uninstalling, Promise, Updating, Deleting, Connected,
              InstallOutputs, Proceed, Error, Goto, azure, k8s
  <1>16. CASE EnsureAccount(p)
    BY <1>16
          DEF TypeOK, Contents, Good, Flow, Deprovisioning, ReadOnlyUpdating,
              Uninstalling, Promise, Updating, Deleting, Connected,
              EnsureAccount, Error, Goto, Disturb, azure, k8s
  <1>17. CASE StartRelease(p)
    BY <1>17
          DEF TypeOK, Contents, Good, Flow, Deprovisioning, ReadOnlyUpdating,
              Uninstalling, Promise, Updating, Deleting, Connected,
              StartRelease, Error, Goto, Disturb, azure, k8s
  <1>18. CASE ReleaseReady(p)
    BY <1>18
          DEF TypeOK, Contents, Good, Flow, Deprovisioning, ReadOnlyUpdating,
              Uninstalling, Promise, Updating, Deleting, Connected,
              ReleaseReady, EndRelease, Goto, Disturb, azure, k8s
  <1>19. CASE ReleaseFails(p)
    BY <1>19
          DEF TypeOK, Contents, Good, Flow, Deprovisioning, ReadOnlyUpdating,
              Uninstalling, Promise, Updating, Deleting, Connected,
              ReleaseFails, EndRelease, Goto, Disturb, azure, k8s
  <1>20. CASE UninstallRelease(p)
    BY <1>20
          DEF TypeOK, Contents, Good, Flow, Deprovisioning, ReadOnlyUpdating,
              Uninstalling, Promise, Updating, Deleting, Connected,
              UninstallRelease, Goto, Disturb, azure, k8s
  <1>21. CASE ReleaseRemoved(p)
    BY <1>21
          DEF TypeOK, Contents, Good, Flow, Deprovisioning, ReadOnlyUpdating,
              Uninstalling, Promise, Updating, Deleting, Connected,
              ReleaseRemoved, Goto, Disturb, azure, k8s
  <1>22. CASE DropNamespace(p)
    BY <1>22
          DEF TypeOK, Contents, Good, Flow, Deprovisioning, ReadOnlyUpdating,
              Uninstalling, Promise, Updating, Deleting, Connected,
              DropNamespace, Goto, Disturb, azure, k8s
  <1> QED BY <1>1, <1>2, <1>3, <1>4, <1>5, <1>6, <1>7, <1>8, <1>9, <1>10,
         <1>11, <1>12, <1>13, <1>14, <1>15, <1>16, <1>17, <1>18, <1>19, <1>20,
         <1>21, <1>22 DEF Step

\* What Azure does with its operation in flight keeps what an invocation knows.
LEMMA LandKeeps ==
  ASSUME TypeOK, Contents, NEW p \in Ops, Good(p), Land(p)
  PROVE  Good(p)'
  <1>1. CASE LandGroup(p)
    BY <1>1
          DEF TypeOK, Contents, Good, Flow, Deprovisioning, ReadOnlyUpdating,
              Uninstalling, Promise, Updating, Deleting, Connected,
              LandGroup, Disturb, k8s
  <1>2. CASE LandCluster(p)
    BY <1>2
          DEF TypeOK, Contents, Good, Flow, Deprovisioning, ReadOnlyUpdating,
              Uninstalling, Promise, Updating, Deleting, Connected,
              LandCluster, Settle, Disturb, k8s
  <1>3. CASE LandFailure(p)
    BY <1>3
          DEF TypeOK, Contents, Good, Flow, Deprovisioning, ReadOnlyUpdating,
              Uninstalling, Promise, Updating, Deleting, Connected,
              LandFailure, Settle, Disturb, k8s
  <1>4. CASE LandGroupDelete(p)
    BY <1>4
          DEF TypeOK, Contents, Good, Flow, Deprovisioning, ReadOnlyUpdating,
              Uninstalling, Promise, Updating, Deleting, Connected,
              LandGroupDelete, Settle, Disturb, k8s
  <1>5. CASE RejectDelete(p)
    BY <1>5
          DEF TypeOK, Contents, Good, Flow, Deprovisioning, ReadOnlyUpdating,
              Uninstalling, Promise, Updating, Deleting, Connected,
              RejectDelete, Settle, Disturb, k8s
  <1> QED BY <1>1, <1>2, <1>3, <1>4, <1>5 DEF Land

\* A new invocation knows nothing yet, except its level.
LEMMA BeginKeeps == ASSUME TypeOK, NEW p \in Ops, Good(p), Begin(p) PROVE Good(p)'
  <1>1. ASSUME NEW c \in AllCommands, NEW f \in BOOLEAN, NEW l \in Levels,
               NEW first \in {"status", "guard", "skipped"}, Start(p, c, first, f, l),
               first = "status" => c \in {"provision", "install"},
               first = "guard" => c \in {"deprovision", "uninstall"},
               first = "skipped" => c # "uninstall"
        PROVE  Good(p)'
    BY <1>1 DEF TypeOK, Start, azure, k8s, Good, Flow, Deprovisioning, ReadOnlyUpdating,
                Uninstalling, Promise, Updating, Deleting, Connected
  <1>2. CASE BeginProvision(p)
    BY <1>1, <1>2, ConfiguredAreLevels DEF BeginProvision, AllCommands
  <1>3. CASE BeginDeprovision(p)
    BY <1>1, <1>3, ConfiguredAreLevels DEF BeginDeprovision, AllCommands
  <1>4. CASE BeginInstall(p)
    BY <1>1, <1>4, ConfiguredAreLevels DEF BeginInstall, AllCommands
  <1>5. CASE BeginUninstall(p)
    BY <1>1, <1>5, ConfiguredAreLevels DEF BeginUninstall, AllCommands
  <1>6. CASE BeginSkipped(p)
    BY <1>1, <1>6 DEF BeginSkipped, AllCommands, Levels
  <1> QED BY <1>2, <1>3, <1>4, <1>5, <1>6 DEF Begin

\* A command that fails, or a process that dies, forgets what it knew.
LEMMA FailKeeps == ASSUME TypeOK, NEW p \in Ops, Good(p), Fail(p) PROVE Good(p)'
  <1>1. CASE pc[p] \in Running \ {"wait"} /\ Error(p)
    BY <1>1 DEF TypeOK, Error, Goto, azure, k8s, Good, Flow, Deprovisioning,
                ReadOnlyUpdating, Uninstalling, Promise, Updating, Deleting, Connected
  <1>2. CASE pc[p] = "wait" /\ Proceed(p, "failed")
    BY <1>2 DEF TypeOK, Proceed, Goto, azure, k8s, Good, Flow, Deprovisioning,
                ReadOnlyUpdating, Uninstalling, Promise, Updating, Deleting, Connected
  <1> QED BY <1>1, <1>2 DEF Fail

-----------------------------------------------------------------------------
(* What one invocation does to what another one knows.                       *)

\* q's own variables are as before, but for what any invocation may take away.
Aside(q) ==
  /\ pc'[q] = pc[q] /\ cmd'[q] = cmd[q] /\ force'[q] = force[q] /\ level'[q] = level[q]
  /\ vaults'[q] = vaults[q] /\ pend'[q] = pend[q] /\ swallowed'[q] = swallowed[q]
  /\ conn'[q] => conn[q]
  /\ helm'[q] # "none" => helm[q] # "none"

\* An invocation that only works on its own variables.
LEMMA QuietKeeps ==
  ASSUME NEW q \in Ops, Good(q), Aside(q), calm'[q] = calm[q],
         UNCHANGED <<record, group, vault, k8s>>
  PROVE  Good(q)'
  BY DEF Aside, k8s, Good, Flow, Deprovisioning, ReadOnlyUpdating, Uninstalling,
         Promise, Updating, Deleting, Connected

\* An invocation that disturbs q leaves it its control flow.
LEMMA DisturbedKeeps ==
  ASSUME NEW q \in Ops, Good(q), Aside(q), ~calm'[q],
         pend[q] \in {"group", "cluster"} => record' = "running",
         conn'[q] => group' = "complete",
         helm'[q] # "none" => release' = "stuck"
  PROVE  Good(q)'
  BY DEF Aside, Good, Flow, Deprovisioning, ReadOnlyUpdating, Uninstalling, Promise,
         Updating, Deleting

\* q is untouched by a step that only touches the running invocation's variables.
LEMMA PrivateKeeps ==
  ASSUME TypeOK, NEW p \in Ops, NEW q \in Ops \ {p}, Good(q), NEW l,
         Proceed(p, l) \/ Swallow(p, l) \/ Error(p)
  PROVE  Good(q)'
  BY QuietKeeps DEF TypeOK, Aside, azure, Proceed, Swallow, Error, Goto

\* No step of one invocation breaks what another one knows.
LEMMA OthersKeep ==
  ASSUME TypeOK, Contents, OneAtATime, NEW p \in Ops, NEW q \in Ops \ {p},
         Good(p), Good(q), Begin(p) \/ Step(p) \/ Land(p) \/ Fail(p)
  PROVE  Good(q)'
  <1>a. /\ pend[q] \in {"group", "cluster"} => record = "running"
        /\ conn[q] => group = "complete"
        /\ helm[q] # "none" => release = "stuck"
    BY DEF Good, Flow
  <1>b. ASSUME Disturb(p) PROVE ~calm'[q]
    BY <1>b DEF Disturb
  <1>1. CASE Begin(p)
    BY <1>1, QuietKeeps
       DEF TypeOK, Aside, azure, Begin, BeginProvision, BeginDeprovision,
           BeginInstall, BeginUninstall, BeginSkipped, Start
  <1>2. CASE Fail(p)
    BY <1>2, PrivateKeeps DEF Fail
  <1>3. CASE StatusOutputs(p)
    BY <1>3, PrivateKeeps DEF StatusOutputs
  <1>4. CASE StatusCreds(p)
    BY <1>4, PrivateKeeps DEF StatusCreds, WhenPresent
  <1>5. CASE StatusIngress(p)
    BY <1>5, PrivateKeeps DEF StatusIngress, WhenPresent
  <1>6. CASE Guard(p)
    BY <1>6, PrivateKeeps DEF Guard
  <1>7. CASE GetRecord(p)
    BY <1>7, PrivateKeeps DEF GetRecord
  <1>8. CASE IssueDeployment(p)
    <2>1. CASE record = "running"
      BY <1>8, <2>1, PrivateKeeps DEF IssueDeployment
    <2>2. CASE record # "running"
      <3>1. Aside(q) /\ Disturb(p) /\ record' = "running" /\ group' = group /\ release' = release
        BY <1>8, <2>2 DEF TypeOK, Aside, IssueDeployment, Goto, k8s
      <3> QED BY <1>a, <1>b, <3>1, DisturbedKeeps DEF Aside
    <2> QED BY <2>1, <2>2
  <1>9. CASE DropRecord(p)
    <2>1. CASE Swallow(p, "group")
      BY <2>1, PrivateKeeps
    <2>2. CASE /\ Goto(p, "group")
               /\ UNCHANGED <<record, group, vault, k8s, cmd, force, level, vaults,
                              conn, helm, pend, calm>>
               /\ swallowed' = [swallowed EXCEPT ![p] = TRUE]
      BY <2>2, QuietKeeps DEF TypeOK, Aside, Goto
    <2>3. CASE /\ record # "running"
               /\ Goto(p, "group")
               /\ Disturb(p)
               /\ UNCHANGED <<group, k8s, cmd, force, level, vaults, conn, helm, pend,
                              swallowed>>
      <3>1. Aside(q) /\ group' = group /\ release' = release
        BY <2>3 DEF TypeOK, Aside, Goto, k8s
      <3> QED BY <1>a, <1>b, <2>3, <3>1, DisturbedKeeps DEF Aside
    <2> QED BY <1>9, <2>1, <2>2, <2>3 DEF DropRecord
  <1>10. CASE GetGroup(p)
    BY <1>10, PrivateKeeps DEF GetGroup
  <1>11. CASE ListVaults(p)
    BY <1>11, PrivateKeeps, QuietKeeps DEF TypeOK, Aside, azure, ListVaults, Goto
  <1>12. CASE IssueGroupDelete(p)
    BY <1>12, QuietKeeps DEF TypeOK, Aside, azure, IssueGroupDelete, Goto
  <1>13. CASE Purge(p)
    <2>1. CASE Swallow(p, "ok")
      BY <2>1, PrivateKeeps
    <2>2. CASE ~Swallow(p, "ok")
      <3>1. /\ Aside(q) /\ Disturb(p)
            /\ record' = record /\ group' = group /\ release' = release
        BY <1>13, <2>2 DEF TypeOK, Aside, Purge, Goto, k8s
      <3> QED BY <1>a, <1>b, <3>1, DisturbedKeeps DEF Aside
    <2> QED BY <2>1, <2>2
  <1>14. CASE ClientOutputs(p)
    BY <1>14, PrivateKeeps DEF ClientOutputs
  <1>15. CASE ClientCreds(p)
    BY <1>15, PrivateKeeps, QuietKeeps DEF TypeOK, Aside, azure, ClientCreds, Goto
  <1>16. CASE EnsureNamespace(p)
    <2>1. /\ Aside(q) /\ Disturb(p)
          /\ record' = record /\ group' = group /\ release' = release
      BY <1>16 DEF TypeOK, Aside, EnsureNamespace, Goto, azure
    <2> QED BY <1>a, <1>b, <2>1, DisturbedKeeps DEF Aside
  <1>17. CASE InstallOutputs(p)
    BY <1>17, PrivateKeeps DEF InstallOutputs
  <1>18. CASE EnsureAccount(p)
    <2>1. CASE Error(p)
      BY <2>1, PrivateKeeps
    <2>2. CASE ~Error(p)
      <3>1. /\ Aside(q) /\ Disturb(p)
            /\ record' = record /\ group' = group /\ release' = release
        BY <1>18, <2>2 DEF TypeOK, Aside, EnsureAccount, Goto, azure
      <3> QED BY <1>a, <1>b, <3>1, DisturbedKeeps DEF Aside
    <2> QED BY <2>1, <2>2
  <1>19. CASE StartRelease(p)
    <2>1. CASE Error(p)
      BY <2>1, PrivateKeeps
    <2>2. CASE ~Error(p)
      <3>1. /\ Aside(q) /\ Disturb(p)
            /\ record' = record /\ group' = group /\ release' = "stuck"
        BY <1>19, <2>2 DEF TypeOK, Aside, StartRelease, Goto, azure
      <3> QED BY <1>a, <1>b, <3>1, DisturbedKeeps DEF Aside
    <2> QED BY <2>1, <2>2
  <1>20. CASE ReleaseReady(p)
    <2>1. helm[q] = "none"
      BY <1>20 DEF ReleaseReady, EndRelease, OneAtATime
    <2>2. /\ Aside(q) /\ Disturb(p)
          /\ record' = record /\ group' = group /\ helm'[q] = "none"
      BY <1>20, <2>1 DEF TypeOK, Aside, ReleaseReady, EndRelease, Goto, azure
    <2> QED BY <1>a, <1>b, <2>2, DisturbedKeeps DEF Aside
  <1>21. CASE ReleaseFails(p)
    <2>1. helm[q] = "none"
      BY <1>21 DEF ReleaseFails, EndRelease, OneAtATime
    <2>2. /\ Aside(q) /\ Disturb(p)
          /\ record' = record /\ group' = group /\ helm'[q] = "none"
      BY <1>21, <2>1 DEF TypeOK, Aside, ReleaseFails, EndRelease, Goto, azure
    <2> QED BY <1>a, <1>b, <2>2, DisturbedKeeps DEF Aside
  <1>22. CASE UninstallRelease(p)
    <2>1. /\ Aside(q) /\ Disturb(p)
          /\ record' = record /\ group' = group /\ helm'[q] = "none"
      BY <1>22 DEF TypeOK, Aside, UninstallRelease, Goto, azure
    <2> QED BY <1>a, <1>b, <2>1, DisturbedKeeps DEF Aside
  <1>23. CASE ReleaseRemoved(p)
    <2>1. /\ Aside(q) /\ Disturb(p)
          /\ record' = record /\ group' = group /\ helm'[q] = "none"
      BY <1>23 DEF TypeOK, Aside, ReleaseRemoved, Goto, azure
    <2> QED BY <1>a, <1>b, <2>1, DisturbedKeeps DEF Aside
  <1>24. CASE DropNamespace(p)
    <2>1. /\ Aside(q) /\ Disturb(p)
          /\ record' = record /\ group' = group /\ release' = release
      BY <1>24 DEF TypeOK, Aside, DropNamespace, Goto, azure
    <2> QED BY <1>a, <1>b, <2>1, DisturbedKeeps DEF Aside
  <1>25. CASE LandGroup(p)
    <2>1. /\ Aside(q) /\ Disturb(p) /\ record' = record /\ release' = release
          /\ group = "complete" => group' = "complete"
      BY <1>25 DEF TypeOK, Aside, LandGroup, k8s
    <2> QED BY <1>a, <1>b, <2>1, DisturbedKeeps DEF Aside
  <1>26. CASE LandCluster(p)
    <2>1. pend[q] \notin {"group", "cluster"}
      BY <1>26 DEF LandCluster, OneAtATime
    <2>2. /\ Aside(q) /\ Disturb(p) /\ release' = release
          /\ group = "complete" => group' = "complete"
      BY <1>26 DEF TypeOK, Aside, LandCluster, Settle, k8s
    <2> QED BY <1>a, <1>b, <2>1, <2>2, DisturbedKeeps DEF Aside
  <1>27. CASE LandFailure(p)
    <2>1. pend[q] \notin {"group", "cluster"}
      BY <1>27 DEF LandFailure, OneAtATime
    <2>2. /\ Aside(q) /\ Disturb(p) /\ release' = release
          /\ group = "complete" => group' = "complete"
      BY <1>27 DEF TypeOK, Aside, LandFailure, Settle, k8s
    <2> QED BY <1>a, <1>b, <2>1, <2>2, DisturbedKeeps DEF Aside
  <1>28. CASE LandGroupDelete(p)
    <2>1. /\ Aside(q) /\ Disturb(p) /\ record' = record
          /\ ~conn'[q] /\ helm'[q] = "none"
      BY <1>28 DEF TypeOK, Aside, LandGroupDelete, Settle
    <2> QED BY <1>a, <1>b, <2>1, DisturbedKeeps DEF Aside
  <1>29. CASE RejectDelete(p)
    <2>1. /\ Aside(q) /\ Disturb(p)
          /\ record' = record /\ group' = group /\ release' = release
      BY <1>29 DEF TypeOK, Aside, RejectDelete, Settle, k8s
    <2> QED BY <1>a, <1>b, <2>1, DisturbedKeeps DEF Aside
  <1> QED BY <1>1, <1>2, <1>3, <1>4, <1>5, <1>6, <1>7, <1>8, <1>9, <1>10,
         <1>11, <1>12, <1>13, <1>14, <1>15, <1>16, <1>17, <1>18, <1>19, <1>20,
         <1>21, <1>22, <1>23, <1>24, <1>25, <1>26, <1>27, <1>28, <1>29 DEF
         Step, Land

\* Nothing lives in a group, or a cluster, that is gone.
LEMMA ContentsKept ==
  ASSUME TypeOK, Contents, NEW p \in Ops, Good(p),
         Begin(p) \/ Step(p) \/ Land(p) \/ Fail(p)
  PROVE  Contents'
  <1>1. CASE Begin(p) \/ Fail(p)
    BY <1>1 DEF Contents, azure, k8s, Begin, BeginProvision, BeginDeprovision,
          BeginInstall, BeginUninstall, BeginSkipped, Start, Fail, Error, Proceed
  <1>2. CASE StatusOutputs(p)
    BY <1>2
          DEF TypeOK, Contents, Good, Flow, StatusOutputs, Proceed, Swallow,
              Goto, AfterStatus, azure, k8s
  <1>3. CASE StatusCreds(p)
    BY <1>3
          DEF TypeOK, Contents, Good, Flow, StatusCreds, Proceed, Swallow,
              Error, Goto, AfterStatus, WhenPresent, azure, k8s
  <1>4. CASE StatusIngress(p)
    BY <1>4
          DEF TypeOK, Contents, Good, Flow, StatusIngress, Proceed, Swallow,
              Error, Goto, AfterStatus, WhenPresent, azure, k8s
  <1>5. CASE Guard(p)
    BY <1>5
          DEF TypeOK, Contents, Good, Flow, Guard, Proceed, Error, Goto,
              azure, k8s
  <1>6. CASE GetRecord(p)
    BY <1>6
          DEF TypeOK, Contents, Good, Flow, GetRecord, Proceed, Swallow,
              Goto, azure, k8s
  <1>7. CASE IssueDeployment(p)
    BY <1>7
          DEF TypeOK, Contents, Good, Flow, IssueDeployment, Error, Goto,
              Disturb, azure, k8s
  <1>8. CASE DropRecord(p)
    BY <1>8
          DEF TypeOK, Contents, Good, Flow, DropRecord, Swallow, Goto,
              Disturb, azure, k8s
  <1>9. CASE GetGroup(p)
    BY <1>9
          DEF TypeOK, Contents, Good, Flow, GetGroup, Proceed, Swallow, Goto,
              azure, k8s
  <1>10. CASE ListVaults(p)
    BY <1>10
          DEF TypeOK, Contents, Good, Flow, ListVaults, Swallow, Goto, azure,
              k8s
  <1>11. CASE IssueGroupDelete(p)
    BY <1>11
          DEF TypeOK, Contents, Good, Flow, IssueGroupDelete, Goto, azure, k8s
  <1>12. CASE Purge(p)
    BY <1>12
          DEF TypeOK, Contents, Good, Flow, Purge, Swallow, Goto, Disturb,
              azure, k8s
  <1>13. CASE ClientOutputs(p)
    BY <1>13
          DEF TypeOK, Contents, Good, Flow, ClientOutputs, Proceed, Error,
              Goto, azure, k8s
  <1>14. CASE ClientCreds(p)
    BY <1>14
          DEF TypeOK, Contents, Good, Flow, ClientCreds, Error, Goto, azure,
              k8s
  <1>15. CASE EnsureNamespace(p)
    BY <1>15
          DEF TypeOK, Contents, Good, Flow, EnsureNamespace, Goto, Disturb,
              azure, k8s
  <1>16. CASE InstallOutputs(p)
    BY <1>16
          DEF TypeOK, Contents, Good, Flow, InstallOutputs, Proceed, Error,
              Goto, azure, k8s
  <1>17. CASE EnsureAccount(p)
    BY <1>17
          DEF TypeOK, Contents, Good, Flow, EnsureAccount, Error, Goto,
              Disturb, azure, k8s
  <1>18. CASE StartRelease(p)
    BY <1>18
          DEF TypeOK, Contents, Good, Flow, StartRelease, Error, Goto,
              Disturb, azure, k8s
  <1>19. CASE ReleaseReady(p)
    BY <1>19
          DEF TypeOK, Contents, Good, Flow, ReleaseReady, EndRelease, Goto,
              Disturb, azure, k8s
  <1>20. CASE ReleaseFails(p)
    BY <1>20
          DEF TypeOK, Contents, Good, Flow, ReleaseFails, EndRelease, Goto,
              Disturb, azure, k8s
  <1>21. CASE UninstallRelease(p)
    BY <1>21
          DEF TypeOK, Contents, Good, Flow, UninstallRelease, Goto, Disturb,
              azure, k8s
  <1>22. CASE ReleaseRemoved(p)
    BY <1>22
          DEF TypeOK, Contents, Good, Flow, ReleaseRemoved, Goto, Disturb,
              azure, k8s
  <1>23. CASE DropNamespace(p)
    BY <1>23
          DEF TypeOK, Contents, Good, Flow, DropNamespace, Goto, Disturb,
              azure, k8s
  <1>24. CASE LandGroup(p)
    BY <1>24
          DEF TypeOK, Contents, Good, Flow, LandGroup, Disturb, k8s
  <1>25. CASE LandCluster(p)
    BY <1>25
          DEF TypeOK, Contents, Good, Flow, LandCluster, Settle, Disturb, k8s
  <1>26. CASE LandFailure(p)
    BY <1>26
          DEF TypeOK, Contents, Good, Flow, LandFailure, Settle, Disturb, k8s
  <1>27. CASE LandGroupDelete(p)
    BY <1>27
          DEF TypeOK, Contents, Good, Flow, LandGroupDelete, Settle, Disturb,
              k8s
  <1>28. CASE RejectDelete(p)
    BY <1>28
          DEF TypeOK, Contents, Good, Flow, RejectDelete, Settle, Disturb, k8s
  <1> QED BY <1>1, <1>2, <1>3, <1>4, <1>5, <1>6, <1>7, <1>8, <1>9, <1>10,
         <1>11, <1>12, <1>13, <1>14, <1>15, <1>16, <1>17, <1>18, <1>19, <1>20,
         <1>21, <1>22, <1>23, <1>24, <1>25, <1>26, <1>27, <1>28 DEF Step, Land

\* A second deployment, or a second Helm operation, is refused.
LEMMA OneAtATimeKept ==
  ASSUME TypeOK, OneAtATime, \A q \in Ops : Good(q), NEW p \in Ops,
         Begin(p) \/ Step(p) \/ Land(p) \/ Fail(p)
  PROVE  OneAtATime'
  <1>1. CASE Begin(p)
    BY <1>1 DEF TypeOK, OneAtATime, azure, k8s, Begin, BeginProvision,
          BeginDeprovision, BeginInstall, BeginUninstall, BeginSkipped, Start
  <1>2. CASE Fail(p)
    BY <1>2 DEF TypeOK, OneAtATime, Fail, Error, Proceed
  <1>3. CASE StatusOutputs(p)
    BY <1>3
          DEF TypeOK, OneAtATime, Good, Flow, StatusOutputs, Proceed,
              Swallow, Goto, AfterStatus
  <1>4. CASE StatusCreds(p)
    BY <1>4
          DEF TypeOK, OneAtATime, Good, Flow, StatusCreds, Proceed, Swallow,
              Error, Goto, AfterStatus, WhenPresent
  <1>5. CASE StatusIngress(p)
    BY <1>5
          DEF TypeOK, OneAtATime, Good, Flow, StatusIngress, Proceed,
              Swallow, Error, Goto, AfterStatus, WhenPresent
  <1>6. CASE Guard(p)
    BY <1>6
          DEF TypeOK, OneAtATime, Good, Flow, Guard, Proceed, Error, Goto
  <1>7. CASE GetRecord(p)
    BY <1>7
          DEF TypeOK, OneAtATime, Good, Flow, GetRecord, Proceed, Swallow,
              Goto
  <1>8. CASE IssueDeployment(p)
    BY <1>8
          DEF TypeOK, OneAtATime, Good, Flow, IssueDeployment, Error, Goto,
              Disturb
  <1>9. CASE DropRecord(p)
    BY <1>9
          DEF TypeOK, OneAtATime, Good, Flow, DropRecord, Swallow, Goto,
              Disturb
  <1>10. CASE GetGroup(p)
    BY <1>10
          DEF TypeOK, OneAtATime, Good, Flow, GetGroup, Proceed, Swallow, Goto
  <1>11. CASE ListVaults(p)
    BY <1>11
          DEF TypeOK, OneAtATime, Good, Flow, ListVaults, Swallow, Goto
  <1>12. CASE IssueGroupDelete(p)
    BY <1>12
          DEF TypeOK, OneAtATime, Good, Flow, IssueGroupDelete, Goto
  <1>13. CASE Purge(p)
    BY <1>13
          DEF TypeOK, OneAtATime, Good, Flow, Purge, Swallow, Goto, Disturb
  <1>14. CASE ClientOutputs(p)
    BY <1>14
          DEF TypeOK, OneAtATime, Good, Flow, ClientOutputs, Proceed, Error,
              Goto
  <1>15. CASE ClientCreds(p)
    BY <1>15
          DEF TypeOK, OneAtATime, Good, Flow, ClientCreds, Error, Goto
  <1>16. CASE EnsureNamespace(p)
    BY <1>16
          DEF TypeOK, OneAtATime, Good, Flow, EnsureNamespace, Goto, Disturb
  <1>17. CASE InstallOutputs(p)
    BY <1>17
          DEF TypeOK, OneAtATime, Good, Flow, InstallOutputs, Proceed, Error,
              Goto
  <1>18. CASE EnsureAccount(p)
    BY <1>18
          DEF TypeOK, OneAtATime, Good, Flow, EnsureAccount, Error, Goto,
              Disturb
  <1>19. CASE StartRelease(p)
    BY <1>19
          DEF TypeOK, OneAtATime, Good, Flow, StartRelease, Error, Goto,
              Disturb
  <1>20. CASE ReleaseReady(p)
    BY <1>20
          DEF TypeOK, OneAtATime, Good, Flow, ReleaseReady, EndRelease, Goto,
              Disturb
  <1>21. CASE ReleaseFails(p)
    BY <1>21
          DEF TypeOK, OneAtATime, Good, Flow, ReleaseFails, EndRelease, Goto,
              Disturb
  <1>22. CASE UninstallRelease(p)
    BY <1>22
          DEF TypeOK, OneAtATime, Good, Flow, UninstallRelease, Goto, Disturb
  <1>23. CASE ReleaseRemoved(p)
    BY <1>23
          DEF TypeOK, OneAtATime, Good, Flow, ReleaseRemoved, Goto, Disturb
  <1>24. CASE DropNamespace(p)
    BY <1>24
          DEF TypeOK, OneAtATime, Good, Flow, DropNamespace, Goto, Disturb
  <1>25. CASE LandGroup(p)
    BY <1>25
          DEF TypeOK, OneAtATime, LandGroup, Disturb
  <1>26. CASE LandCluster(p)
    BY <1>26
          DEF TypeOK, OneAtATime, LandCluster, Settle, Disturb
  <1>27. CASE LandFailure(p)
    BY <1>27
          DEF TypeOK, OneAtATime, LandFailure, Settle, Disturb
  <1>28. CASE LandGroupDelete(p)
    BY <1>28
          DEF TypeOK, OneAtATime, LandGroupDelete, Settle, Disturb
  <1>29. CASE RejectDelete(p)
    BY <1>29
          DEF TypeOK, OneAtATime, RejectDelete, Settle, Disturb
  <1> QED BY <1>1, <1>2, <1>3, <1>4, <1>5, <1>6, <1>7, <1>8, <1>9, <1>10,
         <1>11, <1>12, <1>13, <1>14, <1>15, <1>16, <1>17, <1>18, <1>19, <1>20,
         <1>21, <1>22, <1>23, <1>24, <1>25, <1>26, <1>27, <1>28, <1>29 DEF
         Step, Land

\* A record's late deletion takes away what the deprovisions knew.
LEMMA RecordDroppedKeeps ==
  ASSUME TypeOK, Contents, OneAtATime, RecordDropped, NEW q \in Ops, Good(q)
  PROVE  Contents' /\ OneAtATime' /\ Good(q)'
  <1>1. /\ pend[q] \in {"group", "cluster"} => record = "running"
        /\ conn[q] => group = "complete"
        /\ helm[q] # "none" => release = "stuck"
    BY DEF Good, Flow
  <1>2. Aside(q) /\ ~calm'[q] /\ record # "running" /\ group' = group /\ release' = release
    BY DEF RecordDropped, Aside, k8s
  <1>3. Good(q)'
    BY <1>1, <1>2, DisturbedKeeps DEF Aside
  <1> QED BY <1>3 DEF RecordDropped, Contents, OneAtATime, k8s

\* A purge that ends is nothing a command relied on.
LEMMA VaultPurgedKeeps ==
  ASSUME TypeOK, Contents, OneAtATime, VaultPurged, NEW q \in Ops, Good(q)
  PROVE  Contents' /\ OneAtATime' /\ Good(q)'
  BY DEF TypeOK, VaultPurged, k8s, ops, Contents, OneAtATime, Good, Flow, Deprovisioning,
         ReadOnlyUpdating, Uninstalling, Promise, Updating, Deleting, Connected

\* A namespace nobody saw active going away is nothing a command relied on.
LEMMA NamespaceGoneKeeps ==
  ASSUME TypeOK, Contents, OneAtATime, NamespaceGone, NEW q \in Ops, Good(q)
  PROVE  Contents' /\ OneAtATime' /\ Good(q)'
  BY DEF TypeOK, NamespaceGone, azure, Contents, OneAtATime, Good, Flow, Deprovisioning,
         ReadOnlyUpdating, Uninstalling, Promise, Updating, Deleting, Connected

\* The invariant does not depend on anything outside the variables.
LEMMA StutterKeeps == Inv /\ UNCHANGED vars => Inv'
  BY DEF vars, azure, k8s, ops, Inv, Contents, OneAtATime, Flow, Deprovisioning,
     ReadOnlyUpdating, Uninstalling, Updating, Deleting, Connected,
     ProvisionGivesCluster, DeprovisionLeavesNothing, InstallGivesIngress,
     UninstallRemovesIngress

\* No step of any invocation, of Azure or of the cluster breaks the invariant.
LEMMA NextInv == TypeOK /\ Inv /\ [Next]_vars => Inv'
  <1> SUFFICES ASSUME TypeOK, Inv, [Next]_vars PROVE Inv'
    OBVIOUS
  <1>0. Contents /\ OneAtATime /\ \A q \in Ops : Good(q)
    BY InvMeans
  <1>m. ASSUME Contents' /\ OneAtATime' /\ \A q \in Ops : Good(q)' PROVE Inv'
    BY <1>m DEF Inv, Good, Promise, ProvisionGivesCluster, DeprovisionLeavesNothing,
                InstallGivesIngress, UninstallRemovesIngress
  <1>1. ASSUME NEW p \in Ops, Begin(p) \/ Step(p) \/ Land(p) \/ Fail(p) PROVE Inv'
    <2>1. Good(p)'
      BY <1>0, <1>1, BeginKeeps, StepKeeps, LandKeeps, FailKeeps
    <2>2. \A q \in Ops \ {p} : Good(q)'
      BY <1>0, <1>1, OthersKeep
    <2>3. Contents' /\ OneAtATime'
      BY <1>0, <1>1, ContentsKept, OneAtATimeKept
    <2> QED BY <1>m, <2>1, <2>2, <2>3
  <1>2. CASE RecordDropped
    <2>1. \A q \in Ops : Contents' /\ OneAtATime' /\ Good(q)'
      BY <1>0, <1>2, RecordDroppedKeeps
    <2>2. Contents' /\ OneAtATime'
      BY <1>0, <1>2 DEF RecordDropped, Contents, OneAtATime, k8s
    <2> QED BY <1>m, <2>1, <2>2
  <1>3. CASE NamespaceGone
    <2>1. \A q \in Ops : Contents' /\ OneAtATime' /\ Good(q)'
      BY <1>0, <1>3, NamespaceGoneKeeps
    <2>2. Contents' /\ OneAtATime'
      BY <1>0, <1>3 DEF NamespaceGone, Contents, OneAtATime, azure
    <2> QED BY <1>m, <2>1, <2>2
  <1>4. CASE VaultPurged
    <2>1. \A q \in Ops : Contents' /\ OneAtATime' /\ Good(q)'
      BY <1>0, <1>4, VaultPurgedKeeps
    <2>2. Contents' /\ OneAtATime'
      BY <1>0, <1>4 DEF VaultPurged, Contents, OneAtATime, k8s, ops
    <2> QED BY <1>m, <2>1, <2>2
  <1>5. CASE UNCHANGED vars
    BY <1>5, StutterKeeps
  <1> QED BY <1>1, <1>2, <1>3, <1>4, <1>5 DEF Next

-----------------------------------------------------------------------------
(* The theorems.                                                             *)

\* Every variable keeps its type, for any number of invocations.
THEOREM TypeCorrect == Spec => []TypeOK
  BY InitTypeOK, NextTypeOK, PTL DEF Spec

\* The invariant: what the control points of a command imply, and what a command
\* nobody interferes with has found out by then.
THEOREM InvHolds == Spec => []Inv
  BY TypeCorrect, InitInv, NextInv, PTL DEF Spec

\* After a successful ClusterProvision the deployment record has outputs, and
\* after a forced one the cluster is there.
THEOREM ProvisionGivesClusterHolds == Spec => []ProvisionGivesCluster
  <1>1. Inv => ProvisionGivesCluster
    BY DEF Inv
  <1> QED BY InvHolds, <1>1, PTL

\* A ClusterDeprovision that swallowed no error leaves no record, no group, and
\* no vault that a later deployment of the cluster would collide with.
THEOREM DeprovisionLeavesNothingHolds == Spec => []DeprovisionLeavesNothing
  <1>1. Inv => DeprovisionLeavesNothing
    BY DEF Inv
  <1> QED BY InvHolds, <1>1, PTL

\* The cluster follows the last command that succeeded (cluster.go:28 and 59).
THEOREM ClusterFollowsHolds == Spec => []ClusterFollows
  BY ProvisionGivesClusterHolds, DeprovisionLeavesNothingHolds, PTL DEF ClusterFollows

\* A ClusterInstall that succeeds has its ingress running in a namespace that is
\* not being deleted, from whatever state an earlier command left.
THEOREM InstallGivesIngressHolds == Spec => []InstallGivesIngress
  <1>1. Inv => InstallGivesIngress
    BY DEF Inv
  <1> QED BY InvHolds, <1>1, PTL

\* A ClusterUninstall that succeeds leaves no release, also no stuck one.
THEOREM UninstallRemovesIngressHolds == Spec => []UninstallRemovesIngress
  <1>1. Inv => UninstallRemovesIngress
    BY DEF Inv
  <1> QED BY InvHolds, <1>1, PTL

\* The ingress follows the last command that succeeded (cluster.go:111 and 295).
THEOREM IngressFollowsHolds == Spec => []IngressFollows
  BY InstallGivesIngressHolds, UninstallRemovesIngressHolds, PTL DEF IngressFollows

\* Only a deprovision, or an uninstall, that found the protection level none
\* takes the group, or the namespace, away.
THEOREM DeletesNeedConsentHolds == Spec => DeletesNeedConsent
  <1>1. TypeOK /\ Inv /\ [Next]_vars =>
          [/\ group # "absent" /\ group' = "absent" =>
                \E p \in Ops : pend[p] = "delete" /\ pend'[p] = "none" /\ level[p] = "none"
           /\ namespace = "active" /\ namespace' = "terminating" =>
                \E p \in Ops : pc[p] = "unspace" /\ pc'[p] = "ok" /\ level[p] = "none"]_vars
    <2> SUFFICES ASSUME TypeOK, Inv, Next
                 PROVE  /\ group # "absent" /\ group' = "absent" =>
                             \E p \in Ops : /\ pend[p] = "delete" /\ pend'[p] = "none"
                                            /\ level[p] = "none"
                        /\ namespace = "active" /\ namespace' = "terminating" =>
                             \E p \in Ops : /\ pc[p] = "unspace" /\ pc'[p] = "ok"
                                            /\ level[p] = "none"
      OBVIOUS
    <2>0. \A p \in Ops : Flow(p)
      BY DEF Inv
    <2>1. ASSUME NEW p \in Ops, Begin(p) \/ Fail(p) PROVE UNCHANGED <<group, namespace>>
      BY <2>1 DEF Begin, BeginProvision, BeginDeprovision, BeginInstall, BeginUninstall,
                  BeginSkipped, Start, Fail, Error, Proceed, azure, k8s
    <2>2. ASSUME NEW p \in Ops, LandGroupDelete(p)
          PROVE  /\ pend[p] = "delete" /\ pend'[p] = "none" /\ level[p] = "none"
                 /\ namespace' = "none"
      BY <2>0, <2>2 DEF TypeOK, Flow, Deleting, LandGroupDelete, Settle
    <2>3. ASSUME NEW p \in Ops, Land(p), ~LandGroupDelete(p)
          PROVE  namespace' = namespace /\ (group' = "absent" => group = "absent")
      BY <2>3 DEF TypeOK, Land, LandGroup, LandCluster, LandFailure, RejectDelete, k8s
    <2>4. ASSUME NEW p \in Ops, DropNamespace(p)
          PROVE  pc[p] = "unspace" /\ pc'[p] = "ok" /\ level[p] = "none" /\ group' = group
      BY <2>0, <2>4 DEF TypeOK, Flow, DropNamespace, Goto, azure
    <2>5. ASSUME NEW p \in Ops, Step(p), ~DropNamespace(p)
          PROVE  group' = group /\ (namespace' = "terminating" => namespace = "terminating")
      BY <2>5 DEF Step, StatusOutputs, StatusCreds, StatusIngress, Guard, GetRecord,
         IssueDeployment, DropRecord, GetGroup, ListVaults, IssueGroupDelete, Purge,
         ClientOutputs, ClientCreds, EnsureNamespace, InstallOutputs, EnsureAccount,
         StartRelease, ReleaseReady, ReleaseFails, EndRelease, UninstallRelease,
         ReleaseRemoved, WhenPresent, Proceed, Swallow, Error, azure, k8s
    <2>6. ASSUME RecordDropped \/ VaultPurged \/ NamespaceGone
          PROVE  group' = group /\ (namespace' = "terminating" => namespace = "terminating")
      BY <2>6 DEF RecordDropped, VaultPurged, NamespaceGone, azure, k8s
    <2> QED BY <2>1, <2>2, <2>3, <2>4, <2>5, <2>6 DEF Next
  <1> QED BY TypeCorrect, InvHolds, <1>1, PTL DEF Spec, DeletesNeedConsent

\* An update that readOnly would block only happens after an error of the status
\* reads was taken for a missing cluster, or against another invocation.
THEOREM UpdatesNeedConsentHolds == Spec => UpdatesNeedConsent
  <1>1. TypeOK /\ Inv /\ [Next]_vars =>
          [\A p \in Ops : Updates(p) /\ level[p] = "readOnly" /\ calm[p] => swallowed[p]]_vars
    <2> SUFFICES ASSUME Inv, NEW p \in Ops, Updates(p), level[p] = "readOnly", calm[p]
                 PROVE  swallowed[p]
      OBVIOUS
    <2>1. ReadOnlyUpdating(p)
      BY DEF Inv
    <2> QED BY <2>1 DEF Updates, ReadOnlyUpdating, Updating, Connected
  <1> QED BY TypeCorrect, InvHolds, <1>1, PTL DEF Spec, UpdatesNeedConsent

\* No step that the protection of its invocation rules out (cluster_protection.go:8).
THEOREM ConsentRespectedHolds == Spec => ConsentRespected
  BY DeletesNeedConsentHolds, UpdatesNeedConsentHolds, PTL DEF ConsentRespected

\* A succeeded record only outlives its group when the deletion of the record
\* failed unnoticed or two invocations ran at once.
THEOREM RecordGoesFirstHolds == Spec => RecordGoesFirst
  <1>1. TypeOK /\ Inv /\ [Next]_vars =>
          [group # "absent" /\ group' = "absent" /\ record = "succeeded" =>
             \E p \in Ops : /\ pend[p] = "delete" /\ pend'[p] = "none"
                            /\ ~calm[p] \/ swallowed[p]]_vars
    <2> SUFFICES ASSUME TypeOK, Inv, Next, group # "absent", group' = "absent",
                        record = "succeeded"
                 PROVE  \E p \in Ops : /\ pend[p] = "delete" /\ pend'[p] = "none"
                                       /\ ~calm[p] \/ swallowed[p]
      OBVIOUS
    <2>a. ASSUME NEW p \in Ops, Begin(p) \/ Fail(p) PROVE FALSE
      BY <2>a DEF Begin, BeginProvision, BeginDeprovision, BeginInstall, BeginUninstall,
         BeginSkipped, Start, Fail, Error, Proceed, azure
    <2>b. ASSUME NEW p \in Ops, Step(p) PROVE FALSE
      <3>1. group' = group
        BY <2>b DEF Error, Proceed, Swallow, WhenPresent,
         Step, StatusOutputs, StatusCreds, StatusIngress, Guard, GetRecord,
         IssueDeployment, DropRecord, GetGroup, ListVaults, IssueGroupDelete, Purge,
         ClientOutputs, ClientCreds, EnsureNamespace, InstallOutputs, EnsureAccount,
         StartRelease, ReleaseReady, ReleaseFails, EndRelease, UninstallRelease,
         ReleaseRemoved, DropNamespace, azure
      <3> QED BY <3>1
    <2>c. RecordDropped \/ VaultPurged \/ NamespaceGone => FALSE
      BY DEF RecordDropped, VaultPurged, NamespaceGone, azure
    <2>d. ASSUME NEW p \in Ops,
                 LandGroup(p) \/ LandCluster(p) \/ LandFailure(p) \/ RejectDelete(p)
          PROVE  FALSE
      BY <2>d DEF LandGroup, LandCluster, LandFailure, RejectDelete
    <2>1. PICK p \in Ops : LandGroupDelete(p)
      BY <2>a, <2>b, <2>c, <2>d DEF Next, Land
    <2>2. Flow(p) /\ Deprovisioning(p)
      BY DEF Inv
    <2>3. pend[p] = "delete" /\ pend'[p] = "none"
      BY <2>1 DEF TypeOK, LandGroupDelete, Settle
    <2>4. ~calm[p] \/ swallowed[p]
      BY <2>2, <2>3 DEF Flow, Deprovisioning, Deleting
    <2> QED BY <2>3, <2>4
  <1> QED BY TypeCorrect, InvHolds, <1>1, PTL DEF Spec, RecordGoesFirst
=============================================================================
