# A formal model of kompox

kompox runs stateful Compose applications on managed Kubernetes clusters. Its
program is the CLI `kompoxops` (Go): every command is one process that reads its
configuration, calls Azure and a Kubernetes API server, and exits. Nothing is
locked, almost nothing is stored locally: two operators, or an operator and a CI
job, are two processes that list, decide and write against the same cloud, and a
process that dies leaves its Azure operations running. That is what the modules
here are about.

Paths below are relative to the repository root.

## 1. The system

| Part | Code | State it keeps | Operations | Modelled |
|---|---|---|---|---|
| Volume disks and snapshots | `usecase/volume`, `aks/volume.go`, `aks/volume_backend_disk.go` | Managed Disks with the tags volume and assigned, snapshots (in Azure) | disk create, assign, delete, list, bootstrap; snapshot create, delete, list | `VolumeDisks` |
| Azure Files volumes | `aks/volume_backend_files.go`, `aks/azure_storage.go` | a storage account, shares with metadata (in Azure) | disk create, assign, delete, list | `VolumeShares` |
| Cluster lifecycle | `usecase/cluster`, `aks/cluster.go`, `aks/azure_aks.go`, `aks/azure_resources.go`, `kube/client_ingress_traefik.go` | deployment record, resource group, Key Vault; namespace, ServiceAccount, Helm release | provision, deprovision, install, uninstall, status | `ClusterLifecycle` |
| Node pools | `usecase/nodepool`, `aks/nodepool.go` | agent pools (in Azure) | create, update, delete, list | `NodePools` |
| App deploy and destroy | `usecase/app/deploy.go`, `destroy.go`, `kube/client_apply.go`, `client_delete.go` | the app's Kubernetes objects | deploy, destroy | `Rollout`; the volume binding in `VolumeDisks`; the objects in `AppConverter` |
| Secrets and pod content hash | `usecase/secret`, `kube/client_deployment.go`, `content_hash.go` | Secrets; hash in the pod template | env set/delete, pull set/delete | `Rollout` |
| Compose conversion | `kube/converter.go`, `compose.go` | what a converter collects | NewConverter, Convert, BindVolumes, Build | `AppConverter` |
| Box | `usecase/box` | a maintenance pod and its objects | deploy, destroy, status, exec, ssh, scp, rsync | mounts in `AppConverter`, the forward in `Tunnel` |
| Tunnel and port forwarding | `usecase/app/tunnel.go`, `kube/client_port_forward.go` | back-off, channels, process-wide error handlers | app tunnel, box ssh, scp, rsync | `Tunnel` |
| DNS | `usecase/dns`, `aks/azure_dns.go`, `aks/cluster.go:329` | record sets (in Azure DNS) | dns deploy, dns destroy, `--update-dns` | `DnsRecords` |
| KOM documents | `config/crd/ops/v1alpha1`, `cmd/kompoxops/kom_loader.go` | document set, sink, models | load, validate, create models | `KomLoader` |
| Exec and escape sequence, stores, naming, configuration, logging, kubeconfig files, K3s stub, templates | see `PROJECT.json` | | | no, see section 5 |

(`aks/` is `src/adapters/drivers/provider/aks/`, `kube/` is `src/adapters/kube/`.)

How they interact. `cmd/kompoxops` reads the KOM documents, builds repositories and
use cases and runs one use case. Use cases read entities from the stores and call
ports of `domain/model`; the ports are implemented by the provider driver (`aks`)
and, for in-cluster work, by `adapters/kube`. The driver obtains the kube client from
the deployment record's outputs. Deploy asks the volume port for the assigned disks,
hands them to the converter and applies what comes out; with `--update-dns` it then
runs the DNS use case over the hosts of the ingresses, and destroy runs it before.
The secret commands and deploy patch the same hash. Tunnel, exec and box find their
pods by labels. There is no shared memory between commands: they interact through
the state of the cloud and of the cluster. Within one command only the tunnel has
goroutines of its own.

What is hard, by component, and what makes it correct:

- *Disks and shares.* Check-then-act on listings without locks or etags; one update
  per disk; operations that land after their command gave up; for shares, metadata
  that is written as a whole under a name two volumes may mean. Correct when a
  successful command leaves what it promises on every volume nobody else wrote, when
  nothing but an assign takes an assignment away, and when a deployed app is bound to
  the one assigned disk.
- *Cluster.* Five calls to three services per command, several best-effort;
  protection decided from a status that fails open; asynchronous deletion of records,
  vaults and namespaces; Helm releases left pending. Correct when a successful command
  keeps its promise from every state that failures left, and when protected clusters
  are neither deleted nor, as far as the status could be read, updated.
- *Node pools.* Get, merge, put, without a precondition; create is an upsert;
  operations outlive commands. Correct when success means done, and partial updates
  add up.
- *Deploy, destroy, secrets.* Many applies in a row, best-effort prunes and deletes;
  the hash is computed from three reads and patched after them. Correct when a command
  nobody interferes with leaves what it promises, and the hash is that of what is
  stored.
- *Conversion.* Decisions about one service taken in passes over several lists.
  Correct when what comes out can be mounted, exposes what was written, and nothing
  is dropped without a warning.
- *Tunnel.* Forwarder, watcher and retry loop race at start and stop. Correct when
  every tunnel ends, for a reason, and gives back what it took.
- *DNS.* Errors that are passed over; hosts only known from ingresses another command
  deletes. Correct when records follow hosts.
- *KOM.* Overlapping paths, limits, documents that refer to each other in any order.
  Correct when the sink is all or nothing and closed under parents.

`PROJECT.json` lists the hazards one by one, at their lines, with the properties that
cover them. A hazard that the code is simply exposed to, because it takes no lock or goes
on after an error, has a note instead, or besides: the property about the same state
states the race or the swallowed error as its exception, and shows that there is no other.

## 2. Modules

| Module | Role | With it |
|---|---|---|
| `VolumeDisks` | disks and snapshots of one app under concurrent commands | `MCVolumeDisks`, `VolumeDisks_proofs` |
| `VolumeAssignment` | the abstract promise of the volume port: assignments move only towards a chosen disk | implemented by `VolumeDisks` and by `VolumeShares`, proved in the proof modules of both |
| `VolumeShares` | the shares of one app | `MCVolumeShares`, `VolumeShares_proofs` |
| `ClusterLifecycle` | provision, deprovision, install, uninstall of one cluster | `MCClusterLifecycle`, `ClusterLifecycle_proofs` |
| `NodePools` | create, update, delete of one pool | `MCNodePools`, `NodePools_proofs` |
| `Rollout` | deploy, destroy and the secret commands of one app | `MCRollout`, `AppDeploy_proofs` |
| `Tunnel` | one tunnel, its goroutines and its pods | `MCTunnel`, `Tunnel_proofs` |
| `DnsRecords` | the records of one app in the zones of its cluster | `MCDnsRecords`, `DnsRecords_proofs` |
| `KomLoader` | how a command reads its documents | `MCKomLoader`, `KomLoader_proofs` |
| `AppConverter` | how an app becomes the objects of a pod | `MCAppConverter`, `AppDeploy_proofs` |

The models of commands are built alike. `Ops` is a set of slots in which CLI
invocations run; `pc[p]`, `cmd[p]` and the locals of the command make up an
invocation. One action is one call to a service together with the code up to the next
call. A long-running Azure operation is three things: issued by the command, in flight
(`pend[p]`, `busy`), and performed or refused at any later time, also when the command
has given up. `Fail(p)` is a failing call, an expired context or a dying process, at
every control point; a slot that has ended can begin again, so every command also
starts from whatever failed ones left.

`calm[p]` is a history variable: nobody but `p` has written what the property is about
since `p` began (in `VolumeDisks`, the volumes for which that is so). Properties of a
finished command are stated for calm ones: without this restriction most are false
for a program that takes no locks. `swallowed[p]` remembers that the code took an error
for an answer and went on. Neither is read by any guard.

Definitions named `...Any`, `...Never`, `...Unchecked` and the like, each with a
comment "Mutant of", are not part of the specifications: they are the wrong variants
that the listed mutants put in the place of the right definition, to show that the
property can fail.

### 2.1 VolumeDisks

| Code | Action |
|---|---|
| `DiskCreate` name check, source resolution, `BeginCreateOrUpdate` | `ListForCreate`, `PutDisk`, `LandCreate` |
| `DiskAssign` listing, one update per differing disk, newest first | `ListForAssign`, `UpdateTag`, `LandTag`, `AssignDone` |
| use case `DiskDelete`: check, then driver `DiskDelete` | `CheckAndDelete`, `IssueDelete`, `LandDelete` |
| `DiskCreateBootstrap` | `Gather`, `Decide`, `Recheck`, then create and assign per volume |
| app `Deploy` with `validateAppVolumes` | `Gather`, `Apply` |
| `SnapshotCreate`, `SnapshotDelete` | `ListForSnapshot`, `ChooseSource`, `LandSnapshot`, `IssueSnapshotDelete`, `LandSnapshotDelete` |

`tagged[v]` is the set of disks of volume `v` whose assigned tag is "true";
`created` holds the creation times the list is sorted by; `mount` is what the
deployed app is bound to. Abstracted: sizes, zones, options and all tags but
volume and assigned; disk names are model values, generated names are fresh
(`naming.NewCompactID`). Two disks of one volume never share a creation time here;
the code's sort has no tie-break.

`AzureName[v][n]` is the resource a disk or a snapshot is kept in: the code cuts the
readable part of its name (`naming.go:47`), so two names may have one resource. Whoever
addresses a disk gets the one that is `Held` there, and a create under the other name
takes that disk over (`TakesOver`): it has the new name, no assignment and a new time.
The properties say so where it makes a difference. `latest[v]` is a history variable, the
disk that was tagged "true" last.

The end of the module maps the disks to `VolumeAssignment` (`INSTANCE ... WITH`): one
slot at a time implements it. The chosen disk (`Goal`) is that of the assign, or the
assign a bootstrap runs, that is under way or was completed; a tag that lands while
such an assign runs is a move towards it, a disk that is created or deleted is added or
removed, and everything else is a stutter.

### 2.2 ClusterLifecycle

| Code | Action |
|---|---|
| `Provision`/`Install` use cases: status, protection | `StatusOutputs`, `StatusCreds`, `StatusIngress`, `WhenPresent` |
| `Deprovision`/`Uninstall` use cases: protection | `Guard` |
| `ensureAzureDeploymentCreated` | `GetRecord`, `IssueDeployment`, `LandGroup`, `LandCluster`, `LandFailure` |
| `ensureAzureDeploymentDeleted` | `DropRecord`, `RecordDropped` |
| `ensureAzureResourceGroupDeleted` | `GetGroup`, `ListVaults`, `IssueGroupDelete`, `LandGroupDelete`, `RejectDelete`, `Purge`, `VaultPurged` |
| `kubeClient` | `ClientOutputs`, `ClientCreds` |
| `ClusterInstall` | `EnsureNamespace`, `InstallOutputs`, `EnsureAccount`, `EnsureNamespace` again, `StartRelease`, `ReleaseReady`, `ReleaseFails` |
| `ClusterUninstall` | `UninstallRelease`, `ReleaseRemoved`, `DropNamespace`, `NamespaceGone` |

The level of protection comes from the cluster's document (`LevelOf`): no word is
`none`, a word that is no level is refused with the document, so it never reaches a
command; `TypeOK` says so of every invocation.

A call whose error the code takes for an answer is `Swallow`: the command goes on
as if the record, the group or the vault were not there. `swallowed[p]` remembers
it, and `calm[p]` that nobody else has changed anything.

What Azure, Helm and Kubernetes do is external, modelled from how the code uses
them: a deployment record has outputs only when it succeeded; Azure refuses a
second deployment of the same name, and the deletion of a record whose deployment
runs; a template creates the group first, then the vault, then the cluster; the
vault's name depends only on the cluster, so a soft-deleted one is in the way;
deleting the group soft-deletes its vault; a purge is accepted at once and done
later; the API server creates nothing in a namespace that is being deleted, and
removes everything in it at the end; Helm refuses to upgrade or install over a
release in a pending state, removes or rolls back what an atomic run failed to
bring up, and uninstalls a release in any state.

Left out: role assignments, DNS zone roles, ingress certificates and Helm value
mutators (idempotent, best-effort or without state of their own), the contents of
the template, and `--force` of install, uninstall and deprovision, which the driver
ignores.

### 2.3 VolumeShares

| Code | Action |
|---|---|
| `ensureStorageAccountCreated` | `EnsureAccount` |
| `DiskCreate`: list, first share, duplicate check, then create and read back | `ListForCreate`, `Put` |
| `DiskAssign`: list, then per differing share a Get and an Update of its metadata | `ListForAssign`, `GetShare`, `Update`, `AssignDone` |
| use case `DiskDelete`: check, then driver `DiskDelete` | `ListForDelete`, `Delete` |

A name is the sequence of its parts between hyphens, because the share of a disk is
addressed by `{volume}-{disk}` and both may contain hyphens: volumes `a` and `a-b`
mean the same share by disks `b-c` and `c`. What Azure does on a create of a share
that exists, keep it or replace its metadata, is left open (`PutShare`). A request
and its effect are one step, but the answer may be lost. The order in which assign
walks the list, by time of modification, is any order. Bootstrap and deploy over
shares are the use case code modelled in `VolumeDisks`.

The end of the module maps the shares to `VolumeAssignment` too. The goal of a volume
is the share of the assign that has listed it, until the assign fails or the next
command begins; the volume is settled when the assign has succeeded. The first share of a
volume is assigned when it is made, which `VolumeAssignment` allows and the disks make no
use of. With two volumes that mean one share the promise is false, as a create in one
adds to the other: it is stated for volumes that are `Apart`.

### 2.4 NodePools

| Code | Action |
|---|---|
| `NodePoolCreate` (`BeginCreateOrUpdate`) | `Start`, `Put` with `CreateBody` |
| `NodePoolUpdate`: get, check of immutable fields, merge, put | `Get`, `Put` with `Merged` |
| `NodePoolDelete` with its tolerance of not found | `RequestDelete`, `DeleteNotFound` |
| `PollUntilDone`, for a delete with its tolerance of not found | `Poll` (`PollEnds`, `PollNotFound`); Azure: `OperationSucceeds`, `OperationFails` |

A pool is its immutable kind, zones, labels and scale. Zone lists are model values in
the two forms the code converts between; the labels `node-pool` and `node-zone` are
Kompox's own. `wish` is what the pool would be if every accepted change were one
atomic step on the pool of its time: that the real pool is the same (`UpdatesAddUp`) is
the promise of a partial update, and `raced` the exception.

### 2.5 Rollout

| Code | Action |
|---|---|
| `Deploy`: applies in order | `ApplyNamespace`, `ApplyClaims`, `ApplyConf`, `ApplyDeployment`, `Expose` |
| `Deploy`: prune of stale headless services | `ListHeads`, `Prune`, `Pruned` |
| `PatchDeploymentPodContentHash`: three reads, a patch | `GetDeployment`, `ListSecrets`, `ListMaps`, `Patch`, `PatchFails` |
| `Destroy` | `Ingress`, `ListServices`, `DeleteService`, `DeleteDeployment`, `ListClaims`, `DeleteNamespace` |
| secret env and pull: read, write with the version, delete | `GetSecret`, `WriteSecret`, `DeleteSecret`, `Noop` |

A content hash is a model value, and the hash of a template is what it is computed
from: the order of the references and the hash of each. The order of configs is any,
as the code takes it from a Go map. Left out: the persistent volumes behind the
claims, logs and status.

### 2.6 Tunnel

| Code | Action |
|---|---|
| `tunnel.go` / `box/port_forward.go`: find the pod, forward, wait | `Resolve`, `SelectPod`, `OpenForward`, `AwaitReady`, `AwaitError`, `AwaitGiveUp`, `DialReady`, `DialGiveUp` |
| the command, Ctrl+C, the wait for DoneChannel, the retry | `CommandEnds`, `HoldCancel`, `HoldDone`, `StopDone`, `Retry`, `RetryCanceled` |
| goroutine of `PortForwardMulti` | `SwapHandlers`, `DialOK`, `DialFails`, `ServeStopped`, `ServeLost`, `RestoreHandlers` |
| goroutine that watches the pod | `WatchSeesEnd`, `WatchFails`, `WatchEnds` |

Each call of `PortForwardMulti` is a generation with channels of its own. Pods appear,
become ready, end and vanish by themselves. The choice of free local ports, and what
is sent over a connection, are left out. `TypeOK` has one statement beside the types: the
pause before a retry has doubled at most once, as every connection that came up puts it
back to one second.

### 2.7 DnsRecords

| Code | Action |
|---|---|
| listing of the hosts and their addresses | `ListHosts` |
| `selectDNSZone`, longest suffix | `Matching`, `Best` |
| `ClusterDNSApply`, one record set | `Write`, `WriteFails`, `NoZone`, `DryRun`, `Skip` |
| app deploy and app destroy around it | `Release`, `Withdraw`, `FirstStep` |

A domain name is the sequence of its labels. Records somebody else has made are in the
way (`Foreign`); Azure refuses other records beside a CNAME. The address of an ingress
comes and changes by itself (`Address`). TTLs are left out. `swallowed` is an error
that only strict mode would have reported.

### 2.8 KomLoader

One command, stage by stage: `LoadAppFile`, `ResolvePaths`, `Scan`/`Scanned`, `Load`,
`Validate`, `NewSink`, `DefaultApp`, `CreateModel`, each with its error. An input is a
file tree with documents, the flag, environment and configuration, and the app file.
A document is its kind, its resource ID and the attributes some check asks for; the
document sets of the code are sets of entries here, each with its file, its position
and whether it was read from the app file (`Entry`). What `--kom-app` names may be a
directory: then all YAML files below are read as the app file would be, without the rules
and limits of the scan (`AppFiles`), and none of their apps may refer to local files. The
loader has a limit of its own for a file (`MaxRead`), and a file may not be readable at
all: in the app file or its directory, and in a file of the paths, this ends the command.
Files are loaded, and documents of
one kind validated, in any order: nothing depends on it. The models are created in any
order that the levels allow, as the code goes through maps. `InputOK` assumes of the
file system that a path is a sequence of components, that what is above a file or a
directory is a directory, and that files and their documents are finitely
many.

### 2.9 AppConverter

`Admit` and `Read` check the network rules and the referenced files; `ConvertService`
takes one service after the other, in any order, and collects ports, mounts,
directories and volumes; `BuildPolicy`, `BuildService`, `BuildIngress` make the objects; `BindApp` and
`BindBox` bind disks; `Build` and `BuildBox` put the pod together. The names of the module
(`ConvertInit`, `stage`, `Absent`, ...) are none of `Rollout`'s, because one proof module
is about both.

`InputOK` states what the stores and compose-go deliver: lists are finite sequences, a port
is a number, a service has its volume targets once (`design/v1/Kompox-KubeConverter.ja.md:255`),
a volume's disks have names. Nothing else is assumed of an input, so the run and the proofs
also have those that no code on this way checks and whose pod Kubernetes refuses:

- two volumes of an app with one name (`config/kompoxopscfg/validate.go:51` rejects them in
  the single-file configuration; KOM documents are not checked for it), or an app volume
  called `cfg-<config>` or `sec-<secret>` (`VolumesApart` says there are none);
- a box that mounts a disk twice, two disks at one path, or a disk over its SSH key
  (`/etc/ssh/authorized_keys`, `usecase/box/deploy.go:200`; `BoxApart`).

`PodMountable` says that these are all there is: a pod that comes out is acceptable to
Kubernetes exactly when its names and paths were apart. For every input, what a container
mounts is a volume of the pod; and with no volume called like one of a file, each service
has what it asked for where it asked for it, or the file of two claims to one place.

## 3. Runs

| Run | Instance | States | Result |
|---|---|---|---|
| `disks_race` | 2 slots, 1 volume, 3 names of which 2 are cut to one, at most 3 creations; create, assign, delete, bootstrap, deploy | 2,156,975 | passes |
| `disks_seq` | 1 slot, 2 volumes, 2 names, 1 snapshot name, at most 3 creations; all commands but deploy; fairness | 615,320 | passes |
| `disks_snaplist` | 1 slot, 2 volumes, snapshots | | `DeletedSnapshotIsGone` fails |
| `shares_all` | 2 slots, 2 volumes that mean one share, 2 names | 561,716 | passes |
| `cluster_all` | 2 slots, all four commands, all protection levels | about 1.5 million | passes |
| `nodepools_all` | 2 slots, 1 pool, 5 files | 873,993 | passes |
| `rollout_all` | 2 slots, 4 commands in all, 2 versions of the app | 2,267,922 | passes |
| `tunnel_all` | 2 generations, 2 pods, 2 ports, all modes; fairness | 354,024 | passes |
| `dns_all` | 2 slots, 2 nested zones, 2 hosts, 2 foreign records | about 1.6 million | passes |
| `kom_all` | some 6,900 spreads of 9 documents, some 30,200 layouts of 5 | 324,933 | passes |
| `convert_all` | five groups of inputs | 104,679 | passes |
| `convert_losses` | the same | | `LossesAreTold` fails |

*Bounds.* Two slots are the interesting case: each property speaks of one command and
of what anybody else does to it, and the second slot runs arbitrarily many commands.
`MaxCreates` (a guard of `LandCreate`) bounds how many disks Azure ever creates; with
two resources and three creations a name is deleted and taken again or taken over, and all
orders of two creation times occur. One volume suffices for races, because only the loops
of bootstrap and deploy look at several. That of bootstrap runs over two volumes in
`disks_seq`, one invocation at a time; deploy has several volumes only in the proof of
`DeployBindsAssigned`, which is for any number of them.
`MaxCommands` (`Start` of `Rollout`) allows four commands: two that leave a lost patch
or a stale service, and two that overlap over it. `MaxForwards` bounds the retries of a
tunnel: the last connection is never lost, so a retry meets what the generation before
it left. `MaxDepth`, `MaxFiles`, `MaxSize`, `MaxTotal` and `MaxRead` of `KomLoader` are the limits of
the code, made small enough to be reached. The other modules have no counter: their
runs are complete for the instance given. `KomLoader` and `AppConverter` take one
command over every input of their groups; the groups combine the cases one check can
tell apart, so that every error exit is taken.

*Symmetry and views.* Slots and names that no value depends on are interchangeable, so
the safety runs use symmetry; runs with liveness do not. `disks_race`, `cluster_all`
and `dns_all` also take a view: an invocation that has ended is compared only by what a property
still says of it. `Start` resets all that the views leave out, so nothing is lost by
merging; that of `disks_race` also leaves out what no action and no state property of the
run reads, the binding of a deploy and, without snapshots, the disk tagged last.

*What may stop.* `tunnel_all`, `rollout_all`, `kom_all` and `convert_all` disable the
deadlock check: a tunnel or a load is one command that ends, and `Rollout` has no
command left. Elsewhere a slot that has ended can always begin again.

*Fairness.* `FairSpec` of `VolumeDisks` asks that a running command takes its next step
or fails (every command has a context with a deadline), and that Azure performs or
refuses every operation it accepted; then `CommandsEnd`: the loops end, one invocation at a
time, over whatever earlier ones and their late updates left. `FairSpec` of
`Tunnel` asks that each goroutine runs on while it can, a dial succeeds or fails, and a
watcher that has lost its pod eventually reads so (it polls every few seconds). It asks
nothing of the user or the pods. `WF(Command)` includes `CommandEnds`: the command run over
the tunnel ends at some time, which after Ctrl+C `exec.CommandContext` sees to by killing it,
and `CancelEnds` speaks of no other time:
after Ctrl+C every mode ends, from any point; and `LeavesDeadPod`: the tunnel does not
stay with a pod that is gone. No fairness is assumed of operators: nobody has to start
a command.

*What the passing runs show.*

- Disks: assign and bootstrap keep their promise on calm volumes (`CommandsSettle`);
  assignments are only revoked by an assign of another disk, and creates never write to a
  disk of the name they were given (`DisksKept`); switching to the newest disk never passes
  through a moment without an assigned one (`SwitchToNewestKeepsOne`, which depends on the
  order of the list). Both except a create whose name is cut to that of another disk.
  Deploys bind the only assigned disk (`DeployBindsAssigned`). One command at a time: of
  several assigned disks, which switches that failed half-way leave, a snapshot takes the
  one assigned last, because snapshot and assign walk the list in one order
  (`SnapshotTakesLatest`); the disks implement `VolumeAssignment` (`KeepsPromise`).
- Shares: an assign settles its volume (`AssignSettles`); a share goes or changes only
  by its own volume, with one exception the code has: a create in another volume that
  means it too (`SharesKept`); creates and deletes keep one assigned share
  (`StaysSettled`).
- Cluster: the cluster and the ingress follow the last command that succeeded
  (`ClusterFollows`, `IngressFollows`), protection is respected (`ConsentRespected`), and
  a trusted record does not outlive its group (`RecordGoesFirst`).
- Node pools: `PoolLabelRight`, `OkMeansDone`, `UpdatesAddUp`.
- Rollout: the patched hash is that of what is stored (`HashTrue`), `DeployGives`,
  `DestroyClears`.
- Tunnel: handlers and ports are given back (`CleansUp`), success has a cause
  (`OkHasCause`), and the two liveness properties.
- DNS: `RecordsFollow`; no record outlives its host unnoticed (`RecordsGoWithHosts`).
- KOM: the sink is exactly the valid set or nothing (`SinkTrue`), the models created
  are closed under parents also when the creation fails half-way (`ModelsTrue`), and a
  default app nobody named is the only one of the app file, and valid (`DefaultIsOurs`).
- Converter: a pod that comes out is acceptable exactly when the names and paths it was
  given were apart, and its services have what they asked for (`PodMountable`); hosts and
  network rules lead where they were written to lead (`ExposedAsWritten`).

`CommandsSettle`, `DisksKept`, `ClusterFollows`, `IngressFollows`, `ConsentRespected`,
`OkMeansDone`, `CleansUp`, `RecordsFollow` and `ExposedAsWritten` are conjunctions of two
named statements about the two sides of one promise; the modules define both, and the
proof modules prove both by themselves.

*What the failing runs show.* Each states a sentence of the repository's own documents
and finds the code doing something else; `PROJECT.json`, "findings", quotes both:
`newSnapshot` does not look at the volume tag, so that a volume lists snapshots it
cannot delete; and `Convert` replaces the warnings it collected by an empty list.

*Other disagreements met while modelling*, which no run states: the models do what the
code does, and the properties are worded so that they hold.

- `azure_resources.go:59` takes every error of its Get for a missing group (its
  comments at 48 and 58 say not-found), so deprovision can succeed with the group
  there. `DeprovisionLeavesNothing` excludes it by `swallowed`.
- `readOnly` blocks updates only as far as the status could be read (`provision.go:29`,
  `cluster.go:94`; `K4x-ADR-013.md:45`); deprovision does not ask whether the ingress is
  installed (`deprovision.go:17`; `Kompox-CLI.ja.md:355`).
- No disk is assigned by its creation (`volume_backend_disk.go:146`;
  `Kompox-ProviderDriver-AKS.ja.md:591`), more than one can be
  (`volume_backend_disk.go:297`; line 590 there), and a snapshot without a source takes
  the first of several assigned disks, the one assigned last, where an error is called for
  (`volume_backend_disk.go:451`; line 641 there).
- A share's name is compared within its volume only (`volume_backend_files.go:189`), and
  `{volume}-{disk}` can be a share of another volume.
- The zone label of a node pool is rewritten (`nodepool.go:420`;
  `Kompox-ProviderDriver-AKS.ja.md:806`).
- The content hash depends on the order of a Go map (`converter.go:1280`,
  `content_hash.go:92`; `Kompox-KubeConverter.ja.md:393`). After a failed patch, setting
  the same secret again is a noop that never repairs it (`env.go:200`); a deploy does.
- destroy leaves claims and volumes (`converter.go:1208`; `Kompox-CLI.ja.md:580`).
- An interactive tunnel also ends with success when one read of its pod fails
  (`tunnel.go:182`, `client_port_forward.go:286`), and its back-off never grows
  (`tunnel.go:352`): `OkOnlyAtTheEnd` and `BackoffGrows` at the end of `Tunnel` state the
  comments; TLC refutes both.
- Without strict mode `ClusterDNSApply` returns nil also when it failed
  (`aks/cluster.go:405`), so that dns deploy reports "updated" for it.
- `Defaults.spec.appId` is only parsed (`kom_loader.go:483`), and a directory is ignored
  when any component of its absolute path has an ignored name (`kom_loader.go:144`;
  `KOM.ja.md:165`).
- The services are not converted in a deterministic order (`converter.go:419`):
  compose-go v2 keeps them in a map, as a test of the repository knows
  (`compose_test.go:109`). Nothing that is modelled depends on it but which of several
  services fails first.
- A host given twice in one ingress entry is an error, not a warning
  (`Kompox-KubeConverter.ja.md:627`), and two rules of one name give a Service with two
  ports of one name, which nothing checks (`converter.go:898`).

## 4. Theorems

All are proved by `tlapm` for every value of the constants that the named assumptions
of the modules allow: any number of invocations, volumes, names, pods, retries, zones,
hosts, services, files. `PROJECT.json`, "theorems", lists them. For each component, type
correctness and every safety and step property of its runs is proved.

The pattern is the same everywhere. The component's module defines `Inv` (`Known` in
`KomLoader`, `ConvertInv` in `AppConverter`; not a property of a run: TLC checked it before
it was proved); the proofs
show that `Init` implies `TypeOK /\ Inv`, that every action keeps it, and that it implies the property, or,
for a step property, that a step from such a state has it. `TypeOK` alone is not
inductive where a request's argument is typed only because its control point says
that the command has one.

- `VolumeDisks_proofs`. `Flow` (control points belong to their commands; an operation is
  in flight exactly while its command polls or after it was abandoned), `AtHand` (what a
  calm command knows of the volume at hand), `Passed` (what a loop knows of the volumes
  behind it). The key line is
  `Assigning(p) => \A n \in Names \ Rest(p) : n \in tagged[v] <=> n = name[p]`: every
  disk that is no longer in the rest of the loop is settled. `Frame` (what `p` knows
  depends on its own variables and its calm volumes) and `OnlyLandingsWrite` (only a
  landing changes a disk, and it ends everybody else's calm on that volume) show that
  others do no harm. `SwitchToNewestKeepsOne` needs one more invariant, `InvOfDates`: no
  two disks of a volume have one creation time, and when a calm assign of the newest disk
  comes to any other, the newest is tagged already (`NewestFirst`). `OneDiskEach` (no two
  disks are kept in one resource, which cut names might suggest) lets an update reach the
  disk it means. `SnapshotTakesLatest` and `KeepsPromise` are proved for a single slot
  (`Ops = {p}`, also the instance the run checks); with two slots both are false, as an
  assign that is overtaken does not reach its goal. The first rests on `LatestFirst`: the
  disk tagged last, while it has its tag, is the newest with a tag, because an assign
  walks the list newest first: whatever is newer has lost its tag before. The second also
  needs names that are not cut to one (`NamesApart`), as a create that takes over moves an assignment away; it goes by
  `InitPromise` and, for each action of the code, the action of `VolumeAssignment` it
  is, or that it changes none of the mapped variables (`BeginPromise`, `StepPromise`,
  `LandPromise`).
- `VolumeShares_proofs`. `Placed`: a share's metadata says what its name says, also the
  copy an assign holds. `Lists` turns the lists into statements about one share each,
  `OneName` says that within one volume a share has one name: with `Placed` it is why a
  name that was not in the list can only be a share of another volume. `Knows` holds for
  calm invocations: what is left to do is exactly what differs. `KeepsPromiseHolds`: with
  one slot (`Ops = {p}`) and volumes that are `Apart`, the shares implement
  `VolumeAssignment`, so both backends of the volume port keep one promise. `OneWrite` is
  the main step: the write of one share changes what its own volume maps to, and nothing
  else. `NextAlone` and `NextNamed` cover the slot, `IsChoose`, `IsMove`, `IsComplete`,
  `IsAdd` and `IsRemove` the actions of `VolumeAssignment`. No run has `KeepsPromise` among
  its properties: `shares_all` has two slots and volumes that are not apart, on purpose.
  TLC found it true on one slot and two volumes that are apart, and false on two that
  are not, before it was proved.
- `ClusterLifecycle_proofs`. `Contents` (nothing lives in a group or a cluster that is
  gone), `OneAtATime` (one deployment, one Helm operation) and, per invocation, `Flow`,
  `Deprovisioning`, `ReadOnlyUpdating`, `Uninstalling` and the command's promise, together
  `Good(p)`. A step of `p` keeps `Good(q)` of another `q` either because it only works on
  `p`'s own variables (`QuietKeeps`) or because it ends `q`'s calm (`DisturbedKeeps`).
  `OneAtATime` makes this inductive: the record stops "running" only through the one
  invocation whose deployment it is.
- `NodePools_proofs`. While an operation runs, what the pool will be is what its
  invocation asked for; an update that is not `raced` merges into the pool it has read.
- `AppDeploy_proofs`, on both halves of app deploy: what it makes and how it applies that.
  *Rollout:* `HashTrue` itself with, per invocation, `Known` (what its reads say of
  what is stored), `Patching`, `Giving` and `Clearing` (what the steps behind it have
  done). A step of another changes nothing of it or ends its calm.
  *AppConverter:* `Collected` says that every service converted so far still has what it
  asked for (`Converted`: its ports and who owns them, its mounts, directories and
  volumes), and that nothing was collected without a service that asked for it. The step
  that counts is `ConvertServiceSafe`: a service that is added takes no port and no route
  from those before it, in any order. `Shown` and `Bound` say what the policy, the
  Service, the hosts, the bindings and the pod are made of. That these fit together needs
  no further step: `HostOfRule` (a host belongs to one rule) and `PortNameIs` give
  `HostsLeadRight`; `RuleOpens` (a rule that is right has a peer, so it opens what it
  writes) gives `PolicyAsWritten`; `KeptIs` (what is asked for at a place is there, or a
  file is), `SharedIs` (the volumes of files are those of the services' configs and
  secrets) and `VolumesOfApp`, `VolumesOfBox` (which names the pod has, and when two of its
  volumes have one) give `PodMountable`, in both directions of its equivalence. Nothing is
  assumed of the names of volumes or of the mounts of a box.
- `Tunnel_proofs`. At most one forwarder is alive, it is the current one, and a wait for
  it has a reason to end; an earlier one has restored what it found. This is what
  makes the swap of process-wide handlers sound over any number of retries.
- `DnsRecords_proofs`. `BestAnswers`: the code's search returns the longest configured
  suffix. `Inv` says per invocation what of its list is done; the foreign records and
  zones are arbitrary.
- `KomLoader_proofs`. `Known` says what each stage leaves behind, also when the command
  fails in the next one. `FilesFound`: what was scanned is closed downwards (a scan that
  stops at a directory scanned before therefore misses nothing, the place where
  overlapping paths could lose a file), and every file that was meant is found or below a
  path that is left. `DocsLoaded`: of the files that are not left, every document is
  loaded, unless an error was noted. `Validated`: what was accepted is consistent
  whatever comes later, and one rejection means that all documents together are
  inconsistent. For the second half the topological order is needed: when a document
  is looked at, all those of its parent's kind have been, so a parent that is not
  valid was rejected or is not there. With these, `SinkTrue`, `ModelsTrue` and
  `DefaultIsOurs` hold in every state. The limits of the scan are in `TypeOK`: the count
  is within its limit and not below the number of files kept, and the size is never
  above its own. That the size is a number is not stated: it is a sum over a set, a fold,
  and what a fold yields is induction over data.

Only model-checked: the liveness properties `CommandsEnd`, `CancelEnds` and
`LeavesDeadPod`. Liveness under fairness and ENABLED are out of the prover's reach, like
induction over data and recursive operators.

## 5. Not modelled

- *Exec sessions and the escape sequence.* Streams of the Kubernetes client; what is
  left is a byte matcher on one goroutine (`internal/terminal`), a pure function of its
  input.
- *Naming.* Formatting, cutting and hashing of strings; names are model values. What
  follows from two disk names that are cut to one (`naming.go:47`) is in `VolumeDisks`
  (`AzureName`); which strings are, is not modelled.
- *Stores.* Maps under a lock and single SQL statements of one process; what is read
  from them does not change while a command runs.
- *Registries and roles.* Single idempotent requests. The Key Vault is in
  `ClusterLifecycle`.
- *Box destroy and status, app status and logs.* Reads, or idempotent calls in a row.
- *Standalone boxes* in the converter: a function nothing calls.
- *CLI configuration, logging, terminal, kubeconfig files.* Input and output.
- *K3s driver.* A stub: every operation returns not implemented.
- *Azure templates.* Evaluated by Azure; `ClusterLifecycle` models the order of group,
  vault and cluster as external.
