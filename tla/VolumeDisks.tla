---------------------------- MODULE VolumeDisks ----------------------------
(***************************************************************************)
(* Disks and snapshots of one app, as the volume use cases                 *)
(* (usecase/volume) drive them through the AKS Managed Disk backend        *)
(* (adapters/drivers/provider/aks/volume_backend_disk.go).                 *)
(*                                                                         *)
(* The only durable state is in the cloud: which disks exist, which carry  *)
(* the tag kompox-disk-assigned = "true", and which snapshots exist.  There*)
(* is no lock and no etag: every CLI invocation lists, decides and writes, *)
(* and other invocations may run in between.  A write is a long-running    *)
(* Azure operation: the invocation issues it (BeginCreateOrUpdate,         *)
(* BeginUpdate, BeginDelete) and polls; the cloud performs it at some later*)
(* moment, also when the invocation has already given up on it.            *)
(***************************************************************************)
EXTENDS Naturals

CONSTANTS
  Ops,         \* slots of concurrently running CLI invocations
  NumVolumes,  \* length of app.Volumes
  Names,       \* disk names
  SnapNames,   \* snapshot names
  None,        \* "no name given"
  AzureName,   \* AzureName[v][n]: the Azure resource that disk or snapshot n of volume
               \* v is kept in; its name is cut to a length, so two may share one
  Commands,    \* the commands invocations issue
  MaxCreates   \* bound: disks the cloud ever creates for this app

AllCommands == {"create", "assign", "delete", "bootstrap", "deploy",
                "snapshot", "unsnapshot"}

ASSUME VolumeAssumption ==
  /\ NumVolumes \in Nat \ {0}
  /\ MaxCreates \in Nat
  /\ None \notin Names \cup SnapNames
  /\ Commands \subseteq AllCommands

\* app.Volumes, numbered in configuration order.
Volumes == 1..NumVolumes

\* appDiskName, appSnapshotName: those of ns that are kept in the resource of n.
SameResource(v, n, ns) == {m \in ns : AzureName[v][m] = AzureName[v][n]}

VARIABLES
  disks,    \* [Volumes -> SUBSET Names]: Managed Disks tagged with the volume
  tagged,   \* [Volumes -> SUBSET Names]: those whose assigned tag is "true"
  created,  \* [Volumes -> [Names -> Nat]]: TimeCreated of each disk
  clock,    \* the cloud's clock: one tick per disk created
  snaps,    \* [Volumes -> SUBSET SnapNames]: snapshots by volume tag
  mount,    \* [Volumes -> Names \cup {None}]: disk the deployed app is bound to
  latest,   \* history: [Volumes -> Names \cup {None}]: disk tagged "true" last
  pc, cmd,  \* per invocation: control point and command
  vol,      \* volume at hand
  name,     \* disk the command is about
  cur,      \* disk being updated, or the source disk
  snap,     \* snapshot the command is about, or the source snapshot
  todo,     \* listed disks DiskAssign has yet to update
  seen,     \* assigned disks read per volume by a gathering loop
  pend,     \* the invocation's write in flight
  calm      \* history: volumes no other invocation has written since the start

cloud == <<disks, tagged, created, clock, snaps, mount, latest>>
ops   == <<pc, cmd, vol, name, cur, snap, todo, seen, pend, calm>>
vars  == <<cloud, ops>>

Requests == {"create", "tag", "untag", "delete", "snapshot", "unsnapshot"}
Running  == {"list", "resolve", "wait", "assign", "update", "remove", "delete",
             "gather", "decide", "recheck", "apply", "snaplist", "source", "unsnap"}
Ended    == {"idle", "ok", "failed"}

TypeOK ==
  /\ disks \in [Volumes -> SUBSET Names]
  /\ tagged \in [Volumes -> SUBSET Names]
  /\ created \in [Volumes -> [Names -> Nat]]
  /\ clock \in Nat
  /\ snaps \in [Volumes -> SUBSET SnapNames]
  /\ mount \in [Volumes -> Names \cup {None}]
  /\ latest \in [Volumes -> Names \cup {None}]
  /\ pc \in [Ops -> Running \cup Ended]
  /\ cmd \in [Ops -> AllCommands]
  /\ vol \in [Ops -> Volumes]
  /\ name \in [Ops -> Names \cup {None}]
  /\ cur \in [Ops -> Names \cup {None}]
  /\ snap \in [Ops -> SnapNames \cup {None}]
  /\ todo \in [Ops -> SUBSET Names]
  /\ seen \in [Ops -> [Volumes -> SUBSET Names]]
  /\ pend \in [Ops -> Requests \cup {"none"}]
  /\ calm \in [Ops -> SUBSET Volumes]

NoneSeen == [v \in Volumes |-> {}]

Init ==
  /\ disks = NoneSeen
  /\ tagged = NoneSeen
  /\ created = [v \in Volumes |-> [n \in Names |-> 0]]
  /\ clock = 0
  /\ snaps = NoneSeen
  /\ mount = [v \in Volumes |-> None]
  /\ latest = [v \in Volumes |-> None]
  /\ pc = [p \in Ops |-> "idle"]
  /\ cmd = [p \in Ops |-> "assign"]
  /\ vol = [p \in Ops |-> 1]
  /\ name = [p \in Ops |-> None]
  /\ cur = [p \in Ops |-> None]
  /\ snap = [p \in Ops |-> None]
  /\ todo = [p \in Ops |-> {}]
  /\ seen = [p \in Ops |-> NoneSeen]
  /\ pend = [p \in Ops |-> "none"]
  /\ calm = [p \in Ops |-> {}]

-----------------------------------------------------------------------------
(* Starting an invocation.  A slot is taken again only when its last write   *)
(* has settled, so an abandoned write can overlap the other slots' commands. *)

Start(p, c, first, v, n, d, s) ==
  /\ c \in Commands
  /\ pc[p] \in Ended
  /\ pend[p] = "none"
  /\ pc' = [pc EXCEPT ![p] = first]
  /\ cmd' = [cmd EXCEPT ![p] = c]
  /\ vol' = [vol EXCEPT ![p] = v]
  /\ name' = [name EXCEPT ![p] = n]
  /\ cur' = [cur EXCEPT ![p] = d]
  /\ snap' = [snap EXCEPT ![p] = s]
  /\ todo' = [todo EXCEPT ![p] = {}]
  /\ seen' = [seen EXCEPT ![p] = NoneSeen]
  /\ calm' = [calm EXCEPT ![p] = Volumes]
  /\ UNCHANGED <<cloud, pend>>

\* disk create -V v [-N n] [-S disk:d | -S snapshot:s]: a name may be given or
\* left to the driver, the source is empty, a disk or a snapshot.
BeginCreate(p) ==
  \E v \in Volumes, n \in Names \cup {None},
     d \in Names \cup {None}, s \in SnapNames \cup {None} :
    /\ d = None \/ s = None
    /\ Start(p, "create", "list", v, n, d, s)

BeginAssign(p) ==
  \E v \in Volumes, n \in Names : Start(p, "assign", "assign", v, n, None, None)

BeginDelete(p) ==
  \E v \in Volumes, n \in Names : Start(p, "delete", "remove", v, n, None, None)

BeginBootstrap(p) == Start(p, "bootstrap", "gather", 1, None, None, None)

BeginDeploy(p) == Start(p, "deploy", "gather", 1, None, None, None)

\* snapshot create -V v [-N s] [-S disk:d]
BeginSnapshot(p) ==
  \E v \in Volumes, s \in SnapNames \cup {None}, d \in Names \cup {None} :
    Start(p, "snapshot", "snaplist", v, None, d, s)

BeginSnapshotDelete(p) ==
  \E v \in Volumes, s \in SnapNames :
    Start(p, "unsnapshot", "unsnap", v, None, None, s)

Begin(p) ==
  \/ BeginCreate(p) \/ BeginAssign(p) \/ BeginDelete(p) \/ BeginBootstrap(p)
  \/ BeginDeploy(p) \/ BeginSnapshot(p) \/ BeginSnapshotDelete(p)

-----------------------------------------------------------------------------
(* Control points shared by the commands.                                    *)

Goto(p, l) == pc' = [pc EXCEPT ![p] = l]

\* The call returns an error and the command ends.
Error(p) ==
  /\ Goto(p, "failed")
  /\ UNCHANGED <<cloud, cmd, vol, name, cur, snap, todo, seen, pend, calm>>

Issue(p, request) ==
  /\ Goto(p, "wait")
  /\ pend' = [pend EXCEPT ![p] = request]
  /\ UNCHANGED <<cloud, cmd, vol, name, calm>>

\* What is kept in the resource of n, as the set of it or of nothing: the disk
\* (snapshot) called n, or another whose name is cut to the same.
Held(v, n) == SameResource(v, n, disks[v])
HeldSnaps(v, s) == SameResource(v, s, snaps[v])

\* p runs, or its last write is in flight.
Active(p) == pc[p] \notin Ended \/ pend[p] # "none"

\* A name naming.NewCompactID can return: no disk and no command has it.
IsFresh(v, n) ==
  /\ Held(v, n) = {}
  /\ \A q \in Ops : Active(q) /\ vol[q] = v => name[q] \notin SameResource(v, n, Names)

-----------------------------------------------------------------------------
(* DiskCreate                                                                *)

\* Mutant of ListForCreate: a given name is not compared with the listed disks.
ListForCreateUnchecked(p) ==
  /\ pc[p] = "list"
  /\ \E n \in Names :
       /\ n = name[p] \/ (name[p] = None /\ IsFresh(vol[p], n))
       /\ name' = [name EXCEPT ![p] = n]
       /\ Goto(p, "resolve")
       /\ UNCHANGED <<cloud, cmd, vol, cur, snap, todo, seen, pend, calm>>

\* The name check against DiskList; the driver picks a name when none is given.
ListForCreate(p) ==
  /\ pc[p] = "list"
  /\ IF name[p] # None
     THEN IF name[p] \in disks[vol[p]]
          THEN Error(p)
          ELSE /\ Goto(p, "resolve")
               /\ UNCHANGED <<cloud, cmd, vol, name, cur, snap, todo, seen, pend, calm>>
     ELSE \E n \in Names :
            /\ IsFresh(vol[p], n)
            /\ name' = [name EXCEPT ![p] = n]
            /\ Goto(p, "resolve")
            /\ UNCHANGED <<cloud, cmd, vol, cur, snap, todo, seen, pend, calm>>

\* The source of the new disk must exist when it is resolved (Get).
SourceExists(p) ==
  /\ snap[p] # None => HeldSnaps(vol[p], snap[p]) # {}
  /\ cur[p] # None => Held(vol[p], cur[p]) # {}

PutDisk(p) ==
  /\ pc[p] = "resolve"
  /\ IF SourceExists(p)
     THEN Issue(p, "create") /\ UNCHANGED <<cur, snap, todo, seen>>
     ELSE Error(p)

-----------------------------------------------------------------------------
(* DiskAssign: list once, then update the listed disks whose flag differs,   *)
(* in list order (newest first), each by Get and BeginUpdate.                *)

\* Mutant of Differing: the disks assigned before are not unassigned.
DifferingTargetOnly(v, n) == {n} \ tagged[v]

\* The listed disks whose flag differs from the one wanted.
Differing(v, n) == (tagged[v] \ {n}) \cup ({n} \ tagged[v])

ListForAssign(p) ==
  /\ pc[p] = "assign"
  /\ IF name[p] \in disks[vol[p]]
     THEN /\ todo' = [todo EXCEPT ![p] = Differing(vol[p], name[p])]
          /\ Goto(p, "update")
          /\ UNCHANGED <<cloud, cmd, vol, name, cur, snap, seen, pend, calm>>
     ELSE Error(p)

\* Mutant of IsFirst: oldest first, as a sort with the comparison reversed.
IsFirstOldest(v, n, ns) == \A m \in ns : created[v][n] <= created[v][m]

\* n comes first among the listed disks of ns: DiskList sorts by CreatedAt,
\* newest first.
IsFirst(v, n, ns) == \A m \in ns : created[v][m] <= created[v][n]

\* Mutant of UpdateTag: a disk already updated is taken up again.
UpdateTagAgain(p) ==
  /\ pc[p] = "update"
  /\ \E n \in todo[p] :
       /\ n \in disks[vol[p]]
       /\ Issue(p, IF n = name[p] THEN "tag" ELSE "untag")
       /\ cur' = [cur EXCEPT ![p] = n]
       /\ UNCHANGED <<snap, todo, seen>>

UpdateTag(p) ==
  /\ pc[p] = "update"
  /\ \E n \in todo[p] :
       /\ IsFirst(vol[p], n, todo[p])
       /\ \/ \E held \in Held(vol[p], n) :
               /\ Issue(p, IF n = name[p] THEN "tag" ELSE "untag")
               /\ cur' = [cur EXCEPT ![p] = held]
               /\ todo' = [todo EXCEPT ![p] = @ \ {n}]
               /\ UNCHANGED <<snap, seen>>
          \/ Held(vol[p], n) = {} /\ Error(p)

\* Mutant of AssignDone: the volume loop runs past the last volume.
AssignDonePastLast(p) ==
  /\ pc[p] = "update"
  /\ todo[p] = {}
  /\ IF cmd[p] = "bootstrap"
     THEN vol' = [vol EXCEPT ![p] = @ + 1] /\ Goto(p, "recheck")
     ELSE Goto(p, "ok") /\ UNCHANGED vol
  /\ UNCHANGED <<cloud, cmd, name, cur, snap, todo, seen, pend, calm>>

\* Every listed disk is settled: the assign returns; a bootstrap goes on to the
\* next volume.
AssignDone(p) ==
  /\ pc[p] = "update"
  /\ todo[p] = {}
  /\ IF cmd[p] = "bootstrap" /\ vol[p] < NumVolumes
     THEN /\ vol' = [vol EXCEPT ![p] = @ + 1]
          /\ name' = [name EXCEPT ![p] = None]
          /\ cur' = [cur EXCEPT ![p] = None]
          /\ Goto(p, "recheck")
     ELSE /\ Goto(p, "ok")
          /\ UNCHANGED <<vol, name, cur>>
  /\ UNCHANGED <<cloud, cmd, snap, todo, seen, pend, calm>>

-----------------------------------------------------------------------------
(* DiskDelete: the use case refuses an unknown or assigned disk.             *)

\* Mutant of CheckAndDelete: the assigned flag is not looked at.
CheckAndDeleteAny(p) ==
  /\ pc[p] = "remove"
  /\ IF name[p] \in disks[vol[p]]
     THEN /\ Goto(p, "delete")
          /\ UNCHANGED <<cloud, cmd, vol, name, cur, snap, todo, seen, pend, calm>>
     ELSE Error(p)

CheckAndDelete(p) ==
  /\ pc[p] = "remove"
  /\ IF name[p] \in disks[vol[p]] \ tagged[vol[p]]
     THEN /\ Goto(p, "delete")
          /\ UNCHANGED <<cloud, cmd, vol, name, cur, snap, todo, seen, pend, calm>>
     ELSE Error(p)

IssueDelete(p) ==
  /\ pc[p] = "delete"
  /\ Issue(p, "delete")
  /\ UNCHANGED <<cur, snap, todo, seen>>

-----------------------------------------------------------------------------
(* The volume loops of DiskCreateBootstrap and of the app deployment read    *)
(* the assigned disks of one volume per DiskList call.                       *)

OneAssigned(ns) == \E n \in Names : ns = {n}

Gather(p) ==
  /\ pc[p] = "gather"
  /\ seen' = [seen EXCEPT ![p][vol[p]] = tagged[vol[p]]]
  /\ IF vol[p] < NumVolumes
     THEN vol' = [vol EXCEPT ![p] = @ + 1] /\ Goto(p, "gather")
     ELSE /\ vol' = [vol EXCEPT ![p] = 1]
          /\ Goto(p, IF cmd[p] = "deploy" THEN "apply" ELSE "decide")
  /\ UNCHANGED <<cloud, cmd, name, cur, snap, todo, pend, calm>>

\* Mutant of Decide: a volume with several assigned disks counts as bootstrapped.
DecideAny(p) ==
  /\ pc[p] = "decide"
  /\ Goto(p, CASE \A v \in Volumes : seen[p][v] = {} -> "recheck"
               [] \A v \in Volumes : seen[p][v] # {} -> "ok"
               [] OTHER                              -> "failed")
  /\ UNCHANGED <<cloud, cmd, vol, name, cur, snap, todo, seen, pend, calm>>

\* Create when no volume has an assigned disk, skip when each has exactly one,
\* fail in every other state.
Decide(p) ==
  /\ pc[p] = "decide"
  /\ Goto(p, CASE \A v \in Volumes : seen[p][v] = {}          -> "recheck"
               [] \A v \in Volumes : OneAssigned(seen[p][v]) -> "ok"
               [] OTHER                                       -> "failed")
  /\ UNCHANGED <<cloud, cmd, vol, name, cur, snap, todo, seen, pend, calm>>

\* DiskList once more before the volume's DiskCreate and DiskAssign.
Recheck(p) ==
  /\ pc[p] = "recheck"
  /\ IF tagged[vol[p]] = {}
     THEN /\ Goto(p, "list")
          /\ UNCHANGED <<cloud, cmd, vol, name, cur, snap, todo, seen, pend, calm>>
     ELSE Error(p)

\* Mutant of Apply: the first of several assigned disks is taken.
ApplyFirst(p) ==
  /\ pc[p] = "apply"
  /\ IF \A v \in Volumes : seen[p][v] # {}
     THEN /\ mount' = [v \in Volumes |-> CHOOSE n \in seen[p][v] : TRUE]
          /\ Goto(p, "ok")
          /\ UNCHANGED <<disks, tagged, created, clock, snaps, latest,
                         cmd, vol, name, cur, snap, todo, seen, pend, calm>>
     ELSE Error(p)

\* Validation demands one assigned disk per volume; the apply then binds the
\* app's volumes to the disks that were read.
Apply(p) ==
  /\ pc[p] = "apply"
  /\ IF \A v \in Volumes : OneAssigned(seen[p][v])
     THEN /\ mount' = [v \in Volumes |-> CHOOSE n \in seen[p][v] : TRUE]
          /\ Goto(p, "ok")
          /\ UNCHANGED <<disks, tagged, created, clock, snaps, latest,
                         cmd, vol, name, cur, snap, todo, seen, pend, calm>>
     ELSE Error(p)

-----------------------------------------------------------------------------
(* SnapshotCreate and SnapshotDelete                                         *)

\* SnapshotList returns the snapshots of every volume in the resource group.
Listed(v) == UNION {snaps[u] : u \in Volumes}

ListForSnapshot(p) ==
  /\ pc[p] = "snaplist"
  /\ IF snap[p] # None
     THEN IF snap[p] \in Listed(vol[p])
          THEN Error(p)
          ELSE /\ Goto(p, "source")
               /\ UNCHANGED <<cloud, cmd, vol, name, cur, snap, todo, seen, pend, calm>>
     ELSE \E s \in SnapNames \ Listed(vol[p]) :
            /\ HeldSnaps(vol[p], s) = {}
            /\ \A q \in Ops : snap[q] # s
            /\ snap' = [snap EXCEPT ![p] = s]
            /\ Goto(p, "source")
            /\ UNCHANGED <<cloud, cmd, vol, name, cur, todo, seen, pend, calm>>

\* Mutant of ChooseSource: the loop does not stop at the first assigned disk.
ChooseSourceLast(p) ==
  /\ pc[p] = "source"
  /\ LET v == vol[p] IN
     \E n \in (IF cur[p] # None THEN {cur[p]} \cap disks[v] ELSE tagged[v]) :
       /\ IsFirstOldest(v, n, IF cur[p] # None THEN {n} ELSE tagged[v])
       /\ Issue(p, "snapshot")
       /\ cur' = [cur EXCEPT ![p] = n]
       /\ UNCHANGED <<snap, todo, seen>>

\* The source disk: the one named, or else the first assigned disk listed.
ChooseSource(p) ==
  /\ pc[p] = "source"
  /\ LET v == vol[p] IN
     IF cur[p] # None
     THEN IF Held(v, cur[p]) # {}
          THEN Issue(p, "snapshot") /\ UNCHANGED <<cur, snap, todo, seen>>
          ELSE Error(p)
     ELSE IF tagged[v] = {}
          THEN Error(p)
          ELSE \E n \in tagged[v] :
                 /\ IsFirst(v, n, tagged[v])
                 /\ Issue(p, "snapshot")
                 /\ cur' = [cur EXCEPT ![p] = n]
                 /\ UNCHANGED <<snap, todo, seen>>

IssueSnapshotDelete(p) ==
  /\ pc[p] = "unsnap"
  /\ Issue(p, "unsnapshot")
  /\ UNCHANGED <<cur, snap, todo, seen>>

-----------------------------------------------------------------------------
(* The cloud performs the write in flight, at any time after it was issued.  *)
(* An invocation that still polls goes on; one that gave up never notices.   *)

Landed(p, next) ==
  /\ pend' = [pend EXCEPT ![p] = "none"]
  /\ pc' = IF pc[p] = "wait" THEN [pc EXCEPT ![p] = next] ELSE pc
  /\ calm' = [q \in Ops |-> IF q = p THEN calm[q] ELSE calm[q] \ {vol[p]}]
  /\ UNCHANGED <<mount, cmd, vol, name, cur, snap, todo, seen>>

\* The tags of a disk called n are written to the resource of n: the disk in it is
\* called n from now on, and is as old as it was.
Rename(v, n) ==
  /\ disks' = [disks EXCEPT ![v] = (@ \ Held(v, n)) \cup {n}]
  /\ \E held \in Held(v, n) : created' = [created EXCEPT ![v][n] = created[v][held]]

\* CreateOrUpdate: a disk that is kept in this resource has its tags replaced.
LandCreate(p) ==
  /\ pend[p] = "create"
  /\ SourceExists(p)
  /\ clock < MaxCreates
  /\ LET v == vol[p]  n == name[p] IN
     /\ tagged' = [tagged EXCEPT ![v] = @ \ (Held(v, n) \cup {n})]
     /\ clock' = clock + 1
     /\ IF Held(v, n) = {}
        THEN /\ disks' = [disks EXCEPT ![v] = @ \cup {n}]
             /\ created' = [created EXCEPT ![v][n] = clock + 1]
        ELSE Rename(v, n)
  /\ Landed(p, IF cmd[p] = "bootstrap" THEN "assign" ELSE "ok")
  /\ UNCHANGED <<snaps, latest>>

\* The update writes back all tags that were read with the disk, also its name.
LandTag(p) ==
  /\ pend[p] \in {"tag", "untag"}
  /\ LET v == vol[p]  n == cur[p] IN
     /\ Rename(v, n)
     /\ tagged' = [tagged EXCEPT ![v] =
                      (@ \ Held(v, n)) \cup (IF pend[p] = "tag" THEN {n} ELSE {})]
     /\ latest' = IF pend[p] = "tag" THEN [latest EXCEPT ![v] = n] ELSE latest
  /\ Landed(p, "update")
  /\ UNCHANGED <<clock, snaps>>

LandDelete(p) ==
  /\ pend[p] = "delete"
  /\ LET gone == Held(vol[p], name[p]) IN
     /\ disks' = [disks EXCEPT ![vol[p]] = @ \ gone]
     /\ tagged' = [tagged EXCEPT ![vol[p]] = @ \ gone]
  /\ Landed(p, "ok")
  /\ UNCHANGED <<created, clock, snaps, latest>>

LandSnapshot(p) ==
  /\ pend[p] = "snapshot"
  /\ LET v == vol[p]  s == snap[p] IN
     /\ Held(v, cur[p]) # {}
     /\ snaps' = [snaps EXCEPT ![v] = (@ \ HeldSnaps(v, s)) \cup {s}]
  /\ Landed(p, "ok")
  /\ UNCHANGED <<disks, tagged, created, clock, latest>>

\* Deleting an unknown snapshot succeeds.
LandSnapshotDelete(p) ==
  /\ pend[p] = "unsnapshot"
  /\ snaps' = [snaps EXCEPT ![vol[p]] = @ \ HeldSnaps(vol[p], snap[p])]
  /\ Landed(p, "ok")
  /\ UNCHANGED <<disks, tagged, created, clock, latest>>

\* The cloud rejects the write: quota, conflict, a resource that is gone.
Reject(p) ==
  /\ pend[p] # "none"
  /\ pend' = [pend EXCEPT ![p] = "none"]
  /\ pc' = IF pc[p] = "wait" THEN [pc EXCEPT ![p] = "failed"] ELSE pc
  /\ UNCHANGED <<cloud, cmd, vol, name, cur, snap, todo, seen, calm>>

Land(p) ==
  \/ LandCreate(p) \/ LandTag(p) \/ LandDelete(p)
  \/ LandSnapshot(p) \/ LandSnapshotDelete(p) \/ Reject(p)

\* An API call fails, the command's context times out, or the process dies.
\* A write in flight stays in flight.
Fail(p) == pc[p] \in Running /\ Error(p)

-----------------------------------------------------------------------------

Step(p) ==
  \/ ListForCreate(p) \/ PutDisk(p)
  \/ ListForAssign(p) \/ UpdateTag(p) \/ AssignDone(p)
  \/ CheckAndDelete(p) \/ IssueDelete(p)
  \/ Gather(p) \/ Decide(p) \/ Recheck(p) \/ Apply(p)
  \/ ListForSnapshot(p) \/ ChooseSource(p) \/ IssueSnapshotDelete(p)

Next == \E p \in Ops : Begin(p) \/ Step(p) \/ Land(p) \/ Fail(p)

Spec == Init /\ [][Next]_vars

\* Every call returns: the command goes on or fails (its context has a
\* deadline), and Azure ends every operation it accepted.
FairSpec ==
  /\ Spec
  /\ \A p \in Ops : WF_vars(Step(p) \/ Fail(p)) /\ WF_vars(Land(p))

-----------------------------------------------------------------------------
(* Properties.  calm[p] holds the volumes that no invocation but p has       *)
(* written since p began: on those every command must keep its promise,      *)
(* whatever state failures and races left behind before it began.            *)

\* p's write on volume v is performed in this step.
Lands(p, v) == pend[p] # "none" /\ pend'[p] = "none" /\ vol[p] = v

\* DiskAssign (volume_backend_disk.go:266): an assign that succeeds leaves its
\* disk as the only assigned one, also when it found none or several.
AssignSettles ==
  \A p \in Ops :
    pc[p] = "ok" /\ cmd[p] = "assign" /\ vol[p] \in calm[p]
      => tagged[vol[p]] = {name[p]}

\* DiskCreateBootstrap: when it succeeds, by creating or by skipping, each
\* volume has exactly one assigned disk.
BootstrapSettles ==
  \A p \in Ops : pc[p] = "ok" /\ cmd[p] = "bootstrap" =>
    \A v \in calm[p] : OneAssigned(tagged[v])

\* Both (volume_backend_disk.go:266, disk_create_bootstrap.go:45): a command that
\* settles the assignment of a volume has settled it when it succeeds.
CommandsSettle == AssignSettles /\ BootstrapSettles

\* p creates a disk whose name is cut to that of disk n (naming.go:47): it takes
\* the resource of n over.
TakesOver(p, v, n) ==
  cmd[p] = "create" /\ name[p] # n /\ n \in SameResource(v, name[p], Names)

\* No command but an assign of another disk takes the assigned flag from a
\* disk: delete checks it, a create writes "false" only to a new disk, unless it
\* takes over another, and a bootstrap assigns only where nothing is assigned.
OnlyAssignRevokes ==
  [][\A v \in Volumes : \A n \in tagged[v] \ tagged'[v] :
       \E p \in Ops : /\ Lands(p, v)
                      /\ v \in calm[p] => \/ cmd[p] = "assign" /\ name[p] # n
                                          \/ TakesOver(p, v, n)]_vars

\* DiskAssign updates the listed disks newest first, so that switching to the
\* newest disk (the one just created or restored) never passes through a state
\* with no assigned disk; only switching back to an older disk does, or a create
\* that takes over.
SwitchToNewestKeepsOne ==
  [][\A v \in Volumes : tagged[v] # {} /\ tagged'[v] = {} =>
       \E p \in Ops :
         /\ Lands(p, v)
         /\ v \in calm[p] =>
              \E n \in tagged[v] : \/ created[v][name[p]] < created[v][n]
                                   \/ TakesOver(p, v, n)]_vars

\* DiskCreate's name check: the upsert writes to no disk of the name it was given,
\* which it would unassign.
CreateIsFresh ==
  [][\A p \in Ops : /\ pend[p] = "create" /\ clock' # clock
                    /\ vol[p] \in calm[p]
                    /\ Lands(p, vol[p])
       => name[p] \notin disks[vol[p]]]_vars

\* Both: what one command made or assigned no other one takes over by accident
\* (volume_backend_disk.go:99 and 297, disk_delete.go:53).
DisksKept == OnlyAssignRevokes /\ CreateIsFresh

\* Deploy binds each volume to the disk that is the only assigned one when the
\* manifests are applied (validations.go:198).
DeployBindsAssigned ==
  [][\A p \in Ops : pc[p] = "apply" /\ pc'[p] = "ok" =>
       \A v \in calm[p] : tagged[v] = {mount'[v]}]_vars

\* SnapshotCreate without a source (volume_backend_disk.go:446) copies the first
\* assigned disk listed, although there may be several: switches that failed
\* half-way leave the tag on the old disk too.  With one invocation at a time it
\* is the disk that was assigned last, as long as that one has its tag, because
\* DiskAssign walks the same list in the same order (line 297).
SnapshotTakesLatest ==
  [][\A p \in Ops : /\ pc[p] = "source" /\ cur[p] = None /\ pc'[p] = "wait"
                    /\ latest[vol[p]] \in tagged[vol[p]]
       => cur'[p] = latest[vol[p]]]_vars

\* Every command ends, whatever Azure does with the operations it issued, and
\* whatever commands before it have left (volume_backend_disk.go:297 and 331,
\* disk_create_bootstrap.go:68 and 108).
CommandsEnd == \A p \in Ops : pc[p] \in Running ~> pc[p] \in Ended

-----------------------------------------------------------------------------
(* The invariant behind these properties: what each control point knows of   *)
(* the volumes nobody else has written.                                      *)

Creating(p)  == pc[p] = "resolve" \/ pend[p] = "create"
Assigning(p) == pc[p] = "update" \/ pend[p] \in {"tag", "untag"}
Deleting(p)  == pc[p] = "delete" \/ pend[p] = "delete"

\* The disks a running DiskAssign may still have to update.
Rest(p) == todo[p] \cup (IF pend[p] = "none" THEN {} ELSE {cur[p]})

\* Control points belong to their commands, and a write is in flight exactly
\* while its command polls, or after the command was abandoned.
Flow(p) ==
  /\ pc[p] = "wait" => pend[p] # "none"
  /\ pend[p] # "none" => pc[p] \in {"wait", "failed"}
  /\ pc[p] \in {"list", "resolve"} \/ pend[p] = "create" => cmd[p] \in {"create", "bootstrap"}
  /\ pc[p] \in {"assign", "update"} \/ pend[p] \in {"tag", "untag"}
       => cmd[p] \in {"assign", "bootstrap"} /\ name[p] \in Names
  /\ pc[p] \in {"remove", "delete"} \/ pend[p] = "delete" => cmd[p] = "delete" /\ name[p] \in Names
  /\ pc[p] = "gather" => cmd[p] \in {"bootstrap", "deploy"}
  /\ pc[p] \in {"decide", "recheck"} => cmd[p] = "bootstrap"
  /\ pc[p] = "apply" => cmd[p] = "deploy"
  /\ pc[p] \in {"decide", "apply"} => vol[p] = 1
  /\ pc[p] \in {"snaplist", "source"} \/ pend[p] = "snapshot" => cmd[p] = "snapshot"
  /\ pc[p] = "unsnap" \/ pend[p] = "unsnapshot" => cmd[p] = "unsnapshot"
  /\ pc[p] = "resolve" \/ pend[p] = "create" => name[p] \in Names
  /\ pend[p] \in {"tag", "untag", "snapshot"} => cur[p] \in Names
  /\ pc[p] \in {"source", "unsnap"} \/ pend[p] \in {"snapshot", "unsnapshot"}
       => snap[p] \in SnapNames

\* About the volume at hand.
AtHand(p) == vol[p] \in calm[p] =>
  LET v == vol[p] IN
  /\ Creating(p) => name[p] \notin disks[v]
  /\ Deleting(p) => name[p] \in disks[v] \ tagged[v]
  /\ pend[p] = "tag" => cur[p] = name[p]
  /\ pend[p] = "untag" => cur[p] # name[p]
  /\ Assigning(p) => Rest(p) \subseteq disks[v]
  /\ Assigning(p) => \A n \in Names \ Rest(p) : n \in tagged[v] <=> n = name[p]
  /\ cmd[p] = "bootstrap" =>
       /\ pc[p] \in {"list", "assign"} \/ Creating(p) => tagged[v] = {}
       /\ Assigning(p) => tagged[v] \cup Rest(p) \subseteq {name[p]}
  /\ pc[p] = "ok" /\ cmd[p] = "assign" => tagged[v] = {name[p]}

\* About the volumes a loop has passed.
Passed(p) == \A v \in calm[p] :
  /\ pc[p] = "gather" /\ v < vol[p] => seen[p][v] = tagged[v]
  /\ pc[p] \in {"decide", "apply"} => seen[p][v] = tagged[v]
  /\ cmd[p] = "bootstrap" =>
       /\ /\ pc[p] \in {"recheck", "list", "resolve", "wait", "assign", "update"}
          /\ v < vol[p]
          => OneAssigned(tagged[v])
       /\ pc[p] = "ok" => OneAssigned(tagged[v])

\* The assigned tag is a tag of a disk.
TagsOnDisks == \A v \in Volumes : tagged[v] \subseteq disks[v]

\* No two disks are kept in one resource.
OneDiskEach ==
  \A v \in Volumes : \A m, n \in disks[v] : AzureName[v][m] = AzureName[v][n] => m = n

Inv == TagsOnDisks /\ OneDiskEach /\ \A p \in Ops : Flow(p) /\ AtHand(p) /\ Passed(p)

\* The cloud creates one disk at a time: no two disks of a volume are of one moment.
Dates ==
  \A v \in Volumes :
    /\ \A n \in Names : created[v][n] <= clock
    /\ \A n \in disks[v] : created[v][n] > 0
    /\ \A m, n \in disks[v] : created[v][m] = created[v][n] => m = n

\* What DiskAssign has yet to update is no newer than what it updates now.
NewestFirst(p) ==
  vol[p] \in calm[p] /\ pend[p] \in {"tag", "untag"} =>
    \A n \in todo[p] : created[vol[p]][n] <= created[vol[p]][cur[p]]

InvOfDates == Dates /\ \A p \in Ops : NewestFirst(p)

\* With one invocation at a time: the disk tagged last is the newest with a tag.
LatestFirst ==
  \A v \in Volumes : latest[v] \in tagged[v] => IsFirst(v, latest[v], tagged[v])

-----------------------------------------------------------------------------
(* The abstract specification, VolumeAssignment: what the disks promise to   *)
(* an operator who runs one command at a time.                               *)

\* p is switching v, or its last tag update is still in flight.
Switching(p, v) ==
  /\ vol[p] = v
  /\ pc[p] = "update" \/ pend[p] \in {"tag", "untag"}

SettledBy(p, v) ==
  vol[p] = v /\ pc[p] = "ok" /\ cmd[p] \in {"assign", "bootstrap"} /\ name[p] # None

Switcher(v) == {p \in Ops : Switching(p, v) \/ SettledBy(p, v)}

Goal(v) == IF Switcher(v) = {} THEN None ELSE name[CHOOSE p \in Switcher(v) : TRUE]

Promise == INSTANCE VolumeAssignment WITH
  assigned <- tagged,
  goal     <- [v \in Volumes |-> Goal(v)],
  settled  <- {v \in Volumes : \E p \in Ops : SettledBy(p, v)}

\* With one invocation at a time (Ops a singleton) the disks keep the promise
\* of VolumeAssignment, whatever fails on the way.
KeepsPromise == Promise!Spec

\* Of an invocation that has nobody beside it: all volumes are calm, and a
\* bootstrap that has not decided yet has no name.
Alone(p) ==
  /\ pc[p] # "idle" \/ pend[p] # "none" => calm[p] = Volumes
  /\ cmd[p] = "bootstrap" /\ pc[p] \in {"gather", "decide"} => name[p] = None

-----------------------------------------------------------------------------
(* What the documentation says and the code does not guarantee.              *)

\* SnapshotDelete succeeded: the name is gone from the volume's SnapshotList.
DeletedSnapshotIsGone ==
  \A p \in Ops :
    pc[p] = "ok" /\ cmd[p] = "unsnapshot" /\ vol[p] \in calm[p]
      => snap[p] \notin Listed(vol[p])

=============================================================================
