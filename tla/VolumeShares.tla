---------------------------- MODULE VolumeShares ----------------------------
(***************************************************************************)
(* The shares of one app in Azure Files: DiskCreate, DiskAssign and        *)
(* DiskDelete of the volumes of type files (aks/volume_backend_files.go,   *)
(* aks/azure_storage.go) under their use cases (usecase/volume).           *)
(*                                                                         *)
(* All shares of an app are in one storage account.  Which volume a share  *)
(* belongs to, its disk name and whether it is assigned is in its metadata,*)
(* which is only written as a whole; the share itself is addressed by the  *)
(* name of the volume, a hyphen and the name of the disk.  Names may have  *)
(* hyphens, so that two volumes may mean the same share.                   *)
(*                                                                         *)
(* A name is the sequence of its parts between the hyphens.                *)
(***************************************************************************)
EXTENDS Sequences, Naturals

CONSTANTS
  Ops,      \* the invocations
  Parts,    \* what names consist of
  Volumes,  \* the names of the volumes of type files
  Names,    \* the names disks are given
  None

ShareName(v, n) == v \o n
ShareNames == {ShareName(v, n) : v \in Volumes, n \in Names}

Metadata == [volume : Volumes, name : Names, assigned : BOOLEAN]

ASSUME SharesAssumption ==
  /\ None \notin Names \cup Metadata
  /\ \A x \in Volumes \cup Names : x \in Seq(Parts)

VARIABLES
  account,   \* the storage account is there
  shares,    \* per share name: the metadata, or None
  pc, cmd, vol, name,
  first,     \* per create: its volume had no share
  todo,      \* per assign: the listed disks that are left to be changed
  disk, got, \* per assign: the disk at hand, its metadata as it was read
  calm       \* history: nobody else changed a share since the start

vars == <<account, shares, pc, cmd, vol, name, first, todo, disk, got, calm>>

Commands == {"create", "assign", "delete"}
Ended    == {"idle", "ok", "failed"}
Points   == Ended \cup {"account", "list", "put", "get", "update", "delete"}

TypeOK ==
  /\ account \in BOOLEAN
  /\ shares \in [ShareNames -> Metadata \cup {None}]
  /\ pc \in [Ops -> Points]
  /\ cmd \in [Ops -> Commands]
  /\ vol \in [Ops -> Volumes]
  /\ name \in [Ops -> Names \cup {None}]
  /\ first \in [Ops -> BOOLEAN]
  /\ todo \in [Ops -> SUBSET Names]
  /\ disk \in [Ops -> Names \cup {None}]
  /\ got \in [Ops -> Metadata \cup {None}]
  /\ calm \in [Ops -> BOOLEAN]

Init ==
  /\ account = FALSE
  /\ shares = [s \in ShareNames |-> None]
  /\ pc = [p \in Ops |-> "idle"]
  /\ cmd = [p \in Ops |-> "create"]
  /\ vol \in {[p \in Ops |-> v] : v \in Volumes}
  /\ name = [p \in Ops |-> None]
  /\ first = [p \in Ops |-> FALSE]
  /\ todo = [p \in Ops |-> {}]
  /\ disk = [p \in Ops |-> None]
  /\ got = [p \in Ops |-> None]
  /\ calm = [p \in Ops |-> FALSE]

-----------------------------------------------------------------------------

Goto(p, l) == pc' = [pc EXCEPT ![p] = l]

\* p changes a share: nobody else is calm any more.
Changes(p) == calm' = [q \in Ops |-> calm[q] /\ q = p]

\* disk create, assign and delete; only a create may leave the name to the driver.
Start(p) ==
  /\ pc[p] \in Ended
  /\ \E c \in Commands, v \in Volumes, n \in Names \cup {None} :
       /\ n = None => c = "create"
       /\ cmd' = [cmd EXCEPT ![p] = c]
       /\ vol' = [vol EXCEPT ![p] = v]
       /\ name' = [name EXCEPT ![p] = n]
       /\ Goto(p, IF c = "create" THEN "account" ELSE "list")
  /\ first' = [first EXCEPT ![p] = FALSE]
  /\ todo' = [todo EXCEPT ![p] = {}]
  /\ disk' = [disk EXCEPT ![p] = None]
  /\ got' = [got EXCEPT ![p] = None]
  /\ calm' = [calm EXCEPT ![p] = TRUE]
  /\ UNCHANGED <<account, shares>>

\* DiskList: the metadata of all shares that name the volume.
Listed(v) == {shares[s] : s \in {s \in ShareNames : shares[s] # None}}
               \cap [volume : {v}, name : Names, assigned : BOOLEAN]

NamesOf(ds) == {d.name : d \in ds}
AssignedOf(v) == NamesOf({d \in Listed(v) : d.assigned})

-----------------------------------------------------------------------------
(* DiskCreate                                                                *)

\* Whether it finds the account or creates it.
EnsureAccount(p) ==
  /\ pc[p] = "account"
  /\ account' = TRUE
  /\ Goto(p, "list")
  /\ UNCHANGED <<shares, cmd, vol, name, first, todo, disk, got, calm>>

\* A name that NewCompactID returns: it has no hyphen and nobody has it.
IsFresh(n) ==
  /\ Len(n) = 1
  /\ \A q \in Ops : name[q] # None => name[q][Len(name[q])] # n[1]
  /\ \A s \in ShareNames : shares[s] # None => s[Len(s)] # n[1]

\* Mutant of ListForCreate: the volume's first share is not assigned.
ListForCreateUnassigned(p) ==
  /\ pc[p] = "list"
  /\ cmd[p] = "create"
  /\ \E n \in Names :
       /\ n = name[p] \/ (name[p] = None /\ IsFresh(n))
       /\ n \notin NamesOf(Listed(vol[p]))
       /\ name' = [name EXCEPT ![p] = n]
       /\ first' = [first EXCEPT ![p] = FALSE]
  /\ Goto(p, "put")
  /\ UNCHANGED <<account, shares, cmd, vol, todo, disk, got, calm>>

\* The volume's shares: a name among them is refused, the first one is assigned.
ListForCreate(p) ==
  /\ pc[p] = "list"
  /\ cmd[p] = "create"
  /\ \E n \in Names :
       /\ n = name[p] \/ (name[p] = None /\ IsFresh(n))
       /\ n \notin NamesOf(Listed(vol[p]))
       /\ name' = [name EXCEPT ![p] = n]
       /\ first' = [first EXCEPT ![p] = Listed(vol[p]) = {}]
  /\ Goto(p, "put")
  /\ UNCHANGED <<account, shares, cmd, vol, todo, disk, got, calm>>

\* Azure: a share that exists is kept or has its metadata replaced.
PutShare(s, metadata) ==
  \/ shares' = [shares EXCEPT ![s] = metadata]
  \/ shares[s] # None /\ UNCHANGED shares

\* The Create, and the Get after it, which may fail.
Put(p) ==
  /\ pc[p] = "put"
  /\ account
  /\ PutShare(ShareName(vol[p], name[p]),
              [volume |-> vol[p], name |-> name[p], assigned |-> first[p]])
  /\ \E l \in {"ok", "failed"} : Goto(p, l)
  /\ Changes(p)
  /\ UNCHANGED <<account, cmd, vol, name, first, todo, disk, got>>

-----------------------------------------------------------------------------
(* DiskAssign: list once, then change the metadata of one share after the    *)
(* other, each by Get and Update, in the order of their last change.         *)

\* Mutant of Differing: the shares assigned before are not unassigned.
DifferingTargetOnly(v, n) == {n} \ AssignedOf(v)

Differing(v, n) == {d.name : d \in {d \in Listed(v) : (d.name = n) # d.assigned}}

ListForAssign(p) ==
  /\ pc[p] = "list"
  /\ cmd[p] = "assign"
  /\ name[p] \in NamesOf(Listed(vol[p]))
  /\ todo' = [todo EXCEPT ![p] = Differing(vol[p], name[p])]
  /\ Goto(p, "get")
  /\ UNCHANGED <<account, shares, cmd, vol, name, first, disk, got, calm>>

GetShare(p) ==
  /\ pc[p] = "get"
  /\ \E n \in todo[p] : LET s == ShareName(vol[p], n) IN
       /\ shares[s] # None
       /\ todo' = [todo EXCEPT ![p] = @ \ {n}]
       /\ disk' = [disk EXCEPT ![p] = n]
       /\ got' = [got EXCEPT ![p] = shares[s]]
  /\ Goto(p, "update")
  /\ UNCHANGED <<account, shares, cmd, vol, name, first, calm>>

\* Mutant of Update: only the flag goes back.
UpdateFlagOnly(p) ==
  /\ pc[p] = "update"
  /\ LET s == ShareName(vol[p], disk[p]) IN
       /\ shares[s] # None
       /\ shares' = [shares EXCEPT ![s] = [assigned |-> disk[p] = name[p]]]
  /\ disk' = [disk EXCEPT ![p] = None]
  /\ got' = [got EXCEPT ![p] = None]
  /\ Goto(p, "get")
  /\ Changes(p)
  /\ UNCHANGED <<account, cmd, vol, name, first, todo>>

\* The metadata that was read goes back as a whole, with the flag set.
Update(p) ==
  /\ pc[p] = "update"
  /\ LET s == ShareName(vol[p], disk[p]) IN
       /\ shares[s] # None
       /\ shares' = [shares EXCEPT ![s] =
                       [got[p] EXCEPT !.assigned = (disk[p] = name[p])]]
  /\ disk' = [disk EXCEPT ![p] = None]
  /\ got' = [got EXCEPT ![p] = None]
  /\ Goto(p, "get")
  /\ Changes(p)
  /\ UNCHANGED <<account, cmd, vol, name, first, todo>>

AssignDone(p) ==
  /\ pc[p] = "get"
  /\ todo[p] = {}
  /\ Goto(p, "ok")
  /\ UNCHANGED <<account, shares, cmd, vol, name, first, todo, disk, got, calm>>

-----------------------------------------------------------------------------
(* DiskDelete, after the check of the use case.                              *)

\* Mutant of ListForDelete: the driver is asked without a look at the list.
ListForDeleteAny(p) ==
  /\ pc[p] = "list"
  /\ cmd[p] = "delete"
  /\ Goto(p, "delete")
  /\ UNCHANGED <<account, shares, cmd, vol, name, first, todo, disk, got, calm>>

ListForDelete(p) ==
  /\ pc[p] = "list"
  /\ cmd[p] = "delete"
  /\ name[p] \in NamesOf(Listed(vol[p])) \ AssignedOf(vol[p])
  /\ Goto(p, "delete")
  /\ UNCHANGED <<account, shares, cmd, vol, name, first, todo, disk, got, calm>>

\* A share that is gone counts as deleted; the answer may be lost.
Delete(p) ==
  /\ pc[p] = "delete"
  /\ shares' = [shares EXCEPT ![ShareName(vol[p], name[p])] = None]
  /\ \E l \in {"ok", "failed"} : Goto(p, l)
  /\ Changes(p)
  /\ UNCHANGED <<account, cmd, vol, name, first, todo, disk, got>>

-----------------------------------------------------------------------------

\* A check or a request fails, the context ends or the process dies.
Fail(p) ==
  /\ pc[p] \notin Ended
  /\ Goto(p, "failed")
  /\ UNCHANGED <<account, shares, cmd, vol, name, first, todo, disk, got, calm>>

Step(p) ==
  \/ EnsureAccount(p) \/ ListForCreate(p) \/ Put(p)
  \/ ListForAssign(p) \/ GetShare(p) \/ Update(p) \/ AssignDone(p)
  \/ ListForDelete(p) \/ Delete(p)
  \/ Fail(p)

Next == \E p \in Ops : Start(p) \/ Step(p)

Spec == Init /\ [][Next]_vars

-----------------------------------------------------------------------------
(* Properties.                                                               *)

\* DiskAssign (volume_backend_files.go:285): an assign that nobody interferes with
\* leaves its share as the only assigned one of the volume, whatever failed before.
AssignSettles ==
  \A p \in Ops : pc[p] = "ok" /\ cmd[p] = "assign" /\ calm[p] =>
    AssignedOf(vol[p]) = {name[p]}

\* A step of p.
Acts(p) == pc'[p] # pc[p]

\* Two volumes mean the same share by their names for it.
Meant(v, s) == \E n \in Names : ShareName(v, n) = s

\* What may happen to a share (disk_delete.go:53, volume_backend_files.go:189): it
\* goes only when it is not assigned and its own volume deletes it; only an assign
\* changes it, and only its flag.  The exceptions are another invocation that
\* interferes, and a create in another volume whose name for its new share is the
\* name of this one: nothing compares them.
SharesKept ==
  [][\A s \in ShareNames : shares[s] # None /\ shares'[s] # shares[s] =>
       \E p \in Ops : Acts(p) /\
         \/ ~calm[p]
         \/ /\ cmd[p] = "delete"
            /\ shares[s].volume = vol[p]
            /\ ~shares[s].assigned
         \/ /\ cmd[p] = "assign"
            /\ shares[s].volume = vol[p]
            /\ shares'[s] = [shares[s] EXCEPT !.assigned = ~@]
         \/ /\ cmd[p] = "create"
            /\ shares[s].volume # vol[p]
            /\ Meant(vol[p], s)]_vars

\* A volume has one assigned share, or no share at all.
Settled(v) == Listed(v) = {} \/ \E n \in Names : AssignedOf(v) = {n}

\* Creates and deletes keep it so (volume_backend_files.go:178): only an assign
\* of the volume is on its way between, unless another invocation interferes or a
\* volume takes a share that it means too.
StaysSettled ==
  [][\A v \in Volumes : Settled(v) /\ ~Settled(v)' =>
       \E p \in Ops : Acts(p) /\
         \/ ~calm[p]
         \/ cmd[p] = "assign" /\ vol[p] = v
         \/ cmd[p] = "create" /\ vol[p] # v]_vars

-----------------------------------------------------------------------------
(* The invariant behind these properties.                                    *)

\* A share's metadata says what its name says.
Placed == \A s \in ShareNames :
  shares[s] # None => s = ShareName(shares[s].volume, shares[s].name)

\* What each control point implies.
Flow(p) ==
  /\ pc[p] \in {"account", "put"} => cmd[p] = "create"
  /\ pc[p] \in {"get", "update"} => cmd[p] = "assign"
  /\ pc[p] = "delete" => cmd[p] = "delete"
  /\ pc[p] \notin Ended /\ name[p] = None => cmd[p] = "create" /\ pc[p] # "put"
  /\ pc[p] = "update" =>
       /\ disk[p] # None /\ got[p] # None
       /\ ShareName(vol[p], disk[p]) = ShareName(got[p].volume, got[p].name)

\* The volume of p has a share of this name.
Has(p, n) == n \in NamesOf(Listed(vol[p]))

\* What an invocation that nobody interferes with knows.
Knows(p) ==
  /\ pc[p] = "put" =>
       /\ ~Has(p, name[p])
       /\ first[p] = (Listed(vol[p]) = {})
  /\ pc[p] \in {"get", "update"} => Has(p, name[p])
  /\ pc[p] = "get" => todo[p] = Differing(vol[p], name[p])
  /\ pc[p] = "update" =>
       /\ Differing(vol[p], name[p]) = todo[p] \cup {disk[p]}
       /\ disk[p] \notin todo[p]
       /\ shares[ShareName(vol[p], disk[p])] = got[p]
  /\ pc[p] = "delete" => Has(p, name[p]) /\ name[p] \notin AssignedOf(vol[p])
  /\ pc[p] = "ok" /\ cmd[p] = "assign" => AssignedOf(vol[p]) = {name[p]}

Inv ==
  /\ Placed
  /\ \A p \in Ops : Flow(p)
  /\ \A p \in Ops : calm[p] => Knows(p)

-----------------------------------------------------------------------------
(* The abstract specification, VolumeAssignment: both backends of the volume *)
(* port promise the same to an operator who runs one command at a time.      *)

\* No two volumes mean one share.
Apart == \A v, w \in Volumes, m, n \in Names : ShareName(v, m) = ShareName(w, n) => v = w

Switching(p, v) == vol[p] = v /\ pc[p] \in {"get", "update"}

Reported(p, v) == vol[p] = v /\ pc[p] = "ok" /\ cmd[p] = "assign"

Switcher(v) == {p \in Ops : Switching(p, v) \/ Reported(p, v)}

Goal(v) == IF Switcher(v) = {} THEN None ELSE name[CHOOSE p \in Switcher(v) : TRUE]

Promise == INSTANCE VolumeAssignment WITH
  disks    <- [v \in Volumes |-> NamesOf(Listed(v))],
  assigned <- [v \in Volumes |-> AssignedOf(v)],
  goal     <- [v \in Volumes |-> Goal(v)],
  settled  <- {v \in Volumes : \E p \in Ops : Reported(p, v)}

\* With one invocation at a time (Ops a singleton) and volumes that are apart, the
\* shares keep the promise of VolumeAssignment, whatever fails on the way.
KeepsPromise == Promise!Spec
=============================================================================
