------------------------- MODULE VolumeDisks_proofs -------------------------
(***************************************************************************)
(* Theorems about VolumeDisks, for any number of concurrent invocations,   *)
(* volumes, disk and snapshot names.                                       *)
(***************************************************************************)
EXTENDS VolumeDisks, TLAPS

\* Volumes are numbered from one.
LEMMA VolumesAreNumbers == Volumes \subseteq Nat /\ 1 \in Volumes
  BY VolumeAssumption DEF Volumes

-----------------------------------------------------------------------------
(* Type correctness.                                                         *)

\* The empty resource group is well typed.
LEMMA InitTypeOK == Init => TypeOK
  BY VolumesAreNumbers DEF Init, TypeOK, NoneSeen, Running, Ended, AllCommands, Requests

\* Starting a command with well-typed arguments keeps the types.
LEMMA StartTypeOK ==
  ASSUME TypeOK, NEW p \in Ops, NEW c, NEW first \in Running, NEW v \in Volumes,
         NEW n \in Names \cup {None}, NEW d \in Names \cup {None},
         NEW s \in SnapNames \cup {None}, Start(p, c, first, v, n, d, s)
  PROVE  TypeOK'
  BY VolumeAssumption DEF TypeOK, Start, cloud, NoneSeen

\* Every command starts with well-typed arguments.
LEMMA BeginTypeOK == ASSUME TypeOK, NEW p \in Ops, Begin(p) PROVE TypeOK'
  <1> USE StartTypeOK, VolumesAreNumbers DEF Running
  <1>1. CASE BeginCreate(p) BY <1>1 DEF BeginCreate
  <1>2. CASE BeginAssign(p) BY <1>2 DEF BeginAssign
  <1>3. CASE BeginDelete(p) BY <1>3 DEF BeginDelete
  <1>4. CASE BeginBootstrap(p) BY <1>4 DEF BeginBootstrap
  <1>5. CASE BeginDeploy(p) BY <1>5 DEF BeginDeploy
  <1>6. CASE BeginSnapshot(p) BY <1>6 DEF BeginSnapshot
  <1>7. CASE BeginSnapshotDelete(p) BY <1>7 DEF BeginSnapshotDelete
  <1> QED BY <1>1, <1>2, <1>3, <1>4, <1>5, <1>6, <1>7 DEF Begin

\* What type correctness says of one invocation and its volume.
LEMMA Local ==
  ASSUME TypeOK, NEW p \in Ops
  PROVE  /\ vol[p] \in Volumes
         /\ disks[vol[p]] \subseteq Names
         /\ tagged[vol[p]] \subseteq Names
         /\ snaps[vol[p]] \subseteq SnapNames
         /\ todo[p] \subseteq Names
         /\ name[p] \in Names \cup {None}
         /\ cur[p] \in Names \cup {None}
         /\ snap[p] \in SnapNames \cup {None}
         /\ pc[p] \in Running \cup Ended
         /\ calm[p] \subseteq Volumes
  BY DEF TypeOK

\* What is held in a resource is a disk of the volume, and a disk is held in its own.
LEMMA HeldDisks ==
  ASSUME NEW v, NEW n
  PROVE  Held(v, n) \subseteq disks[v] /\ (n \in disks[v] => n \in Held(v, n))
  BY DEF Held, SameResource

\* While no two disks are in one resource, each has its own to itself.
LEMMA HeldAlone ==
  ASSUME OneDiskEach, NEW v \in Volumes, NEW n \in disks[v]
  PROVE  Held(v, n) = {n}
  BY DEF OneDiskEach, Held, SameResource

\* Writing the tags of a disk to its own resource renames nothing.
LEMMA RenameItself ==
  ASSUME TypeOK, OneDiskEach, NEW v \in Volumes, NEW n \in disks[v], Rename(v, n)
  PROVE  disks' = disks /\ created' = created
  <1>1. Held(v, n) = {n} /\ n \in Names
    BY HeldAlone DEF TypeOK
  <1>2. /\ disks' = [disks EXCEPT ![v] = (@ \ {n}) \cup {n}]
        /\ created' = [created EXCEPT ![v][n] = created[v][n]]
    BY <1>1 DEF Rename
  <1> QED BY <1>2 DEF TypeOK

\* A renamed disk is a disk with a date.
LEMMA RenameTypes ==
  ASSUME TypeOK, NEW v \in Volumes, NEW n \in Names, Rename(v, n)
  PROVE  /\ disks' \in [Volumes -> SUBSET Names]
         /\ created' \in [Volumes -> [Names -> Nat]]
  <1>1. disks' \in [Volumes -> SUBSET Names]
    <2>1. (disks[v] \ Held(v, n)) \cup {n} \in SUBSET Names
      BY DEF TypeOK
    <2> QED BY <2>1 DEF Rename, TypeOK
  <1>2. PICK held \in Held(v, n) : created' = [created EXCEPT ![v][n] = created[v][held]]
    BY DEF Rename
  <1>3. held \in Names
    BY <1>2, HeldDisks DEF TypeOK
  <1>4. created' \in [Volumes -> [Names -> Nat]]
    BY <1>2, <1>3 DEF TypeOK
  <1> QED BY <1>1, <1>4

\* A command that ends with an error keeps the types.
LEMMA ErrorTypeOK == ASSUME TypeOK, NEW p \in Ops, Error(p) PROVE TypeOK'
  BY DEF TypeOK, Error, Goto, cloud, Ended

\* Moving to a control point keeps pc's type.
LEMMA GotoType ==
  ASSUME TypeOK, NEW p \in Ops, NEW l \in Running \cup Ended, Goto(p, l)
  PROVE  pc' \in [Ops -> Running \cup Ended]
  BY DEF TypeOK, Goto

\* Issuing a request keeps the types of what it sets.
LEMMA IssueTypeOK ==
  ASSUME TypeOK, NEW p \in Ops, NEW r \in Requests, Issue(p, r),
         cur' \in [Ops -> Names \cup {None}], UNCHANGED <<snap, seen>>,
         todo' \in [Ops -> SUBSET Names]
  PROVE  TypeOK'
  BY DEF TypeOK, Issue, Goto, cloud, Running

\* Every call a command makes keeps the types.
LEMMA StepTypeOK == ASSUME TypeOK, NEW p \in Ops, Step(p) PROVE TypeOK'
  <1>0. /\ vol[p] \in Volumes
        /\ disks[vol[p]] \subseteq Names
        /\ tagged[vol[p]] \subseteq Names
        /\ todo[p] \subseteq Names
        /\ name[p] \in Names \cup {None}
    BY Local
  <1>1. CASE ListForCreate(p)
    BY <1>1 DEF TypeOK, Running, Ended, Requests, Goto, Error, Issue, cloud, ListForCreate
  <1>2. CASE PutDisk(p)
    BY <1>2 DEF TypeOK, Running, Ended, Requests, Goto, Error, Issue, cloud, PutDisk
  <1>3. CASE ListForAssign(p)
    <2>1. CASE name[p] \in disks[vol[p]]
      <3>a. tagged[vol[p]] \subseteq Names /\ name[p] \in Names
        BY <2>1, Local
      <3>1. Differing(vol[p], name[p]) \in SUBSET Names
        BY <3>a DEF Differing
      <3>2. todo' \in [Ops -> SUBSET Names]
        BY <1>3, <2>1, <3>1 DEF ListForAssign, TypeOK
      <3>3. pc' \in [Ops -> Running \cup Ended]
        BY <1>3, <2>1, GotoType DEF ListForAssign, Running
      <3> QED BY <1>3, <2>1, <3>2, <3>3 DEF ListForAssign, TypeOK, cloud
    <2>2. CASE name[p] \notin disks[vol[p]]
      BY <1>3, <2>2, ErrorTypeOK DEF ListForAssign
    <2> QED BY <2>1, <2>2
  <1>4. CASE UpdateTag(p)
    <2>1. ASSUME NEW n \in todo[p], NEW held \in Held(vol[p], n),
                 Issue(p, IF n = name[p] THEN "tag" ELSE "untag"),
                 cur' = [cur EXCEPT ![p] = held],
                 todo' = [todo EXCEPT ![p] = @ \ {n}],
                 UNCHANGED <<snap, seen>>
          PROVE  TypeOK'
      <3>1. cur' \in [Ops -> Names \cup {None}]
        <4>1. held \in Names /\ cur' = [cur EXCEPT ![p] = held]
          BY <1>0, <2>1, HeldDisks
        <4>2. cur \in [Ops -> Names \cup {None}]
          BY DEF TypeOK
        <4> QED BY <4>1, <4>2
      <3>2. todo' \in [Ops -> SUBSET Names]
        <4>1. /\ todo \in [Ops -> SUBSET Names]
              /\ todo' = [todo EXCEPT ![p] = @ \ {n}]
          BY <2>1 DEF TypeOK
        <4> QED BY <1>0, <4>1
      <3>3. (IF n = name[p] THEN "tag" ELSE "untag") \in Requests
        BY DEF Requests
      <3> QED BY <2>1, <3>1, <3>2, <3>3, IssueTypeOK
    <2> QED BY <1>4, <2>1, ErrorTypeOK DEF UpdateTag
  <1>5. CASE AssignDone(p)
    <2>1. vol[p] < NumVolumes => vol[p] + 1 \in Volumes
      BY <1>0, VolumeAssumption DEF Volumes
    <2>2. pc' \in [Ops -> Running \cup Ended]
      BY <1>5, GotoType DEF AssignDone, Running, Ended
    <2>3. CASE cmd[p] = "bootstrap" /\ vol[p] < NumVolumes
      <3>1. /\ vol' \in [Ops -> Volumes]
            /\ name' \in [Ops -> Names \cup {None}]
            /\ cur' \in [Ops -> Names \cup {None}]
        BY <1>5, <2>1, <2>3 DEF TypeOK, AssignDone
      <3> QED BY <1>5, <2>2, <3>1 DEF TypeOK, AssignDone, cloud
    <2>4. CASE ~(cmd[p] = "bootstrap" /\ vol[p] < NumVolumes)
      BY <1>5, <2>2, <2>4 DEF TypeOK, AssignDone, cloud
    <2> QED BY <2>3, <2>4
  <1>6. CASE CheckAndDelete(p)
    BY <1>6 DEF TypeOK, Running, Ended, Requests, Goto, Error, Issue, cloud, CheckAndDelete
  <1>7. CASE IssueDelete(p)
    BY <1>7 DEF TypeOK, Running, Ended, Requests, Goto, Error, Issue, cloud, IssueDelete
  <1>8. CASE Gather(p)
    <2>1. vol[p] < NumVolumes => vol[p] + 1 \in Volumes
      BY <1>0, VolumeAssumption DEF Volumes
    <2>2. pc' \in [Ops -> Running \cup Ended]
      BY <1>8, GotoType DEF Gather, Running
    <2>3. vol' \in [Ops -> Volumes]
      BY <1>8, <2>1, VolumesAreNumbers DEF TypeOK, Gather
    <2>4. seen' \in [Ops -> [Volumes -> SUBSET Names]]
      BY <1>0, <1>8 DEF TypeOK, Gather
    <2> QED BY <1>8, <2>2, <2>3, <2>4 DEF TypeOK, cloud, Gather
  <1>9. CASE Decide(p)
    <2>1. pc' \in [Ops -> Running \cup Ended]
      BY <1>9, GotoType DEF Decide, Running, Ended
    <2> QED BY <1>9, <2>1 DEF TypeOK, cloud, Decide
  <1>10. CASE Recheck(p)
    BY <1>10 DEF TypeOK, Running, Ended, Requests, Goto, Error, Issue, cloud, Recheck
  <1>11. CASE Apply(p)
    <2>1. ASSUME \A v \in Volumes : OneAssigned(seen[p][v])
          PROVE  [v \in Volumes |-> CHOOSE n \in seen[p][v] : TRUE]
                   \in [Volumes -> Names \cup {None}]
      BY <2>1 DEF OneAssigned, TypeOK
    <2> QED BY <1>11, <2>1 DEF TypeOK, Running, Ended, Goto, Error, cloud, Apply
  <1>12. CASE ListForSnapshot(p)
    <2>1. CASE snap[p] # None
      BY <1>12, <2>1, ErrorTypeOK
      DEF TypeOK, Running, Goto, cloud, ListForSnapshot
    <2>2. CASE snap[p] = None
      <3>1. PICK s \in SnapNames : /\ snap' = [snap EXCEPT ![p] = s]
                                  /\ Goto(p, "source")
                                  /\ UNCHANGED <<cloud, cmd, vol, name, cur, todo, seen, pend, calm>>
        BY <1>12, <2>2 DEF ListForSnapshot
      <3> QED BY <3>1 DEF TypeOK, Running, Goto, cloud
    <2> QED BY <2>1, <2>2
  <1>13. CASE ChooseSource(p)
    <2>1. ASSUME NEW n \in tagged[vol[p]], Issue(p, "snapshot"),
                 cur' = [cur EXCEPT ![p] = n], UNCHANGED <<snap, todo, seen>>
          PROVE  TypeOK'
      <3>1. cur' \in [Ops -> Names \cup {None}]
        BY <1>0, <2>1 DEF TypeOK
      <3> QED BY <2>1, <3>1, IssueTypeOK DEF TypeOK, Requests
    <2>2. ASSUME Issue(p, "snapshot"), UNCHANGED <<cur, snap, todo, seen>>
          PROVE  TypeOK'
      BY <2>2, IssueTypeOK DEF TypeOK, Requests
    <2> QED BY <1>13, <2>1, <2>2, ErrorTypeOK DEF ChooseSource
  <1>14. CASE IssueSnapshotDelete(p)
    BY <1>14 DEF TypeOK, Running, Ended, Requests, Goto, Error, Issue, cloud, IssueSnapshotDelete
  <1> QED BY <1>1, <1>2, <1>3, <1>4, <1>5, <1>6, <1>7, <1>8, <1>9, <1>10,
             <1>11, <1>12, <1>13, <1>14 DEF Step

\* A write that lands keeps the types of the invocations' variables.
LEMMA LandedTypes ==
  ASSUME TypeOK, NEW p \in Ops, NEW next \in Running \cup Ended, Landed(p, next)
  PROVE  /\ pend' \in [Ops -> Requests \cup {"none"}]
         /\ pc' \in [Ops -> Running \cup Ended]
         /\ calm' \in [Ops -> SUBSET Volumes]
  BY DEF TypeOK, Landed

\* A write that lands keeps the types.
LEMMA LandTypeOK ==
  ASSUME TypeOK, NEW p \in Ops, Flow(p), Land(p)
  PROVE  TypeOK'
  <1>0. vol[p] \in Volumes
    BY Local
  <1>1. ASSUME NEW next \in Running \cup Ended, Landed(p, next),
               disks' \in [Volumes -> SUBSET Names],
               tagged' \in [Volumes -> SUBSET Names],
               created' \in [Volumes -> [Names -> Nat]],
               clock' \in Nat,
               snaps' \in [Volumes -> SUBSET SnapNames],
               latest' \in [Volumes -> Names \cup {None}]
        PROVE  TypeOK'
    BY <1>1, LandedTypes DEF TypeOK, Landed
  <1>2. CASE LandCreate(p)
    <2>1. name[p] \in Names
      BY <1>2 DEF LandCreate, Flow
    <2>2. clock' \in Nat /\ tagged' \in [Volumes -> SUBSET Names]
      BY <1>0, <1>2 DEF LandCreate, TypeOK
    <2>3. /\ disks' \in [Volumes -> SUBSET Names]
          /\ created' \in [Volumes -> [Names -> Nat]]
      <3>1. CASE Held(vol[p], name[p]) = {}
        <4>1. /\ disks' = [disks EXCEPT ![vol[p]] = @ \cup {name[p]}]
              /\ created' = [created EXCEPT ![vol[p]][name[p]] = clock + 1]
              /\ clock + 1 \in Nat
          BY <1>2, <3>1 DEF LandCreate, TypeOK
        <4> QED BY <1>0, <2>1, <4>1 DEF TypeOK
      <3>2. CASE Held(vol[p], name[p]) # {}
        BY <1>0, <1>2, <2>1, <3>2, RenameTypes DEF LandCreate
      <3> QED BY <3>1, <3>2
    <2>4. /\ snaps' \in [Volumes -> SUBSET SnapNames]
          /\ latest' \in [Volumes -> Names \cup {None}]
      BY <1>2 DEF LandCreate, TypeOK
    <2> QED BY <1>1, <1>2, <2>2, <2>3, <2>4 DEF LandCreate, Running, Ended
  <1>3. CASE LandTag(p)
    <2>1. cur[p] \in Names
      BY <1>3 DEF LandTag, Flow
    <2>2. /\ disks' \in [Volumes -> SUBSET Names]
          /\ created' \in [Volumes -> [Names -> Nat]]
      BY <1>0, <1>3, <2>1, RenameTypes DEF LandTag
    <2>3. tagged' \in [Volumes -> SUBSET Names]
      <3>1. (tagged[vol[p]] \ Held(vol[p], cur[p])) \cup (IF pend[p] = "tag" THEN {cur[p]} ELSE {})
              \in SUBSET Names
        BY <1>0, <2>1 DEF TypeOK
      <3> QED BY <1>0, <1>3, <3>1 DEF LandTag, TypeOK
    <2>4. latest' \in [Volumes -> Names \cup {None}]
      BY <1>0, <1>3, <2>1 DEF LandTag, TypeOK
    <2> QED BY <1>1, <1>3, <2>2, <2>3, <2>4 DEF LandTag, TypeOK, Running
  <1>4. CASE LandDelete(p)
    BY <1>0, <1>1, <1>4 DEF LandDelete, TypeOK, Ended
  <1>5. CASE LandSnapshot(p)
    <2>1. snap[p] \in SnapNames
      BY <1>5 DEF LandSnapshot, Flow
    <2>2. snaps' \in [Volumes -> SUBSET SnapNames]
      BY <1>0, <1>5, <2>1 DEF LandSnapshot, TypeOK
    <2> QED BY <1>1, <1>5, <2>2 DEF LandSnapshot, TypeOK, Ended
  <1>6. CASE LandSnapshotDelete(p)
    BY <1>0, <1>1, <1>6 DEF LandSnapshotDelete, TypeOK, Ended
  <1>7. CASE Reject(p)
    BY <1>7 DEF Reject, TypeOK, Ended, cloud
  <1> QED BY <1>2, <1>3, <1>4, <1>5, <1>6, <1>7 DEF Land

\* The types need the control flow: the name a create writes was chosen by
\* the name check, and so on.
LEMMA NextTypeOK == TypeOK /\ Inv /\ [Next]_vars => TypeOK'
  <1> SUFFICES ASSUME TypeOK, Inv, [Next]_vars PROVE TypeOK'
    OBVIOUS
  <1>1. CASE UNCHANGED vars
    BY <1>1 DEF TypeOK, vars, cloud, ops
  <1>2. ASSUME NEW p \in Ops, Begin(p) \/ Step(p) \/ Land(p) \/ Fail(p)
        PROVE  TypeOK'
    <2>1. Flow(p)
      BY DEF Inv
    <2> QED BY <1>2, <2>1, BeginTypeOK, StepTypeOK, LandTypeOK, ErrorTypeOK DEF Fail
  <1> QED BY <1>1, <1>2 DEF Next

-----------------------------------------------------------------------------
(* The invariant.  Good(p) is all that it says of one invocation.  A step of *)
(* another invocation keeps it (OtherKeeps): it writes only its own volume,  *)
(* which leaves calm[p].  A step of p itself is taken case by case.          *)

Good(p) == Flow(p) /\ AtHand(p) /\ Passed(p)

\* Nothing has run yet: there is nothing to know.
LEMMA InitInv == Init => Inv
  BY VolumesAreNumbers
  DEF Init, Inv, NoneSeen, TagsOnDisks, OneDiskEach, Flow, AtHand, Passed, Creating, Deleting, Assigning

\* Good(p) depends on p's own variables and on the volumes in calm[p] only.
LEMMA Frame ==
  ASSUME TypeOK, NEW p \in Ops, Good(p),
         pc'[p] = pc[p], cmd'[p] = cmd[p], vol'[p] = vol[p], name'[p] = name[p],
         cur'[p] = cur[p], snap'[p] = snap[p], todo'[p] = todo[p],
         seen'[p] = seen[p], pend'[p] = pend[p], calm'[p] \subseteq calm[p],
         \A v \in calm'[p] : tagged'[v] = tagged[v] /\ disks'[v] = disks[v]
  PROVE  Good(p)'
  <1>1. Flow(p)'
    BY DEF Good, Flow
  <1>2. AtHand(p)'
    BY DEF Good, AtHand, Creating, Deleting, Assigning, Rest
  <1>3. Passed(p)'
    BY DEF Good, Passed, OneAssigned
  <1> QED BY <1>1, <1>2, <1>3 DEF Good

\* The step leaves p's own variables alone.
Untouched(p) ==
  /\ pc'[p] = pc[p] /\ cmd'[p] = cmd[p] /\ vol'[p] = vol[p]
  /\ name'[p] = name[p] /\ cur'[p] = cur[p] /\ snap'[p] = snap[p]
  /\ todo'[p] = todo[p] /\ seen'[p] = seen[p] /\ pend'[p] = pend[p]

\* Only a landing changes a disk or a tag, and calm of another invocation.
LEMMA OnlyLandingsWrite ==
  ASSUME TypeOK, NEW q \in Ops, Begin(q) \/ Step(q) \/ Fail(q)
  PROVE  /\ UNCHANGED <<disks, tagged, created, clock, latest>>
         /\ \A p \in Ops \ {q} : Untouched(p) /\ calm'[p] = calm[p]
  <1> USE DEF TypeOK, Untouched, cloud, Goto, Error, Issue
  <1>1. ASSUME NEW c, NEW l, NEW v, NEW n, NEW d, NEW s, Start(q, c, l, v, n, d, s)
        PROVE  /\ UNCHANGED <<disks, tagged, created, clock, latest>>
               /\ \A p \in Ops \ {q} : Untouched(p) /\ calm'[p] = calm[p]
    BY <1>1 DEF Start
  <1>2. CASE Begin(q)
    BY <1>1, <1>2 DEF Begin, BeginCreate, BeginAssign, BeginDelete, BeginBootstrap,
                      BeginDeploy, BeginSnapshot, BeginSnapshotDelete
  <1>3. CASE ListForCreate(q) \/ PutDisk(q)
    BY <1>3 DEF ListForCreate, PutDisk
  <1>4. CASE ListForAssign(q)
    BY <1>4 DEF ListForAssign
  <1>5. CASE UpdateTag(q)
    BY <1>5 DEF UpdateTag
  <1>6. CASE AssignDone(q)
    BY <1>6 DEF AssignDone
  <1>7. CASE CheckAndDelete(q) \/ IssueDelete(q)
    BY <1>7 DEF CheckAndDelete, IssueDelete
  <1>8. CASE Gather(q) \/ Decide(q) \/ Recheck(q) \/ Apply(q)
    BY <1>8 DEF Gather, Decide, Recheck, Apply
  <1>9. CASE ListForSnapshot(q)
    BY <1>9 DEF ListForSnapshot
  <1>10. CASE ChooseSource(q)
    BY <1>10 DEF ChooseSource
  <1>11. CASE IssueSnapshotDelete(q) \/ Fail(q)
    BY <1>11 DEF IssueSnapshotDelete, Fail
  <1> QED BY <1>2, <1>3, <1>4, <1>5, <1>6, <1>7, <1>8, <1>9, <1>10, <1>11 DEF Step

\* A landing of another invocation ends p's calm on its volume.
LEMMA OtherLand ==
  ASSUME TypeOK, NEW p \in Ops, NEW q \in Ops \ {p}, Land(q)
  PROVE  /\ Untouched(p) /\ calm'[p] \subseteq calm[p]
         /\ \A v \in calm'[p] :
              tagged'[v] = tagged[v] /\ disks'[v] = disks[v] /\ created'[v] = created[v]
  <1>1. ASSUME NEW l, Landed(q, l)
        PROVE  Untouched(p) /\ calm'[p] = calm[p] \ {vol[q]}
    BY <1>1 DEF Landed, Untouched, TypeOK
  <1>2. calm[p] \subseteq Volumes
    BY Local
  <1>3. CASE LandCreate(q)
    BY <1>1, <1>2, <1>3 DEF LandCreate, Rename, TypeOK
  <1>4. CASE LandTag(q)
    BY <1>1, <1>2, <1>4 DEF LandTag, Rename, TypeOK
  <1>5. CASE LandDelete(q)
    BY <1>1, <1>2, <1>5 DEF LandDelete, TypeOK
  <1>6. CASE LandSnapshot(q) \/ LandSnapshotDelete(q)
    BY <1>1, <1>6 DEF LandSnapshot, LandSnapshotDelete
  <1>7. CASE Reject(q)
    BY <1>7 DEF Reject, Untouched, cloud, TypeOK
  <1> QED BY <1>3, <1>4, <1>5, <1>6, <1>7 DEF Land

\* No step of another invocation breaks what p knows.
LEMMA OtherKeeps ==
  ASSUME TypeOK, NEW p \in Ops, Good(p), NEW q \in Ops \ {p},
         Begin(q) \/ Step(q) \/ Land(q) \/ Fail(q)
  PROVE  Good(p)'
  <1>1. /\ Untouched(p) /\ calm'[p] \subseteq calm[p]
        /\ \A v \in calm'[p] : tagged'[v] = tagged[v] /\ disks'[v] = disks[v]
    BY OnlyLandingsWrite, OtherLand
  <1> QED BY <1>1, Frame DEF Untouched

-----------------------------------------------------------------------------
(* A step of p itself keeps Good(p).                                         *)

\* A command that starts knows nothing yet.
LEMMA BeginKeeps == ASSUME TypeOK, NEW p \in Ops, Good(p), Begin(p) PROVE Good(p)'
  <1>1. ASSUME NEW c, NEW l, NEW v \in Volumes, NEW n, NEW d, NEW s,
               Start(p, c, l, v, n, d, s),
               \/ c = "create" /\ l = "list"
               \/ c = "assign" /\ l = "assign" /\ n \in Names
               \/ c = "delete" /\ l = "remove" /\ n \in Names
               \/ c \in {"bootstrap", "deploy"} /\ l = "gather" /\ v = 1
               \/ c = "snapshot" /\ l = "snaplist"
               \/ c = "unsnapshot" /\ l = "unsnap" /\ s \in SnapNames
        PROVE  Good(p)'
    <2>1. /\ pc'[p] = l /\ cmd'[p] = c /\ vol'[p] = v /\ name'[p] = n
          /\ cur'[p] = d /\ snap'[p] = s /\ pend'[p] = "none"
          /\ calm'[p] = Volumes
      BY <1>1 DEF Start, TypeOK
    <2>2. Flow(p)'
      BY <1>1, <2>1 DEF Flow
    <2>3. AtHand(p)'
      BY <1>1, <2>1 DEF AtHand, Creating, Deleting, Assigning
    <2>4. Passed(p)'
      BY <1>1, <2>1 DEF Passed, Volumes
    <2> QED BY <2>2, <2>3, <2>4 DEF Good
  <1> QED BY <1>1, VolumesAreNumbers
          DEF Begin, BeginCreate, BeginAssign, BeginDelete, BeginBootstrap,
              BeginDeploy, BeginSnapshot, BeginSnapshotDelete

\* A command that failed knows nothing any more.
LEMMA ErrorKeeps ==
  ASSUME TypeOK, NEW p \in Ops, Good(p), pc[p] \in Running, Error(p)
  PROVE  Good(p)'
  <1>1. /\ pc'[p] = "failed"
        /\ UNCHANGED <<disks, tagged, cmd, vol, name, cur, snap, todo, seen, pend, calm>>
    BY DEF Error, Goto, cloud, TypeOK
  <1>2. Flow(p)'
    BY <1>1 DEF Good, Flow
  <1>3. AtHand(p)'
    BY <1>1 DEF Good, AtHand, Creating, Deleting, Assigning, Rest
  <1>4. Passed(p)'
    BY <1>1 DEF Passed
  <1> QED BY <1>2, <1>3, <1>4 DEF Good

\* The step goes from one control point to another and changes nothing else
\* that Good(p) depends on.
LEMMA GotoKeeps ==
  ASSUME TypeOK, NEW p \in Ops, Good(p), NEW l, Goto(p, l), pend[p] = "none",
         UNCHANGED <<disks, tagged, cmd, vol, name, cur, snap, todo, seen, pend, calm>>,
         \/ pc[p] = "list" /\ l = "resolve" /\ name[p] \in Names \ disks[vol[p]]
         \/ pc[p] = "remove" /\ l = "delete" /\ name[p] \in disks[vol[p]] \ tagged[vol[p]]
         \/ pc[p] = "decide" /\ l = "recheck" /\ vol[p] = 1
         \/ /\ pc[p] = "decide" /\ l = "ok"
            /\ \A v \in Volumes : OneAssigned(seen[p][v])
         \/ pc[p] = "decide" /\ l = "failed"
         \/ pc[p] = "recheck" /\ l = "list" /\ tagged[vol[p]] = {}
         \/ pc[p] = "apply" /\ l = "ok"
  PROVE  Good(p)'
  <1>1. pc'[p] = l
    BY DEF Goto, TypeOK
  <1>2. Flow(p)'
    BY <1>1 DEF Good, Flow
  <1>3. AtHand(p)'
    BY <1>1 DEF Good, AtHand, Creating, Deleting, Assigning, Rest, Flow
  <1>4. calm[p] \subseteq 1..NumVolumes
    BY Local DEF Volumes
  <1>5. Passed(p)'
    BY <1>1, <1>4, VolumeAssumption DEF Good, Passed, Flow, Volumes
  <1> QED BY <1>2, <1>3, <1>5 DEF Good

\* Every call of p keeps what p knows.
LEMMA StepKeeps ==
  ASSUME TypeOK, TagsOnDisks, OneDiskEach, NEW p \in Ops, Good(p), Step(p)
  PROVE  Good(p)'
  <1>0. /\ pc[p] \in Running \ {"wait"} => pend[p] = "none"
        /\ vol[p] \in Volumes
        /\ disks[vol[p]] \subseteq Names
        /\ tagged[vol[p]] \subseteq Names
        /\ calm[p] \subseteq Volumes
        /\ todo[p] \subseteq Names
    BY Local DEF Good, Flow, Running
  <1>1. CASE ListForCreate(p)
    <2>1. CASE name[p] # None
      <3>1. name[p] \in Names
        BY <2>1, Local
      <3> QED BY <1>0, <1>1, <2>1, <3>1, ErrorKeeps, GotoKeeps DEF ListForCreate, cloud, Running
    <2>2. CASE name[p] = None
      <3>1. PICK n \in Names :
              /\ IsFresh(vol[p], n)
              /\ name' = [name EXCEPT ![p] = n]
              /\ Goto(p, "resolve")
              /\ UNCHANGED <<cloud, cmd, vol, cur, snap, todo, seen, pend, calm>>
        BY <1>1, <2>2 DEF ListForCreate
      <3>2. /\ pc[p] = "list" /\ pend[p] = "none"
            /\ pc'[p] = "resolve" /\ name'[p] = n /\ n \notin disks[vol[p]]
            /\ UNCHANGED <<disks, tagged, cmd, vol, cur, snap, todo, seen, pend, calm>>
        BY <1>0, <1>1, <3>1, HeldDisks DEF ListForCreate, Goto, IsFresh, cloud, TypeOK, Running
      <3>3. Flow(p)'
        BY <3>2 DEF Good, Flow
      <3>4. AtHand(p)'
        BY <3>2 DEF Good, AtHand, Creating, Deleting, Assigning
      <3>5. Passed(p)'
        BY <3>2 DEF Good, Passed
      <3> QED BY <3>3, <3>4, <3>5 DEF Good
    <2> QED BY <2>1, <2>2
  <1>2. CASE PutDisk(p)
    <2>1. CASE SourceExists(p)
      <3>1. /\ pc[p] = "resolve" /\ pc'[p] = "wait" /\ pend'[p] = "create"
            /\ pend[p] = "none"
            /\ UNCHANGED <<disks, tagged, cmd, vol, name, cur, snap, todo, seen, calm>>
        BY <1>0, <1>2, <2>1 DEF PutDisk, Issue, Goto, cloud, TypeOK, Running
      <3>2. Flow(p)'
        BY <3>1 DEF Good, Flow
      <3>3. AtHand(p)'
        BY <3>1 DEF Good, AtHand, Creating, Deleting, Assigning
      <3>4. Passed(p)'
        BY <3>1 DEF Good, Passed
      <3> QED BY <3>2, <3>3, <3>4 DEF Good
    <2> QED BY <1>2, <2>1, ErrorKeeps DEF PutDisk, Running
  <1>3. CASE ListForAssign(p)
    <2>1. CASE name[p] \in disks[vol[p]]
      <3>1. /\ pc[p] = "assign" /\ pc'[p] = "update" /\ pend[p] = "none"
            /\ todo'[p] = Differing(vol[p], name[p])
            /\ UNCHANGED <<disks, tagged, cmd, vol, name, cur, snap, seen, pend, calm>>
        BY <1>0, <1>3, <2>1 DEF ListForAssign, Goto, cloud, TypeOK, Running
      <3>2. Flow(p)'
        BY <1>0, <2>1, <3>1 DEF Good, Flow
      <3>3. tagged[vol[p]] \subseteq disks[vol[p]]
        BY <1>0 DEF TagsOnDisks
      <3>4. AtHand(p)'
        BY <1>0, <2>1, <3>1, <3>3 DEF Good, AtHand, Creating, Deleting, Assigning, Rest, Differing
      <3>5. Passed(p)'
        BY <3>1 DEF Good, Passed
      <3> QED BY <3>2, <3>4, <3>5 DEF Good
    <2> QED BY <1>3, <2>1, ErrorKeeps DEF ListForAssign, Running
  <1>4. CASE UpdateTag(p)
    <2>1. ASSUME NEW n \in todo[p], NEW held \in Held(vol[p], n),
                 Issue(p, IF n = name[p] THEN "tag" ELSE "untag"),
                 cur' = [cur EXCEPT ![p] = held],
                 todo' = [todo EXCEPT ![p] = @ \ {n}],
                 UNCHANGED <<snap, seen>>
          PROVE  Good(p)'
      <3>1. /\ pc[p] = "update" /\ pc'[p] = "wait" /\ pend[p] = "none"
            /\ pend'[p] = (IF n = name[p] THEN "tag" ELSE "untag")
            /\ cur'[p] = held /\ todo'[p] = todo[p] \ {n}
            /\ held \in Names
            /\ UNCHANGED <<disks, tagged, cmd, vol, name, snap, seen, calm>>
        BY <1>0, <1>4, <2>1, HeldDisks DEF UpdateTag, Issue, Goto, cloud, TypeOK, Running
      <3>2. Flow(p)'
        BY <1>0, <3>1 DEF Good, Flow
      <3>3. ASSUME vol[p] \in calm[p] PROVE held = n
        <4>1. n \in disks[vol[p]]
          BY <3>1, <3>3 DEF Good, AtHand, Assigning, Rest
        <4> QED BY <1>0, <2>1, <4>1, HeldAlone
      <3>4. ASSUME vol[p] \in calm[p] PROVE Rest(p)' = Rest(p)
        BY <3>1, <3>3, <3>4 DEF Rest
      <3>5. AtHand(p)'
        BY <3>1, <3>3, <3>4 DEF Good, AtHand, Creating, Deleting, Assigning
      <3>6. Passed(p)'
        BY <3>1 DEF Good, Passed
      <3> QED BY <3>2, <3>5, <3>6 DEF Good
    <2> QED BY <1>4, <2>1, ErrorKeeps DEF UpdateTag, Running
  <1>5. CASE AssignDone(p)
    <2>1. /\ pc[p] = "update" /\ pend[p] = "none" /\ todo[p] = {}
          /\ UNCHANGED <<disks, tagged, cmd, snap, todo, seen, pend, calm>>
      BY <1>0, <1>5 DEF AssignDone, cloud, Running
    <2>2. vol[p] \in calm[p] => tagged[vol[p]] = {name[p]} /\ name[p] \in Names
      BY <1>0, <2>1 DEF Good, AtHand, Assigning, Rest, Flow
    <2>3. CASE cmd[p] = "bootstrap" /\ vol[p] < NumVolumes
      <3>1. pc'[p] = "recheck" /\ vol'[p] = vol[p] + 1
        BY <1>5, <2>3 DEF AssignDone, Goto, TypeOK
      <3>2. Flow(p)'
        BY <2>1, <2>3, <3>1 DEF Flow
      <3>3. AtHand(p)'
        BY <2>1, <2>3, <3>1 DEF AtHand, Creating, Deleting, Assigning
      <3>4. Passed(p)'
        BY <1>0, <2>1, <2>2, <2>3, <3>1 DEF Good, Passed, OneAssigned, Volumes
      <3> QED BY <3>2, <3>3, <3>4 DEF Good
    <2>4. CASE ~(cmd[p] = "bootstrap" /\ vol[p] < NumVolumes)
      <3>1. pc'[p] = "ok" /\ vol'[p] = vol[p] /\ name'[p] = name[p]
        BY <1>5, <2>4 DEF AssignDone, Goto, TypeOK
      <3>2. Flow(p)'
        BY <2>1, <3>1 DEF Flow
      <3>3. AtHand(p)'
        BY <2>1, <2>2, <3>1 DEF AtHand, Creating, Deleting, Assigning
      <3>4. Passed(p)'
        BY <1>0, <2>1, <2>2, <2>4, <3>1, VolumeAssumption DEF Good, Passed, OneAssigned, Volumes
      <3> QED BY <3>2, <3>3, <3>4 DEF Good
    <2> QED BY <2>3, <2>4
  <1>6. CASE CheckAndDelete(p)
    BY <1>0, <1>6, ErrorKeeps, GotoKeeps DEF CheckAndDelete, cloud, Running
  <1>7. CASE IssueDelete(p)
    <2>1. /\ pc[p] = "delete" /\ pc'[p] = "wait" /\ pend[p] = "none" /\ pend'[p] = "delete"
          /\ UNCHANGED <<disks, tagged, cmd, vol, name, cur, snap, todo, seen, calm>>
      BY <1>0, <1>7 DEF IssueDelete, Issue, Goto, cloud, TypeOK, Running
    <2>2. Flow(p)'
      BY <2>1 DEF Good, Flow
    <2>3. AtHand(p)'
      BY <2>1 DEF Good, Flow, AtHand, Creating, Deleting, Assigning
    <2>4. Passed(p)'
      BY <2>1 DEF Good, Flow, Passed
    <2> QED BY <2>2, <2>3, <2>4 DEF Good
  <1>8. CASE Gather(p)
    <2>1. /\ pc[p] = "gather" /\ pend[p] = "none"
          /\ seen'[p] = [seen[p] EXCEPT ![vol[p]] = tagged[vol[p]]]
          /\ UNCHANGED <<disks, tagged, cmd, name, cur, snap, todo, pend, calm>>
      BY <1>0, <1>8 DEF Gather, cloud, TypeOK, Running
    <2>2. /\ seen'[p][vol[p]] = tagged[vol[p]]
          /\ \A v \in Volumes \ {vol[p]} : seen'[p][v] = seen[p][v]
      BY <1>0, <2>1 DEF TypeOK
    <2>3. cmd[p] \in {"bootstrap", "deploy"}
      BY <2>1 DEF Good, Flow
    <2>4. CASE vol[p] < NumVolumes
      <3>1. pc'[p] = "gather" /\ vol'[p] = vol[p] + 1
        BY <1>8, <2>4 DEF Gather, Goto, TypeOK
      <3>2. Flow(p)'
        BY <2>1, <2>3, <3>1 DEF Flow
      <3>3. AtHand(p)'
        BY <2>1, <2>3, <3>1 DEF AtHand, Creating, Deleting, Assigning
      <3>4. ASSUME NEW v \in calm'[p], v < vol'[p]
            PROVE  seen'[p][v] = tagged'[v]
        <4>1. v \in Volumes /\ (v < vol[p] \/ v = vol[p])
          BY <1>0, <2>1, <3>1, <3>4 DEF Volumes
        <4> QED BY <2>1, <2>2, <3>4, <4>1 DEF Good, Passed
      <3>5. Passed(p)'
        BY <2>1, <2>3, <3>1, <3>4 DEF Passed
      <3> QED BY <3>2, <3>3, <3>5 DEF Good
    <2>5. CASE ~(vol[p] < NumVolumes)
      <3>1. /\ vol'[p] = 1
            /\ pc'[p] = (IF cmd[p] = "deploy" THEN "apply" ELSE "decide")
        BY <1>8, <2>5 DEF Gather, Goto, TypeOK
      <3>2. Flow(p)'
        BY <2>1, <2>3, <3>1 DEF Flow
      <3>3. AtHand(p)'
        BY <2>1, <2>3, <3>1 DEF AtHand, Creating, Deleting, Assigning
      <3>4. ASSUME NEW v \in calm'[p]
            PROVE  seen'[p][v] = tagged'[v]
        <4>1. v \in Volumes /\ (v < vol[p] \/ v = vol[p])
          BY <1>0, <2>1, <2>5, VolumeAssumption DEF Volumes
        <4> QED BY <2>1, <2>2, <3>4, <4>1 DEF Good, Passed
      <3>5. Passed(p)'
        BY <2>1, <2>3, <3>1, <3>4 DEF Passed
      <3> QED BY <3>2, <3>3, <3>5 DEF Good
    <2> QED BY <2>4, <2>5
  <1>9. CASE Decide(p)
    <2>1. vol[p] = 1 /\ pc[p] = "decide" /\ pend[p] = "none"
      BY <1>0, <1>9 DEF Good, Flow, Decide, Running
    <2>2. PICK l \in {"recheck", "ok", "failed"} :
            /\ Goto(p, l)
            /\ l = "ok" => \A v \in Volumes : OneAssigned(seen[p][v])
      BY <1>9 DEF Decide
    <2> QED BY <1>9, <2>1, <2>2, GotoKeeps DEF Decide, cloud
  <1>10. CASE Recheck(p)
    BY <1>0, <1>10, ErrorKeeps, GotoKeeps DEF Recheck, cloud, Running
  <1>11. CASE Apply(p)
    BY <1>0, <1>11, ErrorKeeps, GotoKeeps DEF Apply, Running
  <1>12. CASE ListForSnapshot(p)
    <2>1. CASE snap[p] \in Listed(vol[p]) /\ snap[p] # None
      BY <1>12, <2>1, ErrorKeeps DEF ListForSnapshot, Running
    <2>2. CASE ~(snap[p] \in Listed(vol[p]) /\ snap[p] # None)
      <3>1. /\ pc[p] = "snaplist" /\ pc'[p] = "source" /\ pend[p] = "none"
            /\ UNCHANGED <<disks, tagged, cmd, vol, name, cur, todo, seen, pend, calm>>
        BY <1>0, <1>12, <2>2 DEF ListForSnapshot, Goto, cloud, TypeOK, Running
      <3>2. snap'[p] \in SnapNames
        <4>1. CASE snap[p] # None
          <5>1. snap[p] \in SnapNames
            BY <4>1, Local
          <5> QED BY <1>12, <2>2, <4>1, <5>1 DEF ListForSnapshot
        <4>2. CASE snap[p] = None
          BY <1>12, <4>2 DEF ListForSnapshot, TypeOK
        <4> QED BY <4>1, <4>2
      <3>3. cmd[p] = "snapshot"
        BY <3>1 DEF Good, Flow
      <3>4. Flow(p)'
        BY <3>1, <3>2, <3>3 DEF Flow
      <3>5. AtHand(p)'
        BY <3>1, <3>3 DEF AtHand, Creating, Deleting, Assigning
      <3>6. Passed(p)'
        BY <3>1, <3>3 DEF Passed
      <3> QED BY <3>4, <3>5, <3>6 DEF Good
    <2> QED BY <2>1, <2>2
  <1>13. CASE ChooseSource(p)
    <2>1. CASE Error(p)
      BY <1>13, <2>1, ErrorKeeps DEF ChooseSource, Running
    <2>2. CASE ~Error(p)
      <3>1. /\ pc[p] = "source" /\ pc'[p] = "wait" /\ pend[p] = "none" /\ pend'[p] = "snapshot"
            /\ cur'[p] \in Names
            /\ UNCHANGED <<disks, tagged, cmd, vol, name, snap, todo, seen, calm>>
        BY <1>0, <1>13, <2>2 DEF ChooseSource, Issue, Goto, cloud, TypeOK, Running
      <3>2. cmd[p] = "snapshot"
        BY <3>1 DEF Good, Flow
      <3>3. Flow(p)'
        BY <3>1, <3>2 DEF Good, Flow
      <3>4. AtHand(p)'
        BY <3>1, <3>2 DEF AtHand, Creating, Deleting, Assigning
      <3>5. Passed(p)'
        BY <3>1, <3>2 DEF Passed
      <3> QED BY <3>3, <3>4, <3>5 DEF Good
    <2> QED BY <2>1, <2>2
  <1>14. CASE IssueSnapshotDelete(p)
    <2>1. /\ pc[p] = "unsnap" /\ pc'[p] = "wait" /\ pend[p] = "none" /\ pend'[p] = "unsnapshot"
          /\ UNCHANGED <<disks, tagged, cmd, vol, name, cur, snap, todo, seen, calm>>
      BY <1>0, <1>14 DEF IssueSnapshotDelete, Issue, Goto, cloud, TypeOK, Running
    <2>2. cmd[p] = "unsnapshot"
      BY <2>1 DEF Good, Flow
    <2>3. Flow(p)'
      BY <2>1, <2>2 DEF Good, Flow
    <2>4. AtHand(p)'
      BY <2>1, <2>2 DEF AtHand, Creating, Deleting, Assigning
    <2>5. Passed(p)'
      BY <2>1, <2>2 DEF Passed
    <2> QED BY <2>3, <2>4, <2>5 DEF Good
  <1> QED BY <1>1, <1>2, <1>3, <1>4, <1>5, <1>6, <1>7, <1>8, <1>9, <1>10,
             <1>11, <1>12, <1>13, <1>14 DEF Step
\* What a landing does to p's own variables.
LEMMA OwnLanded ==
  ASSUME TypeOK, NEW p \in Ops, Flow(p), NEW next, Landed(p, next), pend[p] # "none"
  PROVE  /\ pend'[p] = "none"
         /\ \/ pc[p] = "wait" /\ pc'[p] = next
            \/ pc[p] = "failed" /\ pc'[p] = "failed"
         /\ calm'[p] = calm[p]
         /\ UNCHANGED <<cmd, vol, name, cur, snap, todo, seen>>
  <1>1. pc[p] \in {"wait", "failed"}
    BY DEF Flow
  <1>2. \/ pc[p] = "wait" /\ pc'[p] = next
        \/ pc[p] = "failed" /\ pc'[p] = "failed"
    BY <1>1 DEF TypeOK, Landed
  <1>3. pend'[p] = "none" /\ calm'[p] = calm[p]
    BY DEF TypeOK, Landed
  <1> QED BY <1>2, <1>3 DEF Landed

\* A write of p that lands is what p goes on from.
LEMMA LandKeeps ==
  ASSUME TypeOK, TagsOnDisks, OneDiskEach, NEW p \in Ops, Good(p), Land(p)
  PROVE  Good(p)'
  <1>0. /\ vol[p] \in Volumes
        /\ calm[p] \subseteq Volumes
        /\ tagged[vol[p]] \subseteq Names
        /\ Flow(p)
    BY Local DEF Good
  <1>1. CASE LandCreate(p)
    <2>1. /\ pend[p] = "create" /\ pend'[p] = "none"
          /\ \/ pc[p] = "wait" /\ pc'[p] = (IF cmd[p] = "bootstrap" THEN "assign" ELSE "ok")
             \/ pc[p] = "failed" /\ pc'[p] = "failed"
          /\ calm'[p] = calm[p]
          /\ UNCHANGED <<cmd, vol, name, cur, snap, todo, seen>>
          /\ name[p] \in Names
      BY <1>0, <1>1, OwnLanded DEF LandCreate, Flow
    <2>2. /\ tagged'[vol[p]] \subseteq tagged[vol[p]]
          /\ \A v \in Volumes \ {vol[p]} : tagged'[v] = tagged[v]
      BY <1>0, <1>1 DEF LandCreate, TypeOK
    <2>3. cmd[p] \in {"create", "bootstrap"}
      BY <1>0, <2>1 DEF Flow
    <2>4. Flow(p)'
      BY <2>1, <2>3 DEF Flow
    <2>5. AtHand(p)'
      BY <2>1, <2>2, <2>3 DEF Good, AtHand, Creating, Deleting, Assigning
    <2>6. Passed(p)'
      BY <1>0, <2>1, <2>2, <2>3 DEF Good, Passed, Volumes
    <2> QED BY <2>4, <2>5, <2>6 DEF Good
  <1>2. CASE LandTag(p)
    <2>1. /\ pend[p] \in {"tag", "untag"} /\ pend'[p] = "none"
          /\ \/ pc[p] = "wait" /\ pc'[p] = "update"
             \/ pc[p] = "failed" /\ pc'[p] = "failed"
          /\ calm'[p] = calm[p]
          /\ UNCHANGED <<cmd, vol, name, cur, snap, todo, seen>>
      BY <1>0, <1>2, OwnLanded DEF LandTag
    <2>2. \A v \in Volumes \ {vol[p]} : tagged'[v] = tagged[v]
      BY <1>0, <1>2 DEF LandTag, TypeOK
    <2>3. cmd[p] \in {"assign", "bootstrap"} /\ name[p] \in Names /\ cur[p] \in Names
      BY <1>0, <2>1 DEF Flow
    <2>4. ASSUME vol[p] \in calm[p]
          PROVE  /\ disks' = disks
                 /\ tagged'[vol[p]] = (IF pend[p] = "tag" THEN tagged[vol[p]] \cup {cur[p]}
                                      ELSE tagged[vol[p]] \ {cur[p]})
                 /\ pend[p] = "tag" => cur[p] = name[p]
                 /\ pend[p] = "untag" => cur[p] # name[p]
      <3>1. cur[p] \in disks[vol[p]]
        BY <2>1, <2>4 DEF Good, AtHand, Assigning, Rest
      <3>2. Held(vol[p], cur[p]) = {cur[p]} /\ disks' = disks
        BY <1>0, <1>2, <3>1, HeldAlone, RenameItself DEF LandTag
      <3> QED BY <1>0, <1>2, <2>1, <2>4, <3>2 DEF LandTag, TypeOK, Good, AtHand
    <2>5. Flow(p)'
      BY <2>1, <2>3 DEF Flow
    <2>6. AtHand(p)'
      BY <2>1, <2>3, <2>4 DEF Good, AtHand, Creating, Deleting, Assigning, Rest
    <2>7. Passed(p)'
      BY <1>0, <2>1, <2>2, <2>3 DEF Good, Passed, Volumes
    <2> QED BY <2>5, <2>6, <2>7 DEF Good
  <1>3. CASE LandDelete(p)
    <2>1. /\ pend[p] = "delete" /\ pend'[p] = "none" /\ pc'[p] \in {"ok", "failed"}
          /\ calm'[p] = calm[p]
          /\ UNCHANGED <<cmd, vol, name, cur, snap, todo, seen>>
      BY <1>0, <1>3, OwnLanded DEF LandDelete
    <2>2. cmd[p] = "delete"
      BY <1>0, <2>1 DEF Flow
    <2>3. Flow(p)'
      BY <2>1, <2>2 DEF Flow
    <2>4. AtHand(p)'
      BY <2>1, <2>2 DEF AtHand, Creating, Deleting, Assigning
    <2>5. Passed(p)'
      BY <2>1, <2>2 DEF Passed
    <2> QED BY <2>3, <2>4, <2>5 DEF Good
  <1>4. CASE LandSnapshot(p) \/ LandSnapshotDelete(p)
    <2>1. /\ pend[p] \in {"snapshot", "unsnapshot"} /\ pend'[p] = "none"
          /\ pc'[p] \in {"ok", "failed"}
          /\ UNCHANGED <<cmd, vol, name, cur, snap, todo, seen>>
      BY <1>0, <1>4, OwnLanded DEF LandSnapshot, LandSnapshotDelete
    <2>2. cmd[p] \in {"snapshot", "unsnapshot"}
      BY <1>0, <2>1 DEF Flow
    <2>3. Flow(p)'
      BY <2>1, <2>2 DEF Flow
    <2>4. AtHand(p)'
      BY <2>1, <2>2 DEF AtHand, Creating, Deleting, Assigning
    <2>5. Passed(p)'
      BY <2>1, <2>2 DEF Passed
    <2> QED BY <2>3, <2>4, <2>5 DEF Good
  <1>5. CASE Reject(p)
    <2>1. /\ pend[p] # "none" /\ pend'[p] = "none" /\ pc'[p] = "failed"
          /\ UNCHANGED <<cmd, vol>>
      BY <1>0, <1>5 DEF Reject, Flow, TypeOK
    <2>2. Flow(p)' /\ AtHand(p)' /\ Passed(p)'
      BY <2>1 DEF Flow, AtHand, Passed, Creating, Deleting, Assigning
    <2> QED BY <2>2 DEF Good
  <1> QED BY <1>1, <1>2, <1>3, <1>4, <1>5 DEF Land

\* The assigned tag never outlives its disk, and a resource keeps one disk.
LEMMA NextOnDisks ==
  TypeOK /\ TagsOnDisks /\ OneDiskEach /\ (\A p \in Ops : Flow(p)) /\ [Next]_vars
    => TagsOnDisks' /\ OneDiskEach'
  <1> SUFFICES ASSUME TypeOK, TagsOnDisks, OneDiskEach, \A p \in Ops : Flow(p), [Next]_vars
               PROVE  TagsOnDisks' /\ OneDiskEach'
    OBVIOUS
  <1>1. ASSUME UNCHANGED <<disks, tagged>> PROVE TagsOnDisks' /\ OneDiskEach'
    BY <1>1 DEF TagsOnDisks, OneDiskEach
  <1>2. ASSUME NEW w \in Volumes, NEW n \in Names,
               \A v \in Volumes \ {w} : disks'[v] = disks[v] /\ tagged'[v] = tagged[v],
               \/ disks'[w] = (disks[w] \ Held(w, n)) \cup {n}
               \/ disks'[w] = disks[w] \ Held(w, n),
               tagged'[w] \subseteq disks'[w]
        PROVE  TagsOnDisks' /\ OneDiskEach'
    <2>1. TagsOnDisks'
      BY <1>2 DEF TagsOnDisks
    <2>2. ASSUME NEW v \in Volumes, NEW k \in disks'[v], NEW m \in disks'[v],
                 AzureName[v][k] = AzureName[v][m]
          PROVE  k = m
      <3>1. CASE v # w
        BY <1>2, <2>2, <3>1 DEF OneDiskEach
      <3>2. CASE v = w
        <4>1. \A i \in disks'[v] : i = n \/ (i \in disks[v] /\ AzureName[v][i] # AzureName[v][n])
          BY <1>2, <3>2 DEF Held, SameResource
        <4> QED BY <2>2, <4>1 DEF OneDiskEach
      <3> QED BY <3>1, <3>2
    <2> QED BY <2>1, <2>2 DEF OneDiskEach
  <1>3. ASSUME NEW p \in Ops, Land(p) PROVE TagsOnDisks' /\ OneDiskEach'
    <2>0. vol[p] \in Volumes /\ Flow(p)
      BY Local
    <2>1. CASE LandCreate(p)
      <3>1. name[p] \in Names
        BY <2>0, <2>1 DEF LandCreate, Flow
      <3>2. /\ disks' = [disks EXCEPT ![vol[p]] = (@ \ Held(vol[p], name[p])) \cup {name[p]}]
            /\ tagged' = [tagged EXCEPT ![vol[p]] = @ \ (Held(vol[p], name[p]) \cup {name[p]})]
        <4>1. CASE Held(vol[p], name[p]) = {}
          <5>1. disks[vol[p]] \ Held(vol[p], name[p]) = disks[vol[p]]
            BY <4>1
          <5> QED BY <2>1, <4>1, <5>1 DEF LandCreate, TypeOK
        <4>2. CASE Held(vol[p], name[p]) # {}
          BY <2>1, <4>2 DEF LandCreate, Rename
        <4> QED BY <4>1, <4>2
      <3>3. /\ disks'[vol[p]] = (disks[vol[p]] \ Held(vol[p], name[p])) \cup {name[p]}
            /\ tagged'[vol[p]] = tagged[vol[p]] \ (Held(vol[p], name[p]) \cup {name[p]})
            /\ \A v \in Volumes \ {vol[p]} : disks'[v] = disks[v] /\ tagged'[v] = tagged[v]
        BY <2>0, <3>2 DEF TypeOK
      <3>4. tagged'[vol[p]] \subseteq disks'[vol[p]]
        BY <2>0, <3>3 DEF TagsOnDisks
      <3> QED BY <1>2, <2>0, <3>1, <3>3, <3>4
    <2>2. CASE LandTag(p)
      <3>1. cur[p] \in Names
        BY <2>0, <2>2 DEF LandTag, Flow
      <3>3. /\ disks'[vol[p]] = (disks[vol[p]] \ Held(vol[p], cur[p])) \cup {cur[p]}
            /\ tagged'[vol[p]] \subseteq (tagged[vol[p]] \ Held(vol[p], cur[p])) \cup {cur[p]}
            /\ \A v \in Volumes \ {vol[p]} : disks'[v] = disks[v] /\ tagged'[v] = tagged[v]
        BY <2>0, <2>2 DEF LandTag, Rename, TypeOK
      <3>4. tagged'[vol[p]] \subseteq disks'[vol[p]]
        BY <2>0, <3>3 DEF TagsOnDisks
      <3> QED BY <1>2, <2>0, <3>1, <3>3, <3>4
    <2>3. CASE LandDelete(p)
      <3>1. name[p] \in Names
        BY <2>0, <2>3 DEF LandDelete, Flow
      <3>3. /\ disks'[vol[p]] = disks[vol[p]] \ Held(vol[p], name[p])
            /\ tagged'[vol[p]] = tagged[vol[p]] \ Held(vol[p], name[p])
            /\ \A v \in Volumes \ {vol[p]} : disks'[v] = disks[v] /\ tagged'[v] = tagged[v]
        BY <2>0, <2>3 DEF LandDelete, TypeOK
      <3>4. tagged'[vol[p]] \subseteq disks'[vol[p]]
        BY <2>0, <3>3 DEF TagsOnDisks
      <3> QED BY <1>2, <2>0, <3>1, <3>3, <3>4
    <2>4. CASE LandSnapshot(p) \/ LandSnapshotDelete(p) \/ Reject(p)
      BY <1>1, <2>4 DEF LandSnapshot, LandSnapshotDelete, Reject, cloud
    <2> QED BY <1>3, <2>1, <2>2, <2>3, <2>4 DEF Land
  <1>4. ASSUME NEW p \in Ops, Begin(p) \/ Step(p) \/ Fail(p) PROVE TagsOnDisks' /\ OneDiskEach'
    BY <1>1, <1>4, OnlyLandingsWrite
  <1>5. CASE UNCHANGED vars
    BY <1>1, <1>5 DEF vars, cloud
  <1> QED BY <1>3, <1>4, <1>5 DEF Next

\* No step of any invocation, and nothing the cloud does, breaks the invariant.
LEMMA NextInv == TypeOK /\ Inv /\ [Next]_vars => Inv'
  <1> SUFFICES ASSUME TypeOK, Inv, [Next]_vars, NEW p \in Ops
               PROVE  Good(p)'
    BY NextOnDisks DEF Inv, Good
  <1>0. Good(p) /\ TagsOnDisks /\ OneDiskEach
    BY DEF Inv, Good
  <1>1. CASE UNCHANGED vars
    BY <1>0, <1>1, Frame DEF vars, cloud, ops
  <1>2. ASSUME NEW q \in Ops \ {p}, Begin(q) \/ Step(q) \/ Land(q) \/ Fail(q)
        PROVE  Good(p)'
    BY <1>0, <1>2, OtherKeeps
  <1>3. ASSUME Begin(p) \/ Step(p) \/ Land(p) \/ Fail(p)
        PROVE  Good(p)'
    BY <1>0, <1>3, BeginKeeps, StepKeeps, LandKeeps, ErrorKeeps DEF Fail
  <1> QED BY <1>1, <1>2, <1>3 DEF Next

-----------------------------------------------------------------------------
(* The theorems.                                                             *)

\* Every reachable state is well typed: disks, tags and every invocation's
\* variables, with no bound on the disks created or the invocations started.
THEOREM TypeCorrect == Spec => []TypeOK
  <1>1. Init => TypeOK /\ Inv
    BY InitTypeOK, InitInv
  <1>2. TypeOK /\ Inv /\ [Next]_vars => (TypeOK /\ Inv)'
    BY NextTypeOK, NextInv
  <1> QED BY <1>1, <1>2, PTL DEF Spec

\* At every control point an invocation's knowledge of the volumes nobody else
\* has written is still right.
THEOREM InvHolds == Spec => []Inv
  <1>1. Init => TypeOK /\ Inv
    BY InitTypeOK, InitInv
  <1>2. TypeOK /\ Inv /\ [Next]_vars => (TypeOK /\ Inv)'
    BY NextTypeOK, NextInv
  <1> QED BY <1>1, <1>2, PTL DEF Spec

\* DiskAssign: an assign that succeeds leaves its disk as the only assigned one
\* of the volume, whatever it found and whatever had failed before.
THEOREM AssignSettlesHolds == Spec => []AssignSettles
  <1>1. Inv => AssignSettles
    BY DEF Inv, AtHand, AssignSettles
  <1> QED BY <1>1, InvHolds, PTL

\* DiskCreateBootstrap: success means exactly one assigned disk per volume, for
\* any number of volumes.
THEOREM BootstrapSettlesHolds == Spec => []BootstrapSettles
  <1>1. Inv => BootstrapSettles
    BY DEF Inv, Passed, BootstrapSettles
  <1> QED BY <1>1, InvHolds, PTL

\* A command that settles the assignment has settled it when it succeeds
\* (volume_backend_disk.go:266, disk_create_bootstrap.go:45).
THEOREM CommandsSettleHolds == Spec => []CommandsSettle
  BY AssignSettlesHolds, BootstrapSettlesHolds, PTL DEF CommandsSettle

-----------------------------------------------------------------------------
(* The action properties follow from the invariant in the state before the   *)
(* step.                                                                     *)

\* A landing that takes an assigned tag away.
LEMMA LandRevokes ==
  ASSUME TypeOK, Inv, NEW p \in Ops, Land(p),
         NEW v \in Volumes, NEW n \in tagged[v] \ tagged'[v]
  PROVE  /\ Lands(p, v)
         /\ v \in calm[p] => \/ cmd[p] = "assign" /\ name[p] # n
                             \/ TakesOver(p, v, n)
  <1>0. /\ vol[p] \in Volumes /\ Flow(p) /\ AtHand(p) /\ OneDiskEach
        /\ n \in Names /\ n \in disks[v]
    BY Local DEF Inv, TagsOnDisks, TypeOK
  <1>1. CASE LandCreate(p)
    <2>1. /\ v = vol[p] /\ n \in Held(v, name[p]) \cup {name[p]}
          /\ pend[p] = "create" /\ pend'[p] = "none"
      BY <1>0, <1>1 DEF LandCreate, Landed, TypeOK
    <2>2. ASSUME v \in calm[p]
          PROVE  cmd[p] = "create" /\ name[p] # n /\ n \in Held(v, name[p])
      BY <1>0, <2>1, <2>2 DEF AtHand, Creating, Flow
    <2>3. v \in calm[p] => TakesOver(p, v, n)
      BY <1>0, <2>2 DEF TakesOver, Held, SameResource
    <2> QED BY <2>1, <2>3 DEF Lands
  <1>2. CASE LandTag(p)
    <2>1. /\ v = vol[p] /\ n \in Held(v, cur[p])
          /\ pend[p] \in {"tag", "untag"} /\ pend'[p] = "none"
          /\ pend[p] = "tag" => n # cur[p]
      BY <1>0, <1>2 DEF LandTag, Landed, TypeOK
    <2>2. ASSUME v \in calm[p]
          PROVE  pend[p] = "untag" /\ n = cur[p] /\ cur[p] # name[p] /\ cmd[p] = "assign"
      <3>1. cur[p] \in disks[v]
        BY <1>0, <2>1, <2>2 DEF AtHand, Assigning, Rest
      <3>2. n = cur[p] /\ pend[p] = "untag"
        BY <1>0, <2>1, <3>1, HeldAlone
      <3>3. cur[p] # name[p] /\ cmd[p] # "bootstrap"
        BY <1>0, <2>1, <2>2, <3>2 DEF AtHand, Assigning
      <3> QED BY <1>0, <3>2, <3>3 DEF Flow
    <2> QED BY <2>1, <2>2 DEF Lands
  <1>3. CASE LandDelete(p)
    <2>1. v = vol[p] /\ n \in Held(v, name[p]) /\ pend[p] = "delete" /\ pend'[p] = "none"
      BY <1>0, <1>3 DEF LandDelete, Landed, TypeOK
    <2>2. v \notin calm[p]
      BY <1>0, <2>1, HeldAlone DEF AtHand, Deleting
    <2> QED BY <2>1, <2>2 DEF Lands
  <1>4. CASE LandSnapshot(p) \/ LandSnapshotDelete(p) \/ Reject(p)
    BY <1>4 DEF LandSnapshot, LandSnapshotDelete, Reject, cloud
  <1> QED BY <1>1, <1>2, <1>3, <1>4 DEF Land

\* Nothing but an assign of another disk takes the assigned flag from a disk:
\* delete and bootstrap never do on a volume left to them, and a create only when
\* the names of the two disks are cut to one (naming.go:47).
THEOREM OnlyAssignRevokesHolds == Spec => OnlyAssignRevokes
  <1>1. TypeOK /\ Inv /\ [Next]_vars =>
          [\A v \in Volumes : \A n \in tagged[v] \ tagged'[v] :
             \E p \in Ops : /\ Lands(p, v)
                            /\ v \in calm[p] => \/ cmd[p] = "assign" /\ name[p] # n
                                                \/ TakesOver(p, v, n)]_vars
    BY LandRevokes, OnlyLandingsWrite DEF Next
  <1> QED BY <1>1, TypeCorrect, InvHolds, PTL DEF Spec, OnlyAssignRevokes

\* DiskCreate never takes over an existing disk.
THEOREM CreateIsFreshHolds == Spec => CreateIsFresh
  <1>1. Inv =>
          [\A p \in Ops : /\ pend[p] = "create" /\ clock' # clock
                          /\ vol[p] \in calm[p]
                          /\ Lands(p, vol[p])
             => name[p] \notin disks[vol[p]]]_vars
    BY DEF Inv, AtHand, Creating
  <1> QED BY <1>1, InvHolds, PTL DEF CreateIsFresh

\* What one command made or assigned no other one takes over by accident
\* (volume_backend_disk.go:99 and 297, disk_delete.go:53).
THEOREM DisksKeptHolds == Spec => DisksKept
  BY OnlyAssignRevokesHolds, CreateIsFreshHolds, PTL DEF DisksKept

\* Deploy binds every volume to the disk that is its only assigned one at the
\* moment of the apply, although the disks were read volume by volume before.
THEOREM DeployBindsAssignedHolds == Spec => DeployBindsAssigned
  <1>1. ASSUME TypeOK, Inv, NEW p \in Ops, NEW q \in Ops,
               Begin(q) \/ Step(q) \/ Land(q) \/ Fail(q),
               pc[p] = "apply", pc'[p] = "ok", NEW v \in calm[p]
        PROVE  tagged[v] = {mount'[v]}
    <2>1. q = p
      BY <1>1, OnlyLandingsWrite, OtherLand DEF Untouched
    <2>2. pend[p] = "none"
      BY <1>1 DEF Inv, Flow
    <2>3. Apply(p) /\ ~Error(p)
      BY <1>1, <2>1, <2>2
      DEF TypeOK, Begin, BeginCreate, BeginAssign, BeginDelete, BeginBootstrap,
          BeginDeploy, BeginSnapshot, BeginSnapshotDelete, Start, Ended, Step,
          ListForCreate, PutDisk, ListForAssign, UpdateTag, AssignDone,
          CheckAndDelete, IssueDelete, Gather, Decide, Recheck, ListForSnapshot,
          ChooseSource, IssueSnapshotDelete, Land, LandCreate, LandTag,
          LandDelete, LandSnapshot, LandSnapshotDelete, Reject, Fail, Error, Goto
    <2>4. v \in Volumes /\ seen[p][v] = tagged[v]
      BY <1>1, Local DEF Inv, Passed
    <2>5. mount'[v] = (CHOOSE n \in tagged[v] : TRUE) /\ OneAssigned(tagged[v])
      BY <2>3, <2>4 DEF Apply
    <2> QED BY <2>5 DEF OneAssigned
  <1>2. TypeOK /\ Inv /\ [Next]_vars =>
          [\A p \in Ops : pc[p] = "apply" /\ pc'[p] = "ok" =>
             \A v \in calm[p] : tagged[v] = {mount'[v]}]_vars
    BY <1>1 DEF Next
  <1> QED BY <1>2, TypeCorrect, InvHolds, PTL DEF Spec, DeployBindsAssigned

-----------------------------------------------------------------------------
(* Dates.  A disk is as old as the landing that created it, and an assign    *)
(* updates the newest of what is left.                                       *)

\* Nothing is created yet.
LEMMA InitDates == Init => InvOfDates
  BY VolumesAreNumbers DEF Init, InvOfDates, Dates, NewestFirst, NoneSeen

\* A disk is renamed: it keeps its date.
LEMMA RenameDates ==
  ASSUME TypeOK, OneDiskEach, Dates, NEW w \in Volumes, NEW m \in Names, Rename(w, m),
         clock' \in {clock, clock + 1}
  PROVE  Dates'
  <1>1. PICK held \in Held(w, m) : created' = [created EXCEPT ![w][m] = created[w][held]]
    BY DEF Rename
  <1>2. held \in disks[w] /\ held \in Names /\ clock \in Nat
    BY <1>1, HeldDisks DEF TypeOK
  <1>3. Held(w, m) = {held}
    BY <1>1, <1>2 DEF OneDiskEach, Held, SameResource
  <1>4. /\ disks'[w] = (disks[w] \ {held}) \cup {m}
        /\ \A v \in Volumes \ {w} : disks'[v] = disks[v] /\ created'[v] = created[v]
    BY <1>1, <1>3 DEF Rename, TypeOK
  <1>5. /\ created'[w][m] = created[w][held]
        /\ \A n \in Names \ {m} : created'[w][n] = created[w][n]
        /\ \A v \in Volumes, n \in Names : created[v][n] \in Nat
    BY <1>1, <1>2 DEF TypeOK
  <1>6. disks[w] \subseteq Names
    BY DEF TypeOK
  <1>7. ASSUME NEW v \in Volumes
        PROVE  /\ \A n \in Names : created'[v][n] <= clock'
               /\ \A n \in disks'[v] : created'[v][n] > 0
               /\ \A k, n \in disks'[v] : created'[v][k] = created'[v][n] => k = n
    <2>1. CASE v # w
      BY <1>2, <1>4, <1>5, <2>1 DEF Dates
    <2>2. CASE v = w
      <3>1. \A n \in Names : created'[w][n] <= clock'
        BY <1>2, <1>5 DEF Dates
      <3>2. \A n \in disks'[w] : created'[w][n] > 0
        BY <1>2, <1>4, <1>5, <1>6 DEF Dates
      <3>3. ASSUME NEW k \in disks'[w], NEW n \in disks'[w], created'[w][k] = created'[w][n]
            PROVE  k = n
        <4>1. CASE k # m /\ n # m
          BY <1>4, <1>5, <1>6, <3>3, <4>1 DEF Dates
        <4>2. CASE k = m /\ n # m
          BY <1>2, <1>4, <1>5, <1>6, <3>3, <4>2 DEF Dates
        <4>3. CASE k # m /\ n = m
          BY <1>2, <1>4, <1>5, <1>6, <3>3, <4>3 DEF Dates
        <4> QED BY <4>1, <4>2, <4>3
      <3> QED BY <2>2, <3>1, <3>2, <3>3
    <2> QED BY <2>1, <2>2
  <1> QED BY <1>7 DEF Dates

\* Only a disk that lands gets a date, and it is later than all others.
LEMMA NextDates ==
  ASSUME TypeOK, Inv, Dates, NEW p \in Ops, Begin(p) \/ Step(p) \/ Land(p) \/ Fail(p)
  PROVE  Dates'
  <1>0. /\ vol[p] \in Volumes /\ OneDiskEach /\ Flow(p)
        /\ clock \in Nat
    BY Local DEF Inv, TypeOK
  <1>1. ASSUME UNCHANGED <<created, clock>>, \A v \in Volumes : disks'[v] \subseteq disks[v]
        PROVE  Dates'
    BY <1>1 DEF Dates
  <1>2. CASE LandCreate(p)
    <2>1. name[p] \in Names /\ clock' = clock + 1
      BY <1>0, <1>2 DEF LandCreate, Flow
    <2>2. CASE Held(vol[p], name[p]) # {}
      BY <1>0, <1>2, <2>1, <2>2, RenameDates DEF LandCreate
    <2>3. CASE Held(vol[p], name[p]) = {}
      <3> DEFINE w == vol[p]
                 m == name[p]
      <3>1. /\ disks' = [disks EXCEPT ![w] = @ \cup {m}]
            /\ created' = [created EXCEPT ![w][m] = clock + 1]
        BY <1>2, <2>3 DEF LandCreate
      <3>2. /\ disks'[w] = disks[w] \cup {m}
            /\ created'[w][m] = clock + 1
            /\ \A v \in Volumes \ {w} : disks'[v] = disks[v]
            /\ \A v \in Volumes, n \in Names :
                 created[v][n] \in Nat /\ (v # w \/ n # m => created'[v][n] = created[v][n])
        BY <1>0, <2>1, <3>1 DEF TypeOK
      <3>3. w \in Volumes /\ m \in Names
        BY <1>0, <2>1
      <3> HIDE DEF w, m
      <3>4. ASSUME NEW v \in Volumes
            PROVE  /\ \A n \in Names : created'[v][n] <= clock'
                   /\ \A n \in disks'[v] : created'[v][n] > 0
                   /\ \A k, n \in disks'[v] : created'[v][k] = created'[v][n] => k = n
        <4>1. disks[v] \subseteq Names
          BY DEF TypeOK
        <4>2. /\ \A n \in Names : created[v][n] <= clock
              /\ \A n \in disks[v] : created[v][n] > 0
              /\ \A k, n \in disks[v] : created[v][k] = created[v][n] => k = n
          BY DEF Dates
        <4>3. \A n \in Names : created'[v][n] <= clock'
          BY <1>0, <2>1, <3>2, <4>2
        <4>4. \A n \in disks'[v] : created'[v][n] > 0
          BY <1>0, <3>2, <4>1, <4>2
        <4>5. ASSUME NEW k \in disks'[v], NEW n \in disks'[v], created'[v][k] = created'[v][n]
              PROVE  k = n
          BY <1>0, <3>2, <4>1, <4>2, <4>5
        <4> QED BY <4>3, <4>4, <4>5
      <3> QED BY <3>4 DEF Dates
    <2> QED BY <2>2, <2>3
  <1>3. CASE LandTag(p)
    <2>1. cur[p] \in Names /\ clock' = clock
      BY <1>0, <1>3 DEF LandTag, Flow
    <2> QED BY <1>0, <1>3, <2>1, RenameDates DEF LandTag
  <1>4. CASE LandDelete(p) \/ LandSnapshot(p) \/ LandSnapshotDelete(p) \/ Reject(p)
    <2>1. UNCHANGED <<created, clock>>
      BY <1>4 DEF LandDelete, LandSnapshot, LandSnapshotDelete, Reject, cloud
    <2>2. \A v \in Volumes : disks'[v] \subseteq disks[v]
      <3>1. CASE UNCHANGED disks
        BY <3>1
      <3>2. CASE LandDelete(p)
        BY <3>2 DEF LandDelete, TypeOK
      <3> QED BY <1>4, <3>1, <3>2 DEF LandSnapshot, LandSnapshotDelete, Reject, cloud
    <2> QED BY <1>1, <2>1, <2>2
  <1>5. CASE Begin(p) \/ Step(p) \/ Fail(p)
    <2>1. UNCHANGED <<disks, created, clock>>
      BY <1>5, OnlyLandingsWrite
    <2> QED BY <1>1, <2>1
  <1> QED BY <1>2, <1>3, <1>4, <1>5 DEF Land

\* NewestFirst(p) depends on p's own variables and on the dates of a calm volume.
LEMMA FrameDates ==
  ASSUME TypeOK, NEW p \in Ops, NewestFirst(p),
         vol'[p] = vol[p], cur'[p] = cur[p], todo'[p] = todo[p], pend'[p] = pend[p],
         calm'[p] \subseteq calm[p],
         \A v \in calm'[p] : created'[v] = created[v]
  PROVE  NewestFirst(p)'
  BY DEF NewestFirst

\* UpdateTag takes the first of the list.
LEMMA UpdateTagDates ==
  ASSUME TypeOK, Inv, NEW p \in Ops, UpdateTag(p), ~Error(p)
  PROVE  NewestFirst(p)'
  <1>1. PICK n \in todo[p] :
          /\ IsFirst(vol[p], n, todo[p])
          /\ cur'[p] \in Held(vol[p], n) /\ todo'[p] = todo[p] \ {n}
          /\ UNCHANGED <<vol, created, calm>>
    BY DEF UpdateTag, Issue, TypeOK, cloud
  <1>2. ASSUME vol[p] \in calm[p] PROVE cur'[p] = n
    <2>1. n \in disks[vol[p]] /\ vol[p] \in Volumes
      BY <1>1, <1>2, Local DEF UpdateTag, Inv, AtHand, Assigning, Rest
    <2> QED BY <1>1, <2>1, HeldAlone DEF Inv
  <1> QED BY <1>1, <1>2 DEF NewestFirst, IsFirst

\* A step of p that issues no tag update leaves nothing to compare.
LEMMA OwnDates ==
  ASSUME TypeOK, Inv, NEW p \in Ops, NewestFirst(p),
         Begin(p) \/ Step(p) \/ Land(p) \/ Fail(p)
  PROVE  NewestFirst(p)'
  <1>1. ASSUME pend'[p] \notin {"tag", "untag"} PROVE NewestFirst(p)'
    BY <1>1 DEF NewestFirst
  <1>2. ASSUME Error(p) PROVE NewestFirst(p)'
    BY <1>2, FrameDates DEF Error, cloud
  <1>3. CASE Begin(p)
    BY <1>1, <1>3 DEF Begin, BeginCreate, BeginAssign, BeginDelete, BeginBootstrap,
                      BeginDeploy, BeginSnapshot, BeginSnapshotDelete, Start
  <1>4. CASE Land(p)
    BY <1>1, <1>4 DEF Land, LandCreate, LandTag, LandDelete, LandSnapshot,
                      LandSnapshotDelete, Reject, Landed, TypeOK
  <1>5. CASE Fail(p)
    BY <1>2, <1>5 DEF Fail
  <1>6. CASE UpdateTag(p)
    BY <1>2, <1>6, UpdateTagDates
  <1>7. CASE Step(p) /\ ~UpdateTag(p)
    <2>1. pend[p] = "none"
      BY <1>7 DEF Inv, Flow, Step, ListForCreate, PutDisk, ListForAssign, AssignDone, CheckAndDelete,
                  IssueDelete, Gather, Decide, Recheck, Apply, ListForSnapshot, ChooseSource,
                  IssueSnapshotDelete
    <2>2. CASE ListForCreate(p) \/ ListForAssign(p) \/ AssignDone(p) \/ CheckAndDelete(p)
               \/ Gather(p) \/ Decide(p) \/ Recheck(p) \/ Apply(p) \/ ListForSnapshot(p)
      BY <1>1, <2>1, <2>2
      DEF ListForCreate, ListForAssign, AssignDone, CheckAndDelete, Gather, Decide, Recheck, Apply,
          ListForSnapshot, Error
    <2>3. CASE PutDisk(p) \/ IssueDelete(p) \/ ChooseSource(p) \/ IssueSnapshotDelete(p)
      <3>1. pend' \in {pend, [pend EXCEPT ![p] = "create"], [pend EXCEPT ![p] = "delete"],
                       [pend EXCEPT ![p] = "snapshot"], [pend EXCEPT ![p] = "unsnapshot"]}
        BY <2>3 DEF PutDisk, IssueDelete, ChooseSource, IssueSnapshotDelete, Issue, Error
      <3> QED BY <1>1, <2>1, <3>1 DEF TypeOK
    <2> QED BY <1>7, <2>2, <2>3 DEF Step
  <1> QED BY <1>3, <1>4, <1>5, <1>6, <1>7

\* The dates stay right, and every running assign goes from new to old.
LEMMA NextInvOfDates == TypeOK /\ Inv /\ InvOfDates /\ [Next]_vars => InvOfDates'
  <1> SUFFICES ASSUME TypeOK, Inv, InvOfDates, [Next]_vars PROVE InvOfDates'
    OBVIOUS
  <1>1. CASE UNCHANGED vars
    BY <1>1 DEF vars, cloud, ops, InvOfDates, Dates, NewestFirst
  <1>2. ASSUME NEW q \in Ops, Begin(q) \/ Step(q) \/ Land(q) \/ Fail(q)
        PROVE  InvOfDates'
    <2>1. Dates'
      BY <1>2, NextDates DEF InvOfDates
    <2>2. ASSUME NEW p \in Ops PROVE NewestFirst(p)'
      <3>1. CASE p = q
        BY <1>2, <3>1, OwnDates DEF InvOfDates
      <3>2. CASE p # q
        <4>1. CASE Land(q)
          BY <3>2, <4>1, OtherLand, FrameDates DEF InvOfDates, Untouched
        <4>2. CASE ~Land(q)
          BY <1>2, <3>2, <4>2, OnlyLandingsWrite, FrameDates DEF InvOfDates, Untouched
        <4> QED BY <4>1, <4>2
      <3> QED BY <3>1, <3>2
    <2> QED BY <2>1, <2>2 DEF InvOfDates
  <1> QED BY <1>1, <1>2 DEF Next

\* An assign takes the last assigned tag away: its own disk, yet to be tagged, is
\* older, because the list goes from new to old.
LEMMA LastTagGoes ==
  ASSUME TypeOK, Inv, InvOfDates, NEW p \in Ops, Land(p), NEW v \in Volumes,
         tagged[v] # {}, tagged'[v] = {}, v \in calm[p]
  PROVE  /\ Lands(p, v)
         /\ \E n \in tagged[v] : \/ created[v][name[p]] < created[v][n]
                                 \/ TakesOver(p, v, n)
  <1>1. PICK n \in tagged[v] : TRUE
    OBVIOUS
  <1>2. CASE TakesOver(p, v, n)
    BY <1>1, <1>2, LandRevokes
  <1>3. CASE ~TakesOver(p, v, n)
    <2>1. Lands(p, v) /\ cmd[p] = "assign" /\ name[p] # n /\ v = vol[p]
      BY <1>1, <1>3, LandRevokes DEF Lands
    <2>2. \A m \in tagged[v] : name[p] # m
      BY <2>1, LandRevokes DEF TakesOver
    <2>3. LandTag(p) /\ n \in Held(v, cur[p]) /\ pend[p] = "untag"
      <3>1. LandTag(p)
        <4>1. pend[p] \notin {"create", "delete", "snapshot", "unsnapshot"} /\ tagged' # tagged
          BY <2>1 DEF Inv, Flow
        <4> QED BY <4>1 DEF Land, LandCreate, LandDelete, LandSnapshot, LandSnapshotDelete, Reject,
                            cloud
      <3>2. tagged'[v] = (tagged[v] \ Held(v, cur[p]))
                            \cup (IF pend[p] = "tag" THEN {cur[p]} ELSE {})
        BY <2>1, <3>1 DEF LandTag, TypeOK
      <3> QED BY <1>1, <3>1, <3>2 DEF LandTag
    <2>4. cur[p] \in disks[v] /\ cur[p] # name[p]
      BY <2>1, <2>3 DEF Inv, AtHand, Assigning, Rest
    <2>5. cur[p] = n
      BY <2>3, <2>4, HeldAlone DEF Inv
    <2>6. name[p] \in Names /\ n \in Names
      BY <1>1, <2>3 DEF Inv, Flow, TypeOK
    <2>7. name[p] \in todo[p] /\ name[p] \in disks[v]
      BY <2>1, <2>2, <2>3, <2>5, <2>6 DEF Inv, AtHand, Assigning, Rest
    <2>8. created[v][name[p]] <= created[v][n]
      BY <2>1, <2>3, <2>5, <2>7 DEF InvOfDates, NewestFirst
    <2>9. created[v][name[p]] # created[v][n]
      BY <2>1, <2>4, <2>5, <2>7 DEF InvOfDates, Dates
    <2>10. created[v][name[p]] \in Nat /\ created[v][n] \in Nat
      BY <2>6 DEF TypeOK
    <2> QED BY <1>1, <2>1, <2>8, <2>9, <2>10
  <1> QED BY <1>2, <1>3

\* DiskAssign never leaves the volume without an assigned disk on the way to the newest
\* one (volume_backend_disk.go:266): with any number of disks, and in whatever state
\* earlier commands left them.  Only a create whose name is cut to that of the assigned
\* disk does (naming.go:47).
THEOREM SwitchToNewestKeepsOneHolds == Spec => SwitchToNewestKeepsOne
  <1>1. Init => TypeOK /\ Inv /\ InvOfDates
    BY InitTypeOK, InitInv, InitDates
  <1>2. TypeOK /\ Inv /\ InvOfDates /\ [Next]_vars => (TypeOK /\ Inv /\ InvOfDates)'
    BY NextTypeOK, NextInv, NextInvOfDates
  <1>3. ASSUME TypeOK, Inv, InvOfDates, Next, NEW v \in Volumes, tagged[v] # {}, tagged'[v] = {}
        PROVE  \E p \in Ops : /\ Lands(p, v)
                              /\ v \in calm[p] =>
                                   \E n \in tagged[v] : \/ created[v][name[p]] < created[v][n]
                                                        \/ TakesOver(p, v, n)
    <2>1. PICK n \in tagged[v] : n \notin tagged'[v]
      BY <1>3
    <2>2. PICK p \in Ops : Land(p)
      BY <1>3, OnlyLandingsWrite DEF Next
    <2>3. Lands(p, v)
      BY <1>3, <2>1, <2>2, LandRevokes
    <2> QED BY <1>3, <2>2, <2>3, LastTagGoes
  <1>4. TypeOK /\ Inv /\ InvOfDates /\ [Next]_vars =>
          [\A v \in Volumes : tagged[v] # {} /\ tagged'[v] = {} =>
             \E p \in Ops : /\ Lands(p, v)
                            /\ v \in calm[p] =>
                                 \E n \in tagged[v] : \/ created[v][name[p]] < created[v][n]
                                                      \/ TakesOver(p, v, n)]_vars
    BY <1>3
  <1> QED BY <1>1, <1>2, <1>4, PTL DEF Spec, SwitchToNewestKeepsOne

-----------------------------------------------------------------------------
(* The disk tagged last, with one invocation at a time: an assign tags its   *)
(* disk after the newer ones and before the older ones, so the newest tag is *)
(* always the last one.                                                      *)

\* Only an invocation that begins changes what Alone(p) is about.
LEMMA NextAlone ==
  ASSUME TypeOK, NEW p \in Ops, Ops = {p}, Inv, Alone(p), [Next]_vars
  PROVE  Alone(p)'
  <1>1. CASE UNCHANGED vars
    BY <1>1 DEF vars, ops, Alone
  <1>2. ASSUME NEW c, NEW l, NEW v, NEW n, NEW d, NEW s, Start(p, c, l, v, n, d, s),
               c = "bootstrap" => n = None
        PROVE  Alone(p)'
    BY <1>2 DEF Start, TypeOK, Alone
  <1>3. CASE Begin(p)
    BY <1>2, <1>3 DEF Begin, BeginCreate, BeginAssign, BeginDelete, BeginBootstrap,
                      BeginDeploy, BeginSnapshot, BeginSnapshotDelete
  <1>4. CASE Step(p)
    <2>1. pc[p] \notin Ended
      BY <1>4 DEF Step, ListForCreate, PutDisk, ListForAssign, UpdateTag, AssignDone, CheckAndDelete,
                  IssueDelete, Gather, Decide, Recheck, Apply, ListForSnapshot, ChooseSource,
                  IssueSnapshotDelete, Ended
    <2>2. calm' = calm /\ cmd' = cmd
      BY <1>4 DEF Step, ListForCreate, PutDisk, ListForAssign, UpdateTag, AssignDone, CheckAndDelete,
                  IssueDelete, Gather, Decide, Recheck, Apply, ListForSnapshot, ChooseSource,
                  IssueSnapshotDelete, Issue, Error
    <2>3. pc'[p] \in {"gather", "decide"} => pc[p] = "gather" /\ name' = name
      BY <1>4 DEF Step, ListForCreate, PutDisk, ListForAssign, UpdateTag, AssignDone, CheckAndDelete,
                  IssueDelete, Gather, Decide, Recheck, Apply, ListForSnapshot, ChooseSource,
                  IssueSnapshotDelete, Issue, Error, Goto, TypeOK
    <2> QED BY <2>1, <2>2, <2>3 DEF Alone, Ended
  <1>5. CASE Land(p)
    <2>1. pend[p] # "none" /\ name' = name /\ cmd' = cmd
      BY <1>5 DEF Land, LandCreate, LandTag, LandDelete, LandSnapshot, LandSnapshotDelete, Reject, Landed
    <2>2. calm'[p] = calm[p]
      BY <1>5 DEF Land, LandCreate, LandTag, LandDelete, LandSnapshot, LandSnapshotDelete, Reject, Landed,
                  TypeOK
    <2>3. pc'[p] \notin {"gather", "decide"}
      <3>1. pc[p] \in {"wait", "failed"}
        BY <2>1 DEF Inv, Flow
      <3> QED BY <1>5, <3>1 DEF Land, LandCreate, LandTag, LandDelete, LandSnapshot, LandSnapshotDelete,
                                Reject, Landed, TypeOK
    <2> QED BY <2>1, <2>2, <2>3 DEF Alone
  <1>6. CASE Fail(p)
    BY <1>6 DEF Fail, Error, Goto, Alone, TypeOK, Running
  <1> QED BY <1>1, <1>3, <1>4, <1>5, <1>6 DEF Next

\* A step that neither dates nor tags a disk, and may take tags away.
LEMMA LatestKept ==
  ASSUME LatestFirst, UNCHANGED latest,
         \A v \in Volumes : tagged'[v] \subseteq tagged[v],
         \A v \in Volumes : \A n \in tagged'[v] : created'[v][n] = created[v][n]
  PROVE  LatestFirst'
  <1> SUFFICES ASSUME NEW v \in Volumes, latest[v] \in tagged'[v], NEW m \in tagged'[v]
               PROVE  created'[v][m] <= created'[v][latest[v]]
    BY DEF LatestFirst, IsFirst
  <1> QED BY DEF LatestFirst, IsFirst

\* The disk at hand of an assign is tagged when only older ones are left to do.
LEMMA NextLatest ==
  ASSUME TypeOK, Inv, InvOfDates, LatestFirst, NEW p \in Ops, Alone(p),
         Begin(p) \/ Step(p) \/ Land(p) \/ Fail(p)
  PROVE  LatestFirst'
  <1>0. /\ vol[p] \in Volumes /\ Flow(p) /\ AtHand(p) /\ OneDiskEach
        /\ Land(p) => vol[p] \in calm[p]
    BY Local DEF Inv, Alone, Land, LandCreate, LandTag, LandDelete, LandSnapshot,
                 LandSnapshotDelete, Reject
  <1>1. CASE UNCHANGED <<latest, tagged, created>>
    BY <1>1, LatestKept
  <1>2. CASE Begin(p) \/ Step(p) \/ Fail(p)
    BY <1>1, <1>2, OnlyLandingsWrite
  <1>3. CASE LandSnapshot(p) \/ LandSnapshotDelete(p) \/ Reject(p)
    BY <1>1, <1>3 DEF LandSnapshot, LandSnapshotDelete, Reject, cloud
  <1>4. CASE LandDelete(p)
    <2>1. \A v \in Volumes : tagged'[v] \subseteq tagged[v]
      BY <1>4 DEF LandDelete, TypeOK
    <2> QED BY <1>4, <2>1, LatestKept DEF LandDelete
  <1>5. CASE LandCreate(p)
    <2>1. /\ \A v \in Volumes : tagged'[v] \subseteq tagged[v]
          /\ name[p] \notin tagged'[vol[p]]
          /\ name[p] \in Names /\ latest' = latest
      BY <1>0, <1>5 DEF LandCreate, Flow, TypeOK
    <2>2. \A v \in Volumes, n \in Names :
            v # vol[p] \/ n # name[p] => created'[v][n] = created[v][n]
      BY <1>0, <1>5, <2>1 DEF LandCreate, Rename, TypeOK
    <2>3. \A v \in Volumes : \A n \in tagged'[v] : created'[v][n] = created[v][n]
      BY <2>1, <2>2 DEF TypeOK
    <2> QED BY <2>1, <2>3, LatestKept
  <1>6. CASE LandTag(p)
    <2> DEFINE w == vol[p]
               n == cur[p]
    <2>1. n \in disks[w] /\ w \in calm[p] /\ n \in Names
      <3>1. pend[p] \in {"tag", "untag"} /\ w \in calm[p]
        BY <1>0, <1>6 DEF LandTag, Land
      <3>2. n \in disks[w]
        BY <1>0, <3>1 DEF AtHand, Assigning, Rest
      <3> QED BY <1>0, <3>1, <3>2 DEF TypeOK
    <2>2. Held(w, n) = {n} /\ created' = created
      BY <1>0, <1>6, <2>1, HeldAlone, RenameItself DEF LandTag
    <2>3. tagged' = [tagged EXCEPT ![w] = (@ \ {n}) \cup (IF pend[p] = "tag" THEN {n} ELSE {})]
      BY <1>6, <2>2 DEF LandTag
    <2>4. CASE pend[p] = "untag"
      <3>1. latest' = latest /\ \A v \in Volumes : tagged'[v] \subseteq tagged[v]
        BY <1>6, <2>3, <2>4 DEF LandTag, TypeOK
      <3> QED BY <2>2, <3>1, LatestKept
    <2>5. CASE pend[p] = "tag"
      <3>1. /\ latest'[w] = n /\ tagged'[w] = tagged[w] \cup {n}
            /\ \A v \in Volumes \ {w} : latest'[v] = latest[v] /\ tagged'[v] = tagged[v]
        BY <1>0, <1>6, <2>3, <2>5 DEF LandTag, TypeOK
      <3>2. n = name[p]
        BY <1>0, <2>1, <2>5 DEF AtHand
      <3>3. ASSUME NEW m \in tagged[w], m # n PROVE created[w][m] <= created[w][n]
        <4>1. m \in Names
          BY <1>0 DEF TypeOK
        <4>2. m \in todo[p]
          BY <1>0, <2>1, <2>5, <3>2, <3>3, <4>1 DEF AtHand, Assigning, Rest
        <4> QED BY <2>1, <2>5, <4>2 DEF InvOfDates, NewestFirst
      <3>4. created[w][n] <= created[w][n]
        BY <1>0, <2>1 DEF TypeOK
      <3>5. \A m \in tagged'[w] : created'[w][m] <= created'[w][n]
        BY <2>2, <3>1, <3>3, <3>4
      <3>6. ASSUME NEW v \in Volumes \ {w}, latest'[v] \in tagged'[v], NEW m \in tagged'[v]
            PROVE  created'[v][m] <= created'[v][latest'[v]]
        BY <2>2, <3>1, <3>6 DEF LatestFirst, IsFirst
      <3> QED BY <3>1, <3>5, <3>6 DEF LatestFirst, IsFirst
    <2> QED BY <1>6, <2>4, <2>5 DEF LandTag
  <1> QED BY <1>2, <1>3, <1>4, <1>5, <1>6 DEF Land

\* Nothing has been tagged yet.
LEMMA InitLatest == ASSUME NEW p \in Ops, Ops = {p} PROVE Init => LatestFirst /\ Alone(p)
  BY DEF Init, LatestFirst, NoneSeen, Alone

\* SnapshotCreate without a source (volume_backend_disk.go:446): with one invocation at
\* a time the first of several assigned disks is the one assigned last, whatever earlier
\* commands left half-way.
THEOREM SnapshotTakesLatestHolds ==
  ASSUME NEW only \in Ops, Ops = {only}
  PROVE  Spec => SnapshotTakesLatest
  <1>1. Init => TypeOK /\ Inv /\ InvOfDates /\ LatestFirst /\ Alone(only)
    BY InitTypeOK, InitInv, InitDates, InitLatest
  <1>2. TypeOK /\ Inv /\ InvOfDates /\ LatestFirst /\ Alone(only) /\ [Next]_vars
          => TypeOK' /\ Inv' /\ InvOfDates' /\ LatestFirst' /\ Alone(only)'
    <2> SUFFICES ASSUME TypeOK, Inv, InvOfDates, LatestFirst, Alone(only), [Next]_vars
                 PROVE  TypeOK' /\ Inv' /\ InvOfDates' /\ LatestFirst' /\ Alone(only)'
      OBVIOUS
    <2>1. CASE UNCHANGED vars
      BY <2>1, LatestKept, NextTypeOK, NextInv, NextInvOfDates, NextAlone DEF vars, cloud
    <2>2. CASE Next
      BY <2>2, NextLatest, NextTypeOK, NextInv, NextInvOfDates, NextAlone DEF Next
    <2> QED BY <2>1, <2>2
  <1>3. ASSUME TypeOK, Inv, InvOfDates, LatestFirst,
               Begin(only) \/ Step(only) \/ Land(only) \/ Fail(only),
               pc[only] = "source", cur[only] = None, pc'[only] = "wait",
               latest[vol[only]] \in tagged[vol[only]]
        PROVE  cur'[only] = latest[vol[only]]
    <2>1. pend[only] = "none"
      BY <1>3 DEF Inv, Flow
    <2>2. ChooseSource(only) /\ ~Error(only)
      BY <1>3, <2>1
      DEF TypeOK, Begin, BeginCreate, BeginAssign, BeginDelete, BeginBootstrap,
          BeginDeploy, BeginSnapshot, BeginSnapshotDelete, Start, Ended, Step,
          ListForCreate, PutDisk, ListForAssign, UpdateTag, AssignDone,
          CheckAndDelete, IssueDelete, Gather, Decide, Recheck, Apply, ListForSnapshot,
          IssueSnapshotDelete, Land, LandCreate, LandTag,
          LandDelete, LandSnapshot, LandSnapshotDelete, Reject, Fail, Error, Goto
    <2> DEFINE v == vol[only]
    <2>3. v \in Volumes
      BY <1>3, Local
    <2>4. PICK n \in tagged[v] : IsFirst(v, n, tagged[v]) /\ cur' = [cur EXCEPT ![only] = n]
      BY <1>3, <2>2 DEF ChooseSource
    <2>5. /\ cur'[only] = n /\ n \in disks[v] /\ latest[v] \in disks[v]
          /\ n \in Names /\ latest[v] \in Names
      BY <1>3, <2>3, <2>4 DEF TypeOK, Inv, TagsOnDisks
    <2>6. created[v][n] <= created[v][latest[v]] /\ created[v][latest[v]] <= created[v][n]
      BY <1>3, <2>3, <2>4 DEF LatestFirst, IsFirst
    <2>7. created[v][n] \in Nat /\ created[v][latest[v]] \in Nat
      BY <1>3, <2>3, <2>5 DEF TypeOK
    <2>8. created[v][n] = created[v][latest[v]]
      <3> HIDE DEF v
      <3> QED BY <2>6, <2>7
    <2> QED BY <1>3, <2>3, <2>5, <2>8 DEF InvOfDates, Dates
  <1>4. TypeOK /\ Inv /\ InvOfDates /\ LatestFirst /\ [Next]_vars =>
          [\A p \in Ops : /\ pc[p] = "source" /\ cur[p] = None /\ pc'[p] = "wait"
                          /\ latest[vol[p]] \in tagged[vol[p]]
             => cur'[p] = latest[vol[p]]]_vars
    <2>1. ASSUME TypeOK, Inv, InvOfDates, LatestFirst, Next, NEW q \in Ops,
                 pc[q] = "source", cur[q] = None, pc'[q] = "wait", latest[vol[q]] \in tagged[vol[q]]
          PROVE  cur'[q] = latest[vol[q]]
      <3>1. q = only /\ (Begin(only) \/ Step(only) \/ Land(only) \/ Fail(only))
        BY <2>1 DEF Next
      <3> QED BY <1>3, <2>1, <3>1
    <2> QED BY <2>1
  <1> QED BY <1>1, <1>2, <1>4, PTL DEF Spec, SnapshotTakesLatest

-----------------------------------------------------------------------------
(* The refinement of VolumeAssignment, for one invocation at a time.         *)

\* What VolumeAssignment sees of the only invocation.
Sees(p, v) == Switching(p, v) \/ SettledBy(p, v)

\* The goal of a volume is the disk of the invocation that switches it.
LEMMA GoalIsName ==
  ASSUME NEW p \in Ops, Ops = {p}, NEW v
  PROVE  Goal(v) = IF Sees(p, v) THEN name[p] ELSE None
  <1>1. Switcher(v) = IF Sees(p, v) THEN {p} ELSE {}
    BY DEF Switcher, Sees
  <1> QED BY <1>1 DEF Goal

LEMMA GoalIsNameNext ==
  ASSUME NEW p \in Ops, Ops = {p}, NEW v
  PROVE  Goal(v)' = IF Sees(p, v)' THEN name'[p] ELSE None
  <1>1. Switcher(v)' = IF Sees(p, v)' THEN {p} ELSE {}
    BY DEF Switcher, Sees
  <1> QED BY <1>1 DEF Goal

\* What is seen is about the volume at hand, and names a disk.
LEMMA SeesOne ==
  ASSUME TypeOK, NEW p \in Ops, Flow(p), NEW v, Sees(p, v)
  PROVE  v = vol[p] /\ v \in Volumes /\ name[p] \in Names /\ name[p] # None
  BY VolumeAssumption DEF TypeOK, Flow, Sees, Switching, SettledBy

\* Nothing is seen of the step: a stutter.
LEMMA Stutter ==
  ASSUME NEW p \in Ops, Ops = {p}, UNCHANGED <<disks, tagged>>,
         \A v \in Volumes :
           /\ Sees(p, v)' <=> Sees(p, v)
           /\ SettledBy(p, v)' <=> SettledBy(p, v)
           /\ Sees(p, v) => name'[p] = name[p]
  PROVE  UNCHANGED Promise!vars
  <1>1. [v \in Volumes |-> Goal(v)]' = [v \in Volumes |-> Goal(v)]
    BY GoalIsName, GoalIsNameNext
  <1>2. {v \in Volumes : \E q \in Ops : SettledBy(q, v)}' =
        {v \in Volumes : \E q \in Ops : SettledBy(q, v)}
    OBVIOUS
  <1> QED BY <1>1, <1>2 DEF Promise!vars

\* The switch or its report is over: Leave.
LEMMA IsLeave ==
  ASSUME TypeOK, NEW p \in Ops, Ops = {p}, Flow(p), UNCHANGED <<disks, tagged>>,
         NEW w, Sees(p, w), \A v \in Volumes : ~Sees(p, v)'
  PROVE  Promise!Next
  <1>1. /\ w \in Volumes /\ name[p] # None
        /\ \A v \in Volumes : Sees(p, v) => v = w
    BY SeesOne
  <1>2. /\ [v \in Volumes |-> Goal(v)][w] # None
        /\ [v \in Volumes |-> Goal(v)]' = [[v \in Volumes |-> Goal(v)] EXCEPT ![w] = None]
    BY <1>1, GoalIsName, GoalIsNameNext
  <1>3. {v \in Volumes : \E q \in Ops : SettledBy(q, v)}' =
        {v \in Volumes : \E q \in Ops : SettledBy(q, v)} \ {w}
    BY <1>1 DEF Sees
  <1> QED BY <1>1, <1>2, <1>3 DEF Promise!Next, Promise!Leave

\* An assign that has listed its disk: Choose.
LEMMA IsChoose ==
  ASSUME TypeOK, NEW p \in Ops, Ops = {p}, Flow(p), ListForAssign(p), name[p] \in disks[vol[p]]
  PROVE  Promise!Next
  <1> DEFINE w == vol[p]
  <1>1. /\ pc[p] = "assign" /\ pc'[p] = "update" /\ pend[p] = "none"
        /\ UNCHANGED <<disks, tagged, vol, name, pend>>
        /\ w \in Volumes /\ name[p] \in Names
    BY DEF ListForAssign, Goto, TypeOK, Flow, cloud
  <1>2. \A v \in Volumes : /\ ~Sees(p, v)
                           /\ Sees(p, v)' <=> v = w
                           /\ ~SettledBy(p, v) /\ ~SettledBy(p, v)'
    BY <1>1 DEF Sees, Switching, SettledBy
  <1>3. /\ [v \in Volumes |-> Goal(v)][w] = None
        /\ [v \in Volumes |-> Goal(v)]' = [[v \in Volumes |-> Goal(v)] EXCEPT ![w] = name[p]]
    BY <1>1, <1>2, GoalIsName, GoalIsNameNext
  <1>4. {v \in Volumes : \E q \in Ops : SettledBy(q, v)}' =
        {v \in Volumes : \E q \in Ops : SettledBy(q, v)}
    BY <1>2
  <1> QED BY <1>1, <1>3, <1>4 DEF Promise!Next, Promise!Choose

\* An assign that has nothing left to update: Complete.
LEMMA IsComplete ==
  ASSUME TypeOK, NEW p \in Ops, Ops = {p}, Flow(p), AtHand(p), vol[p] \in calm[p],
         AssignDone(p), ~(cmd[p] = "bootstrap" /\ vol[p] < NumVolumes)
  PROVE  Promise!Next
  <1> DEFINE w == vol[p]
  <1>1. /\ pc[p] = "update" /\ pc'[p] = "ok" /\ pend[p] = "none" /\ todo[p] = {}
        /\ UNCHANGED <<disks, tagged, cmd, vol, name, pend>>
        /\ w \in Volumes /\ name[p] \in Names /\ name[p] # None
        /\ cmd[p] \in {"assign", "bootstrap"}
    BY VolumeAssumption DEF AssignDone, Goto, TypeOK, Flow, cloud
  <1>2. \A v \in Volumes : /\ Sees(p, v) <=> v = w
                           /\ Sees(p, v)' <=> v = w
                           /\ ~SettledBy(p, v)
                           /\ SettledBy(p, v)' <=> v = w
    BY <1>1 DEF Sees, Switching, SettledBy
  <1>3. /\ [v \in Volumes |-> Goal(v)][w] = name[p]
        /\ [v \in Volumes |-> Goal(v)]' = [v \in Volumes |-> Goal(v)]
    BY <1>1, <1>2, GoalIsName, GoalIsNameNext
  <1>4. {v \in Volumes : \E q \in Ops : SettledBy(q, v)}' =
        {v \in Volumes : \E q \in Ops : SettledBy(q, v)} \cup {w}
    BY <1>1, <1>2
  <1>5. tagged[w] = {name[p]}
    <2>1. \A n \in Names : n \in tagged[w] <=> n = name[p]
      BY <1>1 DEF AtHand, Assigning, Rest
    <2> QED BY <1>1, <2>1 DEF TypeOK
  <1> QED BY <1>1, <1>3, <1>4, <1>5 DEF Promise!Next, Promise!Complete

\* A tag update lands: Move, or nothing to see when the disk had no flag to lose.
LEMMA IsMove ==
  ASSUME TypeOK, OneDiskEach, NEW p \in Ops, Ops = {p}, Flow(p), AtHand(p), vol[p] \in calm[p],
         LandTag(p)
  PROVE  Promise!Next \/ UNCHANGED Promise!vars
  <1> DEFINE w == vol[p]
  <1>0. /\ disks' = disks
        /\ tagged' = [tagged EXCEPT ![w] = (@ \ {cur[p]}) \cup (IF pend[p] = "tag" THEN {cur[p]} ELSE {})]
    <2>1. cur[p] \in disks[w] /\ w \in Volumes
      BY Local DEF LandTag, AtHand, Assigning, Rest
    <2>2. Held(w, cur[p]) = {cur[p]} /\ disks' = disks
      BY <2>1, HeldAlone, RenameItself DEF LandTag
    <2> QED BY <2>2 DEF LandTag
  <1>1. /\ pend[p] \in {"tag", "untag"} /\ pend'[p] = "none"
        /\ pc[p] \in {"wait", "failed"}
        /\ pc'[p] = IF pc[p] = "wait" THEN "update" ELSE pc[p]
        /\ UNCHANGED <<disks, vol, name, cmd>>
        /\ w \in Volumes /\ name[p] \in Names /\ name[p] # None
        /\ pend[p] = "tag" => cur[p] = name[p]
        /\ pend[p] = "untag" => cur[p] # name[p]
    BY <1>0, VolumeAssumption DEF LandTag, Landed, TypeOK, Flow, AtHand
  <1>2. \A v \in Volumes : /\ Sees(p, v) <=> v = w
                           /\ Sees(p, v)' <=> v = w /\ pc[p] = "wait"
                           /\ ~SettledBy(p, v) /\ ~SettledBy(p, v)'
    BY <1>1 DEF Sees, Switching, SettledBy
  <1>3. {v \in Volumes : \E q \in Ops : SettledBy(q, v)}' =
        {v \in Volumes : \E q \in Ops : SettledBy(q, v)}
    BY <1>2
  <1>4. CASE pend[p] = "untag" /\ cur[p] \notin tagged[w]
    <2>1. tagged' = tagged
      BY <1>0, <1>1, <1>4 DEF TypeOK
    <2>2. CASE pc[p] = "wait"
      <3>1. \A v \in Volumes : Sees(p, v)' <=> Sees(p, v)
        BY <1>2, <2>2
      <3>2. \A v \in Volumes : SettledBy(p, v)' <=> SettledBy(p, v)
        BY <1>2
      <3> QED BY <1>1, <2>1, <3>1, <3>2, Stutter
    <2>3. CASE pc[p] = "failed"
      <3>1. Sees(p, w) /\ \A v \in Volumes : ~Sees(p, v)'
        BY <1>1, <1>2, <2>3
      <3> QED BY <1>1, <2>1, <3>1, IsLeave
    <2> QED BY <1>1, <2>2, <2>3
  <1>5. CASE ~(pend[p] = "untag" /\ cur[p] \notin tagged[w])
    <2> DEFINE g == [v \in Volumes |-> Goal(v)]
    <2>1. /\ g[w] = name[p]
          /\ g' = IF pc[p] = "wait" THEN g ELSE [g EXCEPT ![w] = None]
      BY <1>1, <1>2, GoalIsName, GoalIsNameNext
    <2>2. \/ tagged' = [tagged EXCEPT ![w] = @ \cup {g[w]}]
          \/ \E n \in tagged[w] \ {g[w]} : tagged' = [tagged EXCEPT ![w] = @ \ {n}]
      <3>1. w \in Volumes /\ pend[p] \in {"tag", "untag"}
        BY <1>1
      <3> HIDE DEF g, w
      <3>2. CASE pend[p] = "tag"
        <4>1. (tagged[w] \ {cur[p]}) \cup {cur[p]} = tagged[w] \cup {g[w]}
          BY <1>1, <2>1, <3>2
        <4> QED BY <1>0, <3>1, <3>2, <4>1 DEF TypeOK
      <3>3. CASE pend[p] = "untag"
        <4>1. (tagged[w] \ {cur[p]}) \cup {} = tagged[w] \ {cur[p]}
          OBVIOUS
        <4> QED BY <1>0, <1>1, <1>5, <2>1, <3>1, <3>3, <4>1 DEF TypeOK
      <3> QED BY <3>1, <3>2, <3>3
    <2>3. g' \in {g, [g EXCEPT ![w] = None]}
      BY <2>1
    <2>4. w \notin {v \in Volumes : \E q \in Ops : SettledBy(q, v)}
      BY <1>2
    <2>5. Promise!Move(w)
      BY <1>1, <1>3, <2>1, <2>2, <2>3, <2>4 DEF Promise!Move
    <2> QED BY <1>1, <2>5 DEF Promise!Next
  <1> QED BY <1>4, <1>5

\* A landing that is not about a switch shows nothing but the disks it changes.
LEMMA Unseen ==
  ASSUME TypeOK, NEW p \in Ops, Ops = {p}, Flow(p),
         UNCHANGED <<vol, name, cmd>>,
         pend[p] \notin {"tag", "untag"}, pend'[p] \notin {"tag", "untag"},
         pc[p] # "update", pc'[p] # "update",
         (pc[p] = "ok" \/ pc'[p] = "ok") => pc'[p] = pc[p] \/ cmd[p] \notin {"assign", "bootstrap"}
  PROVE  /\ UNCHANGED [v \in Volumes |-> Goal(v)]
         /\ UNCHANGED {v \in Volumes : \E q \in Ops : SettledBy(q, v)}
  <1>1. \A v \in Volumes : /\ Sees(p, v)' <=> Sees(p, v)
                           /\ SettledBy(p, v)' <=> SettledBy(p, v)
    BY DEF Sees, Switching, SettledBy
  <1> QED BY <1>1, GoalIsName, GoalIsNameNext

\* No two disk names are cut to one.
NamesApart == \A v \in Volumes, m, n \in Names : AzureName[v][m] = AzureName[v][n] => m = n

\* A disk is created: Add.
LEMMA IsAdd ==
  ASSUME NamesApart, TypeOK, TagsOnDisks, NEW p \in Ops, Ops = {p}, Flow(p), AtHand(p), vol[p] \in calm[p],
         LandCreate(p)
  PROVE  Promise!Next
  <1> DEFINE w == vol[p]
  <1>1. /\ pend[p] = "create" /\ pend'[p] = "none"
        /\ pc[p] \in {"wait", "failed"}
        /\ pc'[p] = IF pc[p] = "wait" THEN IF cmd[p] = "bootstrap" THEN "assign" ELSE "ok" ELSE pc[p]
        /\ UNCHANGED <<vol, name, cmd>>
        /\ w \in Volumes /\ name[p] \in Names
        /\ cmd[p] \in {"create", "bootstrap"}
        /\ name[p] \notin disks[w]
    BY DEF LandCreate, Landed, TypeOK, Flow, AtHand, Creating
  <1>2. /\ UNCHANGED [v \in Volumes |-> Goal(v)]
        /\ UNCHANGED {v \in Volumes : \E q \in Ops : SettledBy(q, v)}
    <2>1. (pc[p] = "ok" \/ pc'[p] = "ok") => cmd[p] \notin {"assign", "bootstrap"}
      BY <1>1
    <2>2. pc[p] # "update" /\ pc'[p] # "update"
      BY <1>1
    <2> QED BY <1>1, <2>1, <2>2, Unseen
  <1>3. Held(w, name[p]) = {}
    BY <1>1 DEF NamesApart, Held, SameResource, TypeOK
  <1>4. /\ disks' = [disks EXCEPT ![w] = @ \cup {name[p]}]
        /\ tagged' = tagged
    <2>1. tagged[w] \ (Held(w, name[p]) \cup {name[p]}) = tagged[w]
      BY <1>1, <1>3 DEF TagsOnDisks
    <2>2. tagged' = [tagged EXCEPT ![w] = tagged[w]]
      BY <2>1 DEF LandCreate
    <2> QED BY <1>1, <1>3, <2>2 DEF LandCreate, TypeOK
  <1>5. Promise!Add(w, name[p])
    BY <1>1, <1>2, <1>4 DEF Promise!Add
  <1> QED BY <1>1, <1>5 DEF Promise!Next

\* A disk is deleted: Remove.
LEMMA IsRemove ==
  ASSUME TypeOK, OneDiskEach, NEW p \in Ops, Ops = {p}, Flow(p), AtHand(p), vol[p] \in calm[p],
         LandDelete(p)
  PROVE  Promise!Next
  <1> DEFINE w == vol[p]
  <1>1. /\ pend[p] = "delete" /\ pend'[p] = "none"
        /\ pc[p] \in {"wait", "failed"}
        /\ pc'[p] = IF pc[p] = "wait" THEN "ok" ELSE pc[p]
        /\ UNCHANGED <<vol, name, cmd>>
        /\ w \in Volumes /\ name[p] \in Names
        /\ cmd[p] = "delete"
        /\ name[p] \in disks[w] \ tagged[w]
    BY DEF LandDelete, Landed, TypeOK, Flow, AtHand, Deleting
  <1>2. /\ UNCHANGED [v \in Volumes |-> Goal(v)]
        /\ UNCHANGED {v \in Volumes : \E q \in Ops : SettledBy(q, v)}
    <2>1. pc[p] # "update" /\ pc'[p] # "update"
      BY <1>1
    <2> QED BY <1>1, <2>1, Unseen
  <1>3. Held(w, name[p]) = {name[p]}
    BY <1>1, HeldAlone
  <1>4. /\ disks' = [disks EXCEPT ![w] = @ \ {name[p]}]
        /\ tagged' = tagged
    BY <1>1, <1>3 DEF LandDelete, TypeOK
  <1>5. Promise!Remove(w, name[p])
    BY <1>1, <1>2, <1>4 DEF Promise!Remove
  <1> QED BY <1>1, <1>5 DEF Promise!Next

\* Nothing is seen after the step: it leaves what was seen, if anything.
LEMMA Unwatched ==
  ASSUME TypeOK, NEW p \in Ops, Ops = {p}, Flow(p), UNCHANGED <<disks, tagged>>,
         vol'[p] \in Volumes,
         pc'[p] # "update", pend'[p] \notin {"tag", "untag"},
         pc'[p] = "ok" => cmd'[p] \notin {"assign", "bootstrap"} \/ name'[p] = None
  PROVE  Promise!Next \/ UNCHANGED Promise!vars
  <1>1. \A v \in Volumes : ~Sees(p, v)' /\ ~SettledBy(p, v)'
    BY DEF Sees, Switching, SettledBy
  <1>2. CASE \E w \in Volumes : Sees(p, w)
    BY <1>1, <1>2, IsLeave
  <1>3. CASE \A w \in Volumes : ~Sees(p, w)
    <2>1. \A v \in Volumes : ~SettledBy(p, v)
      BY <1>3 DEF Sees
    <2> QED BY <1>1, <1>3, <2>1, Stutter
  <1> QED BY <1>2, <1>3

\* An error ends what was seen, or leaves a tag update in flight.
LEMMA ErrorUnseen ==
  ASSUME TypeOK, NEW p \in Ops, Ops = {p}, Flow(p), pc[p] \in Running, Error(p)
  PROVE  Promise!Next \/ UNCHANGED Promise!vars
  <1>1. /\ pc'[p] = "failed"
        /\ UNCHANGED <<disks, tagged, cmd, vol, name, pend>>
    BY DEF Error, Goto, TypeOK, cloud
  <1>2. CASE pend[p] \in {"tag", "untag"}
    <2>1. pc[p] = "wait"
      BY <1>2 DEF Flow, Running
    <2>2. \A v \in Volumes : /\ Sees(p, v)' <=> Sees(p, v)
                             /\ SettledBy(p, v)' <=> SettledBy(p, v)
      BY <1>1, <1>2, <2>1 DEF Sees, Switching, SettledBy
    <2> QED BY <1>1, <2>2, Stutter
  <1>3. CASE pend[p] \notin {"tag", "untag"}
    <2>1. vol'[p] \in Volumes
      BY <1>1 DEF TypeOK
    <2> QED BY <1>1, <1>3, <2>1, Unwatched
  <1> QED BY <1>2, <1>3

LEMMA BeginPromise ==
  ASSUME TypeOK, NEW p \in Ops, Ops = {p}, Flow(p), Begin(p)
  PROVE  Promise!Next \/ UNCHANGED Promise!vars
  <1>1. ASSUME NEW c, NEW l, NEW v \in Volumes, NEW n, NEW d, NEW s, Start(p, c, l, v, n, d, s),
               l \notin {"update", "ok"}
        PROVE  Promise!Next \/ UNCHANGED Promise!vars
    <2>1. /\ UNCHANGED <<disks, tagged>> /\ vol'[p] = v /\ pc'[p] = l /\ pend'[p] = "none"
      BY <1>1 DEF Start, TypeOK, cloud
    <2> QED BY <1>1, <2>1, Unwatched
  <1>2. 1 \in Volumes
    BY VolumeAssumption DEF Volumes
  <1> QED BY <1>1, <1>2 DEF Begin, BeginCreate, BeginAssign, BeginDelete, BeginBootstrap,
                            BeginDeploy, BeginSnapshot, BeginSnapshotDelete

LEMMA StepPromise ==
  ASSUME TypeOK, NEW p \in Ops, Ops = {p}, Flow(p), AtHand(p), Alone(p), Step(p)
  PROVE  Promise!Next \/ UNCHANGED Promise!vars
  <1>1. /\ pc[p] \in Running \ {"wait"} /\ pend[p] = "none"
        /\ vol[p] \in Volumes /\ vol[p] \in calm[p]
    <2>1. pc[p] \in Running \ {"wait"}
      BY DEF Step, ListForCreate, PutDisk, ListForAssign, UpdateTag, AssignDone, CheckAndDelete,
             IssueDelete, Gather, Decide, Recheck, Apply, ListForSnapshot, ChooseSource,
             IssueSnapshotDelete, Running
    <2> QED BY <2>1 DEF Flow, Alone, TypeOK, Running
  <1>2. CASE Error(p)
    BY <1>1, <1>2, ErrorUnseen
  <1>3. CASE ListForAssign(p)
    BY <1>1, <1>2, <1>3, IsChoose DEF ListForAssign
  <1>4. CASE UpdateTag(p) /\ ~Error(p)
    <2>1. /\ pc[p] = "update" /\ pc'[p] = "wait" /\ pend'[p] \in {"tag", "untag"}
          /\ UNCHANGED <<disks, tagged, vol, name, cmd>>
      BY <1>4 DEF UpdateTag, Issue, Goto, TypeOK, cloud
    <2>2. \A v \in Volumes : /\ Sees(p, v)' <=> Sees(p, v)
                             /\ SettledBy(p, v)' <=> SettledBy(p, v)
      BY <2>1 DEF Sees, Switching, SettledBy
    <2> QED BY <2>1, <2>2, Stutter
  <1>5. CASE AssignDone(p)
    <2>1. CASE cmd[p] = "bootstrap" /\ vol[p] < NumVolumes
      <3>1. /\ pc'[p] = "recheck" /\ pend'[p] = "none" /\ vol'[p] \in Volumes
            /\ UNCHANGED <<disks, tagged>>
        BY <1>1, <1>5, <2>1, VolumeAssumption DEF AssignDone, Goto, TypeOK, cloud, Volumes
      <3> QED BY <3>1, Unwatched
    <2>2. CASE ~(cmd[p] = "bootstrap" /\ vol[p] < NumVolumes)
      BY <1>1, <1>5, <2>2, IsComplete
    <2> QED BY <2>1, <2>2
  <1>6. CASE Gather(p)
    <2>1. /\ pc'[p] \in {"gather", "apply", "decide"} /\ pend'[p] = "none" /\ vol'[p] \in Volumes
          /\ UNCHANGED <<disks, tagged>>
      BY <1>1, <1>6, VolumeAssumption DEF Gather, Goto, TypeOK, cloud, Volumes
    <2> QED BY <2>1, Unwatched
  <1>7. CASE Decide(p)
    <2>1. /\ pc'[p] # "update" /\ pend'[p] = "none" /\ vol'[p] = vol[p] /\ name'[p] = None
          /\ UNCHANGED <<disks, tagged>>
      BY <1>1, <1>7 DEF Decide, Goto, TypeOK, cloud, Flow, Alone
    <2> QED BY <1>1, <2>1, Unwatched
  <1>8. CASE Apply(p) /\ ~Error(p)
    <2>1. /\ pc'[p] = "ok" /\ pend'[p] = "none" /\ vol'[p] = vol[p] /\ cmd'[p] = "deploy"
          /\ UNCHANGED <<disks, tagged>>
      BY <1>1, <1>8 DEF Apply, Goto, TypeOK, Flow
    <2> QED BY <1>1, <2>1, Unwatched
  <1>9. CASE /\ ListForCreate(p) \/ CheckAndDelete(p) \/ Recheck(p) \/ ListForSnapshot(p)
             /\ ~Error(p)
    <2>1. /\ pc'[p] \in {"resolve", "delete", "list", "source"} /\ pend'[p] = "none" /\ vol'[p] = vol[p]
          /\ UNCHANGED <<disks, tagged>>
      BY <1>1, <1>9 DEF ListForCreate, CheckAndDelete, Recheck, ListForSnapshot, Goto, TypeOK, cloud
    <2> QED BY <1>1, <2>1, Unwatched
  <1>10. CASE /\ PutDisk(p) \/ IssueDelete(p) \/ ChooseSource(p) \/ IssueSnapshotDelete(p)
              /\ ~Error(p)
    <2>1. /\ pc'[p] = "wait" /\ pend'[p] \in {"create", "delete", "snapshot", "unsnapshot"}
          /\ vol'[p] = vol[p] /\ UNCHANGED <<disks, tagged>>
      BY <1>1, <1>10 DEF PutDisk, IssueDelete, ChooseSource, IssueSnapshotDelete, Issue, Goto,
                         TypeOK, cloud
    <2> QED BY <1>1, <2>1, Unwatched
  <1> QED BY <1>2, <1>3, <1>4, <1>5, <1>6, <1>7, <1>8, <1>9, <1>10 DEF Step

LEMMA LandPromise ==
  ASSUME NamesApart, TypeOK, TagsOnDisks, OneDiskEach, NEW p \in Ops, Ops = {p}, Flow(p), AtHand(p), Alone(p), Land(p)
  PROVE  Promise!Next \/ UNCHANGED Promise!vars
  <1>1. /\ pend[p] # "none" /\ pc[p] \in {"wait", "failed"}
        /\ vol[p] \in Volumes /\ vol[p] \in calm[p]
    BY DEF Land, LandCreate, LandTag, LandDelete, LandSnapshot, LandSnapshotDelete, Reject,
           Flow, Alone, TypeOK
  <1>2. CASE LandCreate(p)
    BY <1>1, <1>2, IsAdd
  <1>3. CASE LandTag(p)
    BY <1>1, <1>3, IsMove
  <1>4. CASE LandDelete(p)
    BY <1>1, <1>4, IsRemove
  <1>5. CASE LandSnapshot(p) \/ LandSnapshotDelete(p)
    <2>1. /\ pc'[p] \in {"ok", "failed"} /\ pend'[p] = "none" /\ vol'[p] = vol[p]
          /\ cmd'[p] \in {"snapshot", "unsnapshot"} /\ UNCHANGED <<disks, tagged>>
      BY <1>1, <1>5 DEF LandSnapshot, LandSnapshotDelete, Landed, TypeOK, Flow
    <2> QED BY <1>1, <2>1, Unwatched
  <1>6. CASE Reject(p)
    <2>1. /\ pc'[p] = "failed" /\ pend'[p] = "none" /\ vol'[p] = vol[p]
          /\ UNCHANGED <<disks, tagged>>
      BY <1>1, <1>6 DEF Reject, TypeOK, cloud
    <2> QED BY <1>1, <2>1, Unwatched
  <1> QED BY <1>2, <1>3, <1>4, <1>5, <1>6 DEF Land

LEMMA NextPromise ==
  ASSUME NamesApart, TypeOK, Inv, NEW p \in Ops, Ops = {p}, Alone(p), [Next]_vars
  PROVE  [Promise!Next]_(Promise!vars)
  <1>1. Flow(p) /\ AtHand(p) /\ TagsOnDisks /\ OneDiskEach
    BY DEF Inv
  <1>2. CASE UNCHANGED vars
    <2>1. /\ UNCHANGED <<disks, tagged, name>>
          /\ \A v \in Volumes : /\ Sees(p, v)' <=> Sees(p, v)
                                /\ SettledBy(p, v)' <=> SettledBy(p, v)
      BY <1>2 DEF vars, ops, cloud, Sees, Switching, SettledBy
    <2> QED BY <2>1, Stutter
  <1>3. CASE Begin(p)
    BY <1>1, <1>3, BeginPromise
  <1>4. CASE Step(p)
    BY <1>1, <1>4, StepPromise
  <1>5. CASE Land(p)
    BY <1>1, <1>5, LandPromise
  <1>6. CASE Fail(p)
    BY <1>1, <1>6, ErrorUnseen DEF Fail
  <1> QED BY <1>2, <1>3, <1>4, <1>5, <1>6 DEF Next

LEMMA InitPromise ==
  ASSUME Init, NEW p \in Ops, Ops = {p}
  PROVE  Promise!Init /\ Alone(p)
  <1>1. \A v \in Volumes : ~Sees(p, v) /\ ~SettledBy(p, v)
    BY DEF Init, Sees, Switching, SettledBy
  <1>2. [v \in Volumes |-> Goal(v)] = [v \in Volumes |-> None]
    BY <1>1, GoalIsName
  <1>3. {v \in Volumes : \E q \in Ops : SettledBy(q, v)} = {}
    BY <1>1
  <1>4. disks = [v \in Volumes |-> {}] /\ tagged = [v \in Volumes |-> {}]
    BY DEF Init, NoneSeen
  <1>5. Promise!Init
    BY <1>2, <1>3, <1>4 DEF Promise!Init
  <1> QED BY <1>5 DEF Init, Alone

\* With one CLI invocation at a time and disk names that are not cut to one
\* (naming.go:47), whichever of its calls fail and whenever its writes land, the disks do what VolumeAssignment says: assigned flags move
\* only while an assign (volume_backend_disk.go:266) moves them to its disk, an
\* assign that succeeds leaves exactly that disk assigned, and DiskDelete
\* (disk_delete.go:53) never removes an assigned disk.
THEOREM KeepsPromiseHolds ==
  ASSUME NamesApart, NEW p \in Ops, Ops = {p}
  PROVE  Spec => KeepsPromise
  <1>1. Init => Promise!Init /\ Alone(p)
    BY InitPromise
  <1>2. TypeOK /\ Inv /\ Alone(p) /\ [Next]_vars => Alone(p)' /\ [Promise!Next]_(Promise!vars)
    BY NextAlone, NextPromise
  <1> QED BY <1>1, <1>2, TypeCorrect, InvHolds, PTL DEF Spec, KeepsPromise, Promise!Spec
=============================================================================
