------------------------ MODULE VolumeShares_proofs -------------------------
(* Proofs about VolumeShares, for any volumes, names and number of            *)
(* invocations, also where two volumes mean the same share.                   *)
EXTENDS VolumeShares, TLAPS

-----------------------------------------------------------------------------
(* Names and lists.                                                          *)

\* Within one volume, a share has the name of one disk only.
LEMMA OneName ==
  ASSUME NEW v \in Volumes, NEW n \in Names, NEW m \in Names,
         ShareName(v, n) = ShareName(v, m)
  PROVE  n = m
  <1>1. v \in Seq(Parts) /\ n \in Seq(Parts) /\ m \in Seq(Parts)
    BY SharesAssumption
  <1>2. Len(v \o n) = Len(v) + Len(n) /\ Len(v \o m) = Len(v) + Len(m)
    BY <1>1
  <1>3. Len(n) = Len(m) /\ Len(n) \in Nat
    BY <1>1, <1>2 DEF ShareName
  <1>4. ASSUME NEW i \in 1..Len(n)
        PROVE  n[i] = m[i]
    <2>1. n[i] = (v \o n)[Len(v) + i] /\ m[i] = (v \o m)[Len(v) + i]
      BY <1>1, <1>3
    <2> QED BY <2>1 DEF ShareName
  <1> QED BY <1>1, <1>3, <1>4

\* The metadata that one disk of one volume can have.
Disk(v, n) == [volume : {v}, name : {n}, assigned : BOOLEAN]

\* The share that v means by n belongs to it, and is assigned.
Own(v, n)    == shares[ShareName(v, n)] \in Disk(v, n)
Marked(v, n) == Own(v, n) /\ shares[ShareName(v, n)].assigned

\* DiskList finds the shares that are their volume's own, each under its name.
LEMMA ListedOwn ==
  ASSUME TypeOK, Placed, NEW v \in Volumes
  PROVE  /\ \A d \in Listed(v) : d.name \in Names /\ d.volume = v
                                 /\ d = shares[ShareName(v, d.name)]
         /\ \A n \in Names : Own(v, n) => shares[ShareName(v, n)] \in Listed(v)
  <1>1. ASSUME NEW d \in Listed(v)
        PROVE  d.name \in Names /\ d.volume = v /\ d = shares[ShareName(v, d.name)]
    <2>1. PICK s \in ShareNames : shares[s] # None /\ d = shares[s]
      BY DEF Listed
    <2>2. d \in [volume : {v}, name : Names, assigned : BOOLEAN]
      BY DEF Listed
    <2>3. s = ShareName(v, d.name)
      BY <2>1, <2>2 DEF Placed
    <2> QED BY <2>1, <2>2, <2>3
  <1>2. ASSUME NEW n \in Names, Own(v, n)
        PROVE  shares[ShareName(v, n)] \in Listed(v)
    <2>1. shares[ShareName(v, n)] \in [volume : {v}, name : Names, assigned : BOOLEAN]
      BY <1>2 DEF Own, Disk
    <2>2. ShareName(v, n) \in ShareNames
      BY DEF ShareNames
    <2>3. shares[ShareName(v, n)] # None
      <3>1. shares[ShareName(v, n)] \in Metadata
        BY <2>1 DEF Metadata
      <3> QED BY <3>1, SharesAssumption
    <2> QED BY <2>1, <2>2, <2>3 DEF Listed
  <1> QED BY <1>1, <1>2

\* The lists of DiskCreate, DiskAssign and DiskDelete, disk by disk.
LEMMA Lists ==
  ASSUME TypeOK, Placed, NEW v \in Volumes
  PROVE  /\ NamesOf(Listed(v)) = {n \in Names : Own(v, n)}
         /\ AssignedOf(v) = {n \in Names : Marked(v, n)}
         /\ \A n \in Names : Differing(v, n) =
              {m \in Names : Own(v, m) /\ ((m = n) # shares[ShareName(v, m)].assigned)}
         /\ Listed(v) = {} <=> \A n \in Names : ~Own(v, n)
  <1>1. \A d \in Listed(v) : d \in Disk(v, d.name)
    BY DEF Listed, Disk
  <1>2. \A d \in Listed(v) : Own(v, d.name)
    BY <1>1, ListedOwn DEF Own
  <1>3. \A n \in Names : Own(v, n) => shares[ShareName(v, n)].name = n
    BY DEF Own, Disk
  <1>4. NamesOf(Listed(v)) = {n \in Names : Own(v, n)}
    BY <1>2, <1>3, ListedOwn DEF NamesOf
  <1>5. AssignedOf(v) = {n \in Names : Marked(v, n)}
    BY <1>2, <1>3, ListedOwn DEF AssignedOf, NamesOf, Marked
  <1>6. \A n \in Names : Differing(v, n) =
          {m \in Names : Own(v, m) /\ ((m = n) # shares[ShareName(v, m)].assigned)}
    BY <1>2, <1>3, ListedOwn DEF Differing
  <1>7. Listed(v) = {} <=> \A n \in Names : ~Own(v, n)
    BY <1>2, ListedOwn
  <1> QED BY <1>4, <1>5, <1>6, <1>7

\* All of this as one fact of a state, so that it holds of the next one too.
Lined ==
  \A v \in Volumes :
    /\ NamesOf(Listed(v)) = {n \in Names : Own(v, n)}
    /\ AssignedOf(v) = {n \in Names : Marked(v, n)}
    /\ \A n \in Names : Differing(v, n) =
         {m \in Names : Own(v, m) /\ ((m = n) # shares[ShareName(v, m)].assigned)}
    /\ Listed(v) = {} <=> \A n \in Names : ~Own(v, n)

LEMMA LinedUp == TypeOK /\ Placed => Lined
  BY Lists DEF Lined

LEMMA LinedUpNext == TypeOK' /\ Placed' => Lined'
  <1>1. (TypeOK /\ Placed => Lined)'
    BY LinedUp, PTL
  <1> QED BY <1>1

-----------------------------------------------------------------------------
(* Types.                                                                    *)

LEMMA GotoTypes ==
  ASSUME TypeOK, NEW p \in Ops, NEW l \in Points, Goto(p, l)
  PROVE  pc' \in [Ops -> Points]
  BY DEF TypeOK, Goto

LEMMA NamesTyped == \A v \in Volumes, n \in Names : ShareName(v, n) \in ShareNames
  BY DEF ShareNames

LEMMA TypeStep ==
  ASSUME TypeOK, NEW p \in Ops, Flow(p), Start(p) \/ Step(p)
  PROVE  TypeOK'
  <1> USE DEF Points, Ended, Commands
  <1>1. ASSUME Start(p)
        PROVE  TypeOK'
    <2>1. pc' \in [Ops -> Points]
      BY <1>1, GotoTypes DEF Start
    <2>2. cmd' \in [Ops -> Commands] /\ vol' \in [Ops -> Volumes]
          /\ name' \in [Ops -> Names \cup {None}]
      BY <1>1 DEF Start, TypeOK
    <2>3. /\ account' \in BOOLEAN /\ shares' \in [ShareNames -> Metadata \cup {None}]
          /\ first' \in [Ops -> BOOLEAN] /\ todo' \in [Ops -> SUBSET Names]
          /\ disk' \in [Ops -> Names \cup {None}]
          /\ got' \in [Ops -> Metadata \cup {None}] /\ calm' \in [Ops -> BOOLEAN]
      BY <1>1 DEF Start, TypeOK
    <2> QED BY <2>1, <2>2, <2>3 DEF TypeOK
  <1>2. ASSUME EnsureAccount(p)
        PROVE  TypeOK'
    BY <1>2, GotoTypes DEF EnsureAccount, TypeOK
  <1>3. ASSUME ListForCreate(p)
        PROVE  TypeOK'
    BY <1>3, GotoTypes DEF ListForCreate, TypeOK
  <1>4. ASSUME Put(p)
        PROVE  TypeOK'
    <2>1. vol[p] \in Volumes /\ name[p] \in Names /\ first[p] \in BOOLEAN
      BY <1>4 DEF TypeOK, Put, Flow
    <2>2. shares' \in [ShareNames -> Metadata \cup {None}]
      BY <1>4, <2>1, NamesTyped DEF Put, PutShare, TypeOK, Metadata
    <2>3. pc' \in [Ops -> Points] /\ calm' \in [Ops -> BOOLEAN]
      BY <1>4, GotoTypes DEF Put, Changes, TypeOK
    <2> QED BY <1>4, <2>2, <2>3 DEF Put, TypeOK
  <1>5. ASSUME ListForAssign(p)
        PROVE  TypeOK'
    <2>1. \A v \in Volumes, n \in Names : Differing(v, n) \subseteq Names
      BY DEF Differing, Listed
    <2>2. name[p] \in Names /\ vol[p] \in Volumes
      BY <1>5 DEF ListForAssign, TypeOK, Flow
    <2> QED BY <1>5, <2>1, <2>2, GotoTypes DEF ListForAssign, TypeOK
  <1>6. ASSUME GetShare(p)
        PROVE  TypeOK'
    <2>1. PICK n \in todo[p] :
            /\ todo' = [todo EXCEPT ![p] = @ \ {n}]
            /\ disk' = [disk EXCEPT ![p] = n]
            /\ got' = [got EXCEPT ![p] = shares[ShareName(vol[p], n)]]
      BY <1>6 DEF GetShare
    <2>2. n \in Names /\ vol[p] \in Volumes /\ todo[p] \ {n} \subseteq Names
      BY <2>1 DEF TypeOK
    <2>3. shares[ShareName(vol[p], n)] \in Metadata \cup {None}
      BY <2>2, NamesTyped DEF TypeOK
    <2> QED BY <1>6, <2>1, <2>2, <2>3, GotoTypes DEF GetShare, TypeOK
  <1>7. ASSUME Update(p)
        PROVE  TypeOK'
    <2>1. vol[p] \in Volumes /\ disk[p] \in Names /\ got[p] \in Metadata
      BY <1>7 DEF TypeOK, Update, Flow
    <2>2. \A f \in BOOLEAN : [got[p] EXCEPT !.assigned = f] \in Metadata
      BY <2>1 DEF Metadata
    <2>3. shares' \in [ShareNames -> Metadata \cup {None}]
      BY <1>7, <2>1, <2>2, NamesTyped DEF Update, TypeOK
    <2>4. pc' \in [Ops -> Points] /\ calm' \in [Ops -> BOOLEAN]
      BY <1>7, GotoTypes DEF Update, Changes, TypeOK
    <2> QED BY <1>7, <2>3, <2>4 DEF Update, TypeOK
  <1>8. ASSUME AssignDone(p) \/ ListForDelete(p) \/ Fail(p)
        PROVE  TypeOK'
    BY <1>8, GotoTypes DEF AssignDone, ListForDelete, Fail, TypeOK
  <1>9. ASSUME Delete(p)
        PROVE  TypeOK'
    <2>1. vol[p] \in Volumes /\ name[p] \in Names
      BY <1>9 DEF TypeOK, Delete, Flow
    <2>2. shares' \in [ShareNames -> Metadata \cup {None}]
      BY <1>9, <2>1, NamesTyped DEF Delete, TypeOK
    <2>3. pc' \in [Ops -> Points] /\ calm' \in [Ops -> BOOLEAN]
      BY <1>9, GotoTypes DEF Delete, Changes, TypeOK
    <2> QED BY <1>9, <2>2, <2>3 DEF Delete, TypeOK
  <1> QED BY <1>1, <1>2, <1>3, <1>4, <1>5, <1>6, <1>7, <1>8, <1>9 DEF Step

-----------------------------------------------------------------------------
(* Control points and places.                                                *)

\* The steps of one invocation leave the control variables of the others alone.
LEMMA Others ==
  ASSUME TypeOK, NEW p \in Ops, NEW q \in Ops \ {p}, Start(q) \/ Step(q)
  PROVE  /\ pc'[p] = pc[p] /\ cmd'[p] = cmd[p] /\ vol'[p] = vol[p]
         /\ name'[p] = name[p] /\ first'[p] = first[p] /\ todo'[p] = todo[p]
         /\ disk'[p] = disk[p] /\ got'[p] = got[p]
         /\ calm'[p] => calm[p] /\ shares' = shares
  <1> USE DEF TypeOK, Goto, Changes
  <1>1. CASE Start(q)
    BY <1>1 DEF Start
  <1>2. CASE EnsureAccount(q) \/ AssignDone(q) \/ ListForDelete(q) \/ Fail(q)
    BY <1>2 DEF EnsureAccount, AssignDone, ListForDelete, Fail
  <1>3. CASE ListForCreate(q) \/ ListForAssign(q) \/ GetShare(q)
    BY <1>3 DEF ListForCreate, ListForAssign, GetShare
  <1>4. CASE Put(q)
    BY <1>4 DEF Put
  <1>5. CASE Update(q)
    BY <1>5 DEF Update
  <1>6. CASE Delete(q)
    BY <1>6 DEF Delete
  <1> QED BY <1>1, <1>2, <1>3, <1>4, <1>5, <1>6 DEF Step

LEMMA FlowStep ==
  ASSUME TypeOK, Placed, \A r \in Ops : Flow(r), NEW p \in Ops, NEW q \in Ops,
         Start(q) \/ Step(q)
  PROVE  Flow(p)'
  <1>1. ASSUME q # p
        PROVE  Flow(p)'
    <2>1. q \in Ops \ {p}
      BY <1>1
    <2> QED BY <2>1, Others DEF Flow
  <1>2. ASSUME q = p
        PROVE  Flow(p)'
    <2> USE DEF TypeOK, Goto, Ended
    <2>0. Flow(p) /\ (Start(p) \/ Step(p))
      BY <1>2
    <2>1. CASE Start(p)
      BY <2>1 DEF Start, Commands, Flow
    <2>2. CASE EnsureAccount(p) \/ AssignDone(p) \/ ListForDelete(p) \/ Fail(p)
      BY <2>0, <2>2 DEF EnsureAccount, AssignDone, ListForDelete, Fail, Flow
    <2>3. CASE ListForCreate(p)
      BY <2>0, <2>3, SharesAssumption DEF ListForCreate, Flow
    <2>4. CASE ListForAssign(p)
      BY <2>0, <2>4 DEF ListForAssign, Flow
    <2>5. CASE GetShare(p)
      <3>1. PICK n \in todo[p] :
              /\ shares[ShareName(vol[p], n)] # None
              /\ disk' = [disk EXCEPT ![p] = n]
              /\ got' = [got EXCEPT ![p] = shares[ShareName(vol[p], n)]]
        BY <2>5 DEF GetShare
      <3>2. n \in Names /\ ShareName(vol[p], n) \in ShareNames
        BY <3>1, NamesTyped
      <3>3. ShareName(vol[p], n) = ShareName(got'[p].volume, got'[p].name)
        BY <3>1, <3>2 DEF Placed
      <3>4. disk'[p] = n /\ n # None /\ got'[p] # None
        BY <3>1, <3>2, SharesAssumption
      <3>5. pc' = [pc EXCEPT ![p] = "update"] /\ pc[p] = "get"
            /\ cmd' = cmd /\ vol' = vol /\ name' = name
        BY <2>5 DEF GetShare
      <3> QED BY <2>0, <3>3, <3>4, <3>5 DEF Flow
    <2>6. CASE Put(p) \/ Delete(p)
      BY <2>0, <2>6 DEF Put, Delete, Flow
    <2>7. CASE Update(p)
      BY <2>0, <2>7 DEF Update, Flow
    <2> QED BY <2>0, <2>1, <2>2, <2>3, <2>4, <2>5, <2>6, <2>7 DEF Step
  <1> QED BY <1>1, <1>2

LEMMA PlacedStep ==
  ASSUME TypeOK, Placed, NEW p \in Ops, Flow(p), Start(p) \/ Step(p)
  PROVE  Placed'
  <1>1. CASE shares' = shares
    BY <1>1 DEF Placed
  <1>2. CASE Put(p)
    <2>1. vol[p] \in Volumes /\ name[p] \in Names
      BY <1>2 DEF TypeOK, Put, Flow, Ended
    <2> QED BY <1>2, <2>1, NamesTyped DEF Put, PutShare, Placed, TypeOK
  <1>3. CASE Update(p)
    <2>1. vol[p] \in Volumes /\ disk[p] \in Names /\ got[p] \in Metadata
      BY <1>3 DEF TypeOK, Update, Flow
    <2>2. \A f \in BOOLEAN :
            /\ [got[p] EXCEPT !.assigned = f].volume = got[p].volume
            /\ [got[p] EXCEPT !.assigned = f].name = got[p].name
      BY <2>1 DEF Metadata
    <2> QED BY <1>3, <2>1, <2>2, NamesTyped DEF Update, Flow, Placed, TypeOK
  <1>4. CASE Delete(p)
    BY <1>4 DEF Delete, Placed, TypeOK
  <1>5. Put(p) \/ Update(p) \/ Delete(p) \/ shares' = shares
    BY DEF Start, Step, EnsureAccount, ListForCreate, ListForAssign, GetShare,
           AssignDone, ListForDelete, Fail
  <1> QED BY <1>1, <1>2, <1>3, <1>4, <1>5

-----------------------------------------------------------------------------
(* What an invocation that nobody interferes with knows.                     *)

LEMMA KnowsOfOthers ==
  ASSUME TypeOK, NEW p \in Ops, NEW q \in Ops \ {p}, Start(q) \/ Step(q),
         Flow(p), calm[p] => Knows(p), calm'[p]
  PROVE  Knows(p)'
  <1>1. /\ pc'[p] = pc[p] /\ cmd'[p] = cmd[p] /\ vol'[p] = vol[p]
        /\ name'[p] = name[p] /\ first'[p] = first[p] /\ todo'[p] = todo[p]
        /\ disk'[p] = disk[p] /\ got'[p] = got[p] /\ calm[p] /\ shares' = shares
    BY Others
  <1>2. Knows(p) /\ vol[p] \in Volumes
    BY <1>1 DEF TypeOK
  <1>3. /\ Listed(vol[p])' = Listed(vol[p]) /\ AssignedOf(vol[p])' = AssignedOf(vol[p])
    BY <1>1 DEF Listed, AssignedOf, NamesOf
  <1>4. Differing(vol[p], name[p])' = Differing(vol[p], name[p])
    BY <1>1 DEF Differing, Listed
  <1>6. Has(p, name[p])' = Has(p, name[p])
    BY <1>1, <1>3 DEF Has, NamesOf
  <1>7. shares'[ShareName(vol[p], disk[p])'] = shares[ShareName(vol[p], disk[p])]
    BY <1>1 DEF ShareName
  <1> QED BY <1>1, <1>2, <1>3, <1>4, <1>6, <1>7 DEF Knows

\* An update of an undisturbed assign brings its own share, and no other, in line.
LEMMA UpdateKnows ==
  ASSUME TypeOK, TypeOK', Placed, Placed', NEW p \in Ops, Update(p), Flow(p), Knows(p)
  PROVE  /\ Has(p, name[p])'
         /\ Differing(vol[p], name[p])' = todo[p]
         /\ shares[ShareName(vol[p], disk[p])].volume = vol[p]
         /\ shares'[ShareName(vol[p], disk[p])] =
              [shares[ShareName(vol[p], disk[p])] EXCEPT !.assigned = ~@]
  <1> DEFINE v == vol[p]  n == name[p]  d == disk[p]  s == ShareName(v, d)
  <1>1. /\ v \in Volumes /\ n \in Names /\ d \in Names /\ s \in ShareNames
        /\ vol' = vol /\ name' = name
    BY NamesTyped DEF TypeOK, Update, Flow, Ended
  <1>2. d \in Differing(v, n) /\ todo[p] = Differing(v, n) \ {d} /\ shares[s] = got[p]
        /\ Has(p, n)
    BY DEF Update, Knows
  <1>3. Lined /\ Lined'
    BY LinedUp, LinedUpNext
  <1>4. Own(v, d) /\ ((d = n) # shares[s].assigned)
    BY <1>1, <1>2, <1>3 DEF Lined
  <1>5. shares' = [shares EXCEPT ![s] = [shares[s] EXCEPT !.assigned = (d = n)]]
    BY <1>2 DEF Update
  <1>6. /\ shares[s].volume = v /\ shares[s].assigned \in BOOLEAN
        /\ shares'[s] = [shares[s] EXCEPT !.assigned = ~@]
        /\ shares'[s] \in Disk(v, d) /\ shares'[s].assigned = (d = n)
    BY <1>1, <1>4, <1>5 DEF Own, Disk, TypeOK
  <1>7. \A m \in Names : m # d => shares'[ShareName(v, m)] = shares[ShareName(v, m)]
    BY <1>1, <1>5, OneName, NamesTyped DEF TypeOK
  <1>8. \A m \in Names : shares'[ShareName(v, m)] \in Disk(v, m) <=> Own(v, m)
    BY <1>4, <1>6, <1>7 DEF Own
  <1>9. v' = v /\ n' = n /\ \A m \in Names : Own(v, m)' <=> Own(v, m)
    BY <1>1, <1>8 DEF Own
  <1>10. Has(p, n)'
    <2>1. Own(v, n)
      BY <1>1, <1>2, <1>3 DEF Lined, Has
    <2>2. NamesOf(Listed(v))' = {m \in Names : Own(v, m)'}
      BY <1>1, <1>3, <1>9 DEF Lined
    <2> QED BY <1>1, <1>9, <2>1, <2>2 DEF Has
  <1>11. Differing(v, n)' = todo[p]
    <2>1. Differing(v, n)' =
            {m \in Names : Own(v, m)' /\ ((m = n) # shares'[ShareName(v, m)].assigned)}
      BY <1>1, <1>3, <1>9 DEF Lined
    <2>2. Differing(v, n) =
            {m \in Names : Own(v, m) /\ ((m = n) # shares[ShareName(v, m)].assigned)}
      BY <1>1, <1>3 DEF Lined
    <2>3. shares'[ShareName(v, d)].assigned = (d = n)
      BY <1>6
    <2>4. \A m \in Names : m # d =>
            /\ Own(v, m)' <=> Own(v, m)
            /\ shares'[ShareName(v, m)].assigned = shares[ShareName(v, m)].assigned
      BY <1>7, <1>9
    <2>5. Differing(v, n)' = Differing(v, n) \ {d}
      BY <2>1, <2>2, <2>3, <2>4
    <2> QED BY <1>2, <2>5
  <1> QED BY <1>6, <1>10, <1>11

LEMMA KnowsOfOwn ==
  ASSUME TypeOK, TypeOK', Placed, Placed', NEW p \in Ops, Start(p) \/ Step(p),
         Flow(p), calm[p] => Knows(p), calm'[p]
  PROVE  Knows(p)'
  <1> USE DEF TypeOK, Goto, Ended
  <1>1. CASE Start(p)
    <2>1. pc'[p] \in {"account", "list"}
      BY <1>1 DEF Start
    <2> QED BY <2>1 DEF Knows
  <1>2. CASE EnsureAccount(p) \/ Fail(p)
    <2>1. pc'[p] \in {"list", "failed"}
      BY <1>2 DEF EnsureAccount, Fail
    <2> QED BY <2>1 DEF Knows
  <1>3. CASE ListForCreate(p)
    <2>1. PICK n \in Names :
            /\ n \notin NamesOf(Listed(vol[p]))
            /\ name' = [name EXCEPT ![p] = n]
            /\ first' = [first EXCEPT ![p] = Listed(vol[p]) = {}]
      BY <1>3 DEF ListForCreate
    <2>2. pc'[p] = "put" /\ name'[p] = n /\ first'[p] = (Listed(vol[p]) = {})
          /\ shares' = shares /\ vol' = vol
      BY <1>3, <2>1 DEF ListForCreate
    <2>3. Listed(vol[p])' = Listed(vol[p])
      BY <2>2 DEF Listed
    <2> QED BY <2>1, <2>2, <2>3 DEF Knows, Has, NamesOf
  <1>4. CASE Put(p) \/ Delete(p)
    <2>1. pc'[p] \in {"ok", "failed"} /\ cmd'[p] # "assign"
      BY <1>4 DEF Put, Delete, Flow
    <2> QED BY <2>1 DEF Knows
  <1>5. CASE ListForAssign(p)
    <2>1. /\ pc'[p] = "get" /\ Has(p, name[p]) /\ todo'[p] = Differing(vol[p], name[p])
          /\ shares' = shares /\ vol' = vol /\ name' = name
      BY <1>5 DEF ListForAssign, Has
    <2>2. Has(p, name[p])' /\ Differing(vol[p], name[p])' = Differing(vol[p], name[p])
      BY <2>1 DEF Has, NamesOf, Listed, Differing
    <2> QED BY <2>1, <2>2 DEF Knows
  <1>6. CASE GetShare(p)
    <2>1. PICK n \in todo[p] :
            /\ todo' = [todo EXCEPT ![p] = @ \ {n}]
            /\ disk' = [disk EXCEPT ![p] = n]
            /\ got' = [got EXCEPT ![p] = shares[ShareName(vol[p], n)]]
      BY <1>6 DEF GetShare
    <2>2. /\ pc[p] = "get" /\ pc'[p] = "update" /\ calm[p]
          /\ shares' = shares /\ vol' = vol /\ name' = name
      BY <1>6 DEF GetShare
    <2>3. /\ disk'[p] = n /\ todo'[p] = todo[p] \ {n}
          /\ got'[p] = shares[ShareName(vol[p], n)]
      BY <2>1
    <2>4. Has(p, name[p]) /\ todo[p] = Differing(vol[p], name[p])
      BY <2>2 DEF Knows
    <2>5. Has(p, name[p])' /\ Differing(vol[p], name[p])' = Differing(vol[p], name[p])
      BY <2>2, <2>4 DEF Has, NamesOf, Listed, Differing
    <2>6. shares'[ShareName(vol[p], disk[p])'] = got'[p]
      BY <2>2, <2>3 DEF ShareName
    <2> QED BY <2>2, <2>3, <2>4, <2>5, <2>6 DEF Knows
  <1>7. CASE Update(p)
    <2>1. /\ pc'[p] = "get" /\ calm[p] /\ vol' = vol /\ name' = name /\ todo' = todo
      BY <1>7 DEF Update, Changes
    <2>2. Has(p, name[p])' /\ Differing(vol[p], name[p])' = todo[p]
      BY <1>7, <2>1, UpdateKnows
    <2> QED BY <2>1, <2>2 DEF Knows
  <1>8. CASE AssignDone(p)
    <2>1. /\ pc[p] = "get" /\ pc'[p] = "ok" /\ todo[p] = {} /\ calm[p]
          /\ shares' = shares /\ vol' = vol /\ name' = name
      BY <1>8 DEF AssignDone
    <2>2. Has(p, name[p]) /\ Differing(vol[p], name[p]) = {}
      BY <2>1 DEF Knows
    <2>3. vol[p] \in Volumes /\ name[p] \in Names
      BY <2>1 DEF Flow
    <2>4. Lined
      BY LinedUp
    <2>5. AssignedOf(vol[p]) = {name[p]}
      <3>1. Own(vol[p], name[p])
        BY <2>2, <2>3, <2>4 DEF Has, Lined
      <3>2. \A m \in Names : Own(vol[p], m) =>
              ((m = name[p]) = shares[ShareName(vol[p], m)].assigned)
        BY <2>2, <2>3, <2>4 DEF Lined
      <3> QED BY <2>3, <2>4, <3>1, <3>2 DEF Lined, Marked
    <2>6. AssignedOf(vol[p])' = AssignedOf(vol[p])
      BY <2>1 DEF AssignedOf, NamesOf, Listed
    <2> QED BY <2>1, <2>5, <2>6 DEF Knows
  <1>9. CASE ListForDelete(p)
    <2>1. /\ pc'[p] = "delete" /\ Has(p, name[p]) /\ name[p] \notin AssignedOf(vol[p])
          /\ shares' = shares /\ vol' = vol /\ name' = name
      BY <1>9 DEF ListForDelete, Has
    <2>2. Has(p, name[p])' /\ (name[p] \notin AssignedOf(vol[p]))'
      BY <2>1 DEF Has, NamesOf, Listed, AssignedOf
    <2> QED BY <2>1, <2>2 DEF Knows
  <1> QED BY <1>1, <1>2, <1>3, <1>4, <1>5, <1>6, <1>7, <1>8, <1>9 DEF Step

-----------------------------------------------------------------------------
(* The invariant.                                                            *)

LEMMA InvStep ==
  ASSUME TypeOK, Inv, Next
  PROVE  TypeOK' /\ Inv'
  <1>1. PICK q \in Ops : Start(q) \/ Step(q)
    BY DEF Next
  <1>2. Placed /\ (\A r \in Ops : Flow(r)) /\ (\A r \in Ops : calm[r] => Knows(r))
    BY DEF Inv
  <1>3. TypeOK' /\ Placed'
    BY <1>1, <1>2, TypeStep, PlacedStep
  <1>4. ASSUME NEW p \in Ops
        PROVE  Flow(p)'
    BY <1>1, <1>2, FlowStep
  <1>5. ASSUME NEW p \in Ops, calm'[p]
        PROVE  Knows(p)'
    <2>1. CASE q = p
      BY <1>1, <1>2, <1>3, <1>5, <2>1, KnowsOfOwn
    <2>2. CASE q \in Ops \ {p}
      BY <1>1, <1>2, <1>5, <2>2, KnowsOfOthers
    <2> QED BY <2>1, <2>2
  <1> QED BY <1>3, <1>4, <1>5 DEF Inv

LEMMA Inductive == Spec => [](TypeOK /\ Inv)
  <1>1. Init => TypeOK /\ Inv
    <2> SUFFICES ASSUME Init
                 PROVE  TypeOK /\ Inv
      OBVIOUS
    <2>1. TypeOK
      BY DEF Init, TypeOK, Commands, Points, Ended
    <2>2. Placed /\ \A p \in Ops : Flow(p) /\ ~calm[p]
      BY DEF Init, Placed, Flow, Ended
    <2> QED BY <2>1, <2>2 DEF Inv
  <1>2. TypeOK /\ Inv /\ [Next]_vars => TypeOK' /\ Inv'
    <2>1. ASSUME TypeOK, Inv, UNCHANGED vars
          PROVE  TypeOK' /\ Inv'
      <3>1. TypeOK' /\ Placed' /\ \A p \in Ops : Flow(p)'
        BY <2>1 DEF vars, TypeOK, Inv, Placed, Flow
      <3>2. ASSUME NEW p \in Ops, calm'[p]
            PROVE  Knows(p)'
        <4>1. Knows(p)
          BY <2>1, <3>2 DEF vars, Inv
        <4>2. /\ Listed(vol[p])' = Listed(vol[p])
              /\ AssignedOf(vol[p])' = AssignedOf(vol[p])
              /\ Differing(vol[p], name[p])' = Differing(vol[p], name[p])
              /\ Has(p, name[p])' <=> Has(p, name[p])
          BY <2>1 DEF vars, Listed, AssignedOf, Differing, Has, NamesOf
        <4> QED BY <2>1, <4>1, <4>2 DEF vars, Knows
      <3> QED BY <3>1, <3>2 DEF Inv
    <2> QED BY <2>1, InvStep
  <1> QED BY <1>1, <1>2, PTL DEF Spec

\* Type correctness, for any volumes, names and number of invocations.
THEOREM TypeCorrect == Spec => []TypeOK
  BY Inductive, PTL

-----------------------------------------------------------------------------
(* The properties.                                                           *)

\* DiskAssign (volume_backend_files.go:285): an undisturbed assign leaves its share
\* as the only assigned one, from whatever state failures and races had left.
THEOREM AssignSettlesHolds == Spec => []AssignSettles
  <1>1. Inv => AssignSettles
    BY DEF Inv, Knows, AssignSettles
  <1> QED BY <1>1, Inductive, PTL

\* Every step of an invocation moves it.
LEMMA Moves ==
  ASSUME TypeOK, NEW p \in Ops, Start(p) \/ Step(p)
  PROVE  Acts(p)
  BY DEF Acts, Start, Step, EnsureAccount, ListForCreate, ListForAssign, GetShare,
         AssignDone, ListForDelete, Fail, Put, Update, Delete, Goto, TypeOK, Ended

\* What an undisturbed step does to the shares.
LEMMA CalmWrites ==
  ASSUME TypeOK, Inv, TypeOK', Inv', NEW p \in Ops, Start(p) \/ Step(p), calm[p],
         shares' # shares
  PROVE  /\ pc'[p] # pc[p]
         /\ vol[p] \in Volumes /\ name[p] \in Names
         /\ Knows(p) /\ Flow(p) /\ Placed /\ Placed' /\ Lined /\ Lined'
         /\ \/ Put(p) /\ cmd[p] = "create" /\ pc[p] = "put"
            \/ Update(p) /\ cmd[p] = "assign" /\ disk[p] \in Names
            \/ Delete(p) /\ cmd[p] = "delete" /\ pc[p] = "delete"
  <1>1. Knows(p) /\ Flow(p) /\ Placed /\ Placed' /\ Lined /\ Lined'
    BY LinedUp, LinedUpNext DEF Inv
  <1>2. Put(p) \/ Update(p) \/ Delete(p)
    BY DEF Start, Step, EnsureAccount, ListForCreate, ListForAssign, GetShare,
           AssignDone, ListForDelete, Fail
  <1>3. pc[p] \in {"put", "update", "delete"} /\ pc'[p] # pc[p]
    BY <1>2 DEF Put, Update, Delete, Goto, TypeOK
  <1>4. vol[p] \in Volumes /\ name[p] \in Names
    BY <1>1, <1>3 DEF Flow, TypeOK, Ended
  <1>5. Update(p) => disk[p] \in Names /\ pc[p] = "update"
    BY <1>1 DEF Flow, TypeOK, Update
  <1> QED BY <1>1, <1>2, <1>3, <1>4, <1>5 DEF Flow, Put, Delete

\* What an undisturbed delete is about to delete.
LEMMA DeletesOwn ==
  ASSUME TypeOK, Lined, NEW p \in Ops, Knows(p), pc[p] = "delete",
         vol[p] \in Volumes, name[p] \in Names
  PROVE  /\ Own(vol[p], name[p])
         /\ ~shares[ShareName(vol[p], name[p])].assigned
         /\ shares[ShareName(vol[p], name[p])].volume = vol[p]
  <1>1. Own(vol[p], name[p]) /\ ~Marked(vol[p], name[p])
    BY DEF Knows, Has, Lined
  <1> QED BY <1>1 DEF Marked, Own, Disk

LEMMA KeptStep ==
  ASSUME TypeOK, Inv, TypeOK', Inv', NEW p \in Ops, Start(p) \/ Step(p), calm[p],
         NEW s \in ShareNames, shares[s] # None, shares'[s] # shares[s]
  PROVE  /\ Acts(p)
         /\ \/ /\ cmd[p] = "delete"
               /\ shares[s].volume = vol[p]
               /\ ~shares[s].assigned
            \/ /\ cmd[p] = "assign"
               /\ shares[s].volume = vol[p]
               /\ shares'[s] = [shares[s] EXCEPT !.assigned = ~@]
            \/ /\ cmd[p] = "create"
               /\ shares[s].volume # vol[p]
               /\ Meant(vol[p], s)
  <1> USE CalmWrites DEF Acts
  <1>1. CASE Put(p) /\ cmd[p] = "create" /\ pc[p] = "put"
    <2>1. s = ShareName(vol[p], name[p])
      BY <1>1, NamesTyped DEF Put, PutShare, TypeOK
    <2>2. ~Own(vol[p], name[p])
      BY <1>1 DEF Knows, Has, Lined
    <2>3. shares[s] \in Metadata
      BY DEF TypeOK
    <2>4. shares[s].volume # vol[p]
      <3> SUFFICES ASSUME shares[s].volume = vol[p]
                   PROVE  FALSE
        OBVIOUS
      <3>1. s = ShareName(vol[p], shares[s].name) /\ shares[s].name \in Names
        BY <2>3 DEF Placed, Metadata
      <3>2. shares[s].name = name[p]
        BY <2>1, <3>1, OneName
      <3> QED BY <2>1, <2>2, <2>3, <3>2 DEF Own, Disk, Metadata
    <2> QED BY <1>1, <2>1, <2>4 DEF Meant
  <1>2. CASE Update(p) /\ cmd[p] = "assign" /\ disk[p] \in Names
    <2>1. s = ShareName(vol[p], disk[p])
      BY <1>2, NamesTyped DEF Update, TypeOK
    <2> QED BY <1>2, <2>1, UpdateKnows
  <1>3. CASE Delete(p) /\ cmd[p] = "delete" /\ pc[p] = "delete"
    <2>1. s = ShareName(vol[p], name[p])
      BY <1>3, NamesTyped DEF Delete, TypeOK
    <2> QED BY <1>3, <2>1, DeletesOwn
  <1> QED BY <1>1, <1>2, <1>3

\* No share goes or changes but by a delete or an assign of its own volume, a create
\* that means it too, or a race (disk_delete.go:53, volume_backend_files.go:189).
THEOREM SharesKeptHolds == Spec => SharesKept
  <1>1. TypeOK /\ Inv /\ TypeOK' /\ Inv' /\ [Next]_vars =>
          [\A s \in ShareNames : shares[s] # None /\ shares'[s] # shares[s] =>
             \E p \in Ops : Acts(p) /\
               \/ ~calm[p]
               \/ /\ cmd[p] = "delete"
                  /\ shares[s].volume = vol[p]
                  /\ ~shares[s].assigned
               \/ /\ cmd[p] = "assign"
                  /\ shares[s].volume = vol[p]
                  /\ shares'[s] = [shares[s] EXCEPT !.assigned = ~@]
               \/ /\ cmd[p] = "create"
                  /\ shares[s].volume # vol[p]
                  /\ Meant(vol[p], s)]_vars
    <2> SUFFICES ASSUME TypeOK, Inv, TypeOK', Inv', Next, NEW s \in ShareNames,
                        shares[s] # None, shares'[s] # shares[s]
                 PROVE  \E p \in Ops : Acts(p) /\
                          \/ ~calm[p]
                          \/ /\ cmd[p] = "delete"
                             /\ shares[s].volume = vol[p]
                             /\ ~shares[s].assigned
                          \/ /\ cmd[p] = "assign"
                             /\ shares[s].volume = vol[p]
                             /\ shares'[s] = [shares[s] EXCEPT !.assigned = ~@]
                          \/ /\ cmd[p] = "create"
                             /\ shares[s].volume # vol[p]
                             /\ Meant(vol[p], s)
      BY DEF vars
    <2>1. PICK p \in Ops : Start(p) \/ Step(p)
      BY DEF Next
    <2>2. CASE calm[p]
      BY <2>1, <2>2, KeptStep
    <2>3. CASE ~calm[p]
      BY <2>1, <2>3, Moves
    <2> QED BY <2>2, <2>3
  <1> QED BY <1>1, Inductive, PTL DEF Spec, SharesKept

\* A volume is settled as its own shares are.
LEMMA SettledBy == Lined => \A v \in Volumes :
  Settled(v) <=> \/ \A n \in Names : ~Own(v, n)
                 \/ \E n \in Names : \A m \in Names : Marked(v, m) <=> m = n
  <1> SUFFICES ASSUME Lined, NEW v \in Volumes
               PROVE  Settled(v) <=>
                        \/ \A n \in Names : ~Own(v, n)
                        \/ \E n \in Names : \A m \in Names : Marked(v, m) <=> m = n
    OBVIOUS
  <1> QED BY DEF Lined, Settled

LEMMA SettledByNext == (Lined => \A v \in Volumes :
  Settled(v) <=> \/ \A n \in Names : ~Own(v, n)
                 \/ \E n \in Names : \A m \in Names : Marked(v, m) <=> m = n)'
  BY SettledBy, PTL

LEMMA StaysStep ==
  ASSUME TypeOK, Inv, TypeOK', Inv', NEW p \in Ops, Start(p) \/ Step(p), calm[p],
         NEW v \in Volumes, Settled(v), ~Settled(v)'
  PROVE  /\ Acts(p)
         /\ \/ cmd[p] = "assign" /\ vol[p] = v
            \/ cmd[p] = "create" /\ vol[p] # v
  <1>0. shares' # shares
    BY DEF Settled, AssignedOf, NamesOf, Listed
  <1> USE <1>0, CalmWrites DEF Acts
  <1>1. \/ \E n \in Names : ~(Own(v, n)' <=> Own(v, n))
        \/ \E n \in Names : ~(Marked(v, n)' <=> Marked(v, n))
    BY SettledBy, SettledByNext
  <1>2. CASE Put(p) /\ cmd[p] = "create" /\ pc[p] = "put"
    <2> SUFFICES ASSUME vol[p] = v
                 PROVE  FALSE
      BY <1>2
    <2>0. PICK n \in Names : n = name[p]
      OBVIOUS
    <2>1. ~Own(v, n) /\ first[p] = (\A m \in Names : ~Own(v, m))
      BY <1>2, <2>0 DEF Knows, Has, Lined
    <2>2. shares' = [shares EXCEPT ![ShareName(v, n)] =
                       [volume |-> v, name |-> n, assigned |-> first[p]]]
      BY <1>2, <2>0 DEF Put, PutShare
    <2>3. Own(v, n)' /\ (Marked(v, n)' <=> first[p])
      <3>1. shares'[ShareName(v, n)] = [volume |-> v, name |-> n, assigned |-> first[p]]
        BY <2>2, NamesTyped DEF TypeOK
      <3>2. first[p] \in BOOLEAN
        BY DEF TypeOK
      <3> QED BY <3>1, <3>2 DEF Own, Marked, Disk
    <2>4. \A m \in Names : m # n => /\ Own(v, m)' <=> Own(v, m)
                                    /\ Marked(v, m)' <=> Marked(v, m)
      <3>1. \A m \in Names : m # n => shares'[ShareName(v, m)] = shares[ShareName(v, m)]
        <4>1. \A m \in Names : m # n => ShareName(v, m) # ShareName(v, n)
          BY OneName
        <4> QED BY <2>2, <4>1, NamesTyped DEF TypeOK
      <3> QED BY <3>1 DEF Own, Marked
    <2>5. CASE first[p]
      <3>1. \A m \in Names : Marked(v, m)' <=> m = n
        BY <2>1, <2>3, <2>4, <2>5 DEF Marked
      <3> QED BY <3>1, SettledByNext
    <2>6. CASE ~first[p]
      <3>1. \A m \in Names : Marked(v, m)' <=> Marked(v, m)
        BY <2>1, <2>3, <2>4, <2>6 DEF Marked
      <3>2. PICK l \in Names : \A m \in Names : Marked(v, m) <=> m = l
        BY <2>1, <2>6, SettledBy
      <3> QED BY <3>1, <3>2, SettledByNext
    <2> QED BY <2>5, <2>6
  <1>3. CASE Update(p) /\ cmd[p] = "assign" /\ disk[p] \in Names
    <2> SUFFICES ASSUME vol[p] # v
                 PROVE  FALSE
      BY <1>3
    <2> DEFINE s == ShareName(vol[p], disk[p])
    <2>1. shares[s].volume = vol[p] /\ shares'[s] = [shares[s] EXCEPT !.assigned = ~@]
      BY <1>3, UpdateKnows
    <2>2. shares'[s].volume = vol[p]
      BY <1>3, <2>1 DEF Update, TypeOK, Metadata, Flow
    <2>3. \A n \in Names : ShareName(v, n) = s => ~Own(v, n) /\ ~Own(v, n)'
      BY <2>1, <2>2 DEF Own, Disk
    <2>4. \A n \in Names : ShareName(v, n) # s =>
            shares'[ShareName(v, n)] = shares[ShareName(v, n)]
      BY <1>3, NamesTyped DEF Update, TypeOK
    <2> QED BY <1>1, <2>3, <2>4 DEF Own, Marked
  <1>4. CASE Delete(p) /\ cmd[p] = "delete" /\ pc[p] = "delete"
    <2> DEFINE s == ShareName(vol[p], name[p])
    <2>1. Own(vol[p], name[p]) /\ ~shares[s].assigned /\ shares[s].volume = vol[p]
      BY <1>4, DeletesOwn
    <2>2. shares' = [shares EXCEPT ![s] = None]
      BY <1>4 DEF Delete
    <2>3. \A n \in Names : ShareName(v, n) # s =>
            shares'[ShareName(v, n)] = shares[ShareName(v, n)]
      BY <2>2, NamesTyped DEF TypeOK
    <2>4. \A n \in Names : ShareName(v, n) = s => ~Own(v, n)'
      <3>1. \A n \in Names : None \notin Disk(v, n)
        BY SharesAssumption DEF Disk, Metadata
      <3> QED BY <2>2, <3>1, NamesTyped DEF TypeOK, Own
    <2>5. \A n \in Names : Marked(v, n)' <=> Marked(v, n)
      BY <2>1, <2>3, <2>4 DEF Marked, Own
    <2>6. \A n \in Names : Own(v, n)' => Own(v, n)
      BY <2>3, <2>4 DEF Own
    <2>7. Settled(v)'
      <3>1. CASE \A n \in Names : ~Own(v, n)
        BY <2>6, <3>1, SettledByNext
      <3>2. CASE \E n \in Names : \A m \in Names : Marked(v, m) <=> m = n
        <4>1. PICK n \in Names : \A m \in Names : Marked(v, m) <=> m = n
          BY <3>2
        <4> QED BY <2>5, <4>1, SettledByNext
      <3> QED BY <3>1, <3>2, SettledBy
    <2> QED BY <2>7
  <1> QED BY <1>2, <1>3, <1>4

\* A settled volume stays so through creates and deletes: only an assign of its own,
\* a create in a volume that means one of its shares, or a race unsettles it
\* (volume_backend_files.go:178).
THEOREM StaysSettledHolds == Spec => StaysSettled
  <1>1. TypeOK /\ Inv /\ TypeOK' /\ Inv' /\ [Next]_vars =>
          [\A v \in Volumes : Settled(v) /\ ~Settled(v)' =>
             \E p \in Ops : Acts(p) /\
               \/ ~calm[p]
               \/ cmd[p] = "assign" /\ vol[p] = v
               \/ cmd[p] = "create" /\ vol[p] # v]_vars
    <2> SUFFICES ASSUME TypeOK, Inv, TypeOK', Inv', Next, NEW v \in Volumes,
                        Settled(v), ~Settled(v)'
                 PROVE  \E p \in Ops : Acts(p) /\
                          \/ ~calm[p]
                          \/ cmd[p] = "assign" /\ vol[p] = v
                          \/ cmd[p] = "create" /\ vol[p] # v
      BY DEF vars
    <2>1. PICK p \in Ops : Start(p) \/ Step(p)
      BY DEF Next
    <2>2. CASE calm[p]
      BY <2>1, <2>2, StaysStep
    <2>3. CASE ~calm[p]
      BY <2>1, <2>3, Moves
    <2> QED BY <2>2, <2>3
  <1> QED BY <1>1, Inductive, PTL DEF Spec, StaysSettled

-----------------------------------------------------------------------------
(* The refinement: one invocation at a time, and volumes that are apart.     *)

\* Of an invocation that has nobody beside it.
Alone(p) == pc[p] # "idle" => calm[p]

LEMMA NextAlone ==
  ASSUME TypeOK, NEW p \in Ops, Ops = {p}, Alone(p), [Next]_vars
  PROVE  Alone(p)'
  <1>1. CASE UNCHANGED vars
    BY <1>1 DEF vars, Alone
  <1>2. CASE Start(p)
    BY <1>2 DEF Start, Alone, TypeOK
  <1>3. CASE Step(p)
    <2>1. pc[p] # "idle" /\ calm'[p] = calm[p]
      BY <1>3 DEF Step, EnsureAccount, ListForCreate, Put, ListForAssign, GetShare, Update,
                  AssignDone, ListForDelete, Delete, Fail, Changes, TypeOK, Ended
    <2> QED BY <2>1 DEF Alone
  <1> QED BY <1>1, <1>2, <1>3 DEF Next

\* An assign has a name, also when it has ended.
Named(p) == pc[p] # "idle" /\ cmd[p] = "assign" => name[p] # None

LEMMA NextNamed ==
  ASSUME TypeOK, NEW p \in Ops, Ops = {p}, Named(p), [Next]_vars
  PROVE  Named(p)'
  <1>1. CASE UNCHANGED vars
    BY <1>1 DEF vars, Named
  <1>2. CASE Start(p)
    BY <1>2 DEF Start, Named, TypeOK
  <1>3. CASE Step(p)
    <2>1. pc[p] # "idle" /\ cmd'[p] = cmd[p] /\ (cmd[p] = "assign" => name'[p] = name[p])
      BY <1>3 DEF Step, EnsureAccount, ListForCreate, Put, ListForAssign, GetShare, Update,
                  AssignDone, ListForDelete, Delete, Fail, TypeOK, Ended
    <2> QED BY <2>1 DEF Named
  <1> QED BY <1>1, <1>2, <1>3 DEF Next

\* What VolumeAssignment sees of the only invocation.
Sees(p, v) == Switching(p, v) \/ Reported(p, v)

\* The variables of VolumeAssignment.
DisksOf    == [v \in Volumes |-> NamesOf(Listed(v))]
AssignedIn == [v \in Volumes |-> AssignedOf(v)]
GoalIn     == [v \in Volumes |-> Goal(v)]
SettledIn  == {v \in Volumes : \E p \in Ops : Reported(p, v)}

LEMMA GoalIsName ==
  ASSUME NEW p \in Ops, Ops = {p}, NEW v
  PROVE  Goal(v) = IF Sees(p, v) THEN name[p] ELSE None
  <1>1. Switcher(v) = IF Sees(p, v) THEN {p} ELSE {}
    BY DEF Switcher, Sees
  <1> QED BY <1>1 DEF Goal

LEMMA GoalIsNameNext ==
  ASSUME NEW p \in Ops, Ops = {p}, NEW v
  PROVE  Goal(v)' = IF Sees(p, v)' THEN name'[p] ELSE None
  <1>1. Switcher(v)' = IF Sees(p, v)' THEN {p} ELSE {}
    BY DEF Switcher, Sees
  <1> QED BY <1>1 DEF Goal

\* What is seen is about the volume at hand, and names a disk.
LEMMA SeesOne ==
  ASSUME TypeOK, NEW p \in Ops, NEW v, Sees(p, v)
  PROVE  v = vol[p] /\ v \in Volumes
  BY DEF TypeOK, Sees, Switching, Reported

\* Without a write, the volumes look the same.
LEMMA Untouched ==
  ASSUME UNCHANGED shares
  PROVE  DisksOf' = DisksOf /\ AssignedIn' = AssignedIn
  BY DEF DisksOf, AssignedIn, AssignedOf, NamesOf, Listed

\* The write of one share changes its own volume, and no other.
LEMMA OneWrite ==
  ASSUME TypeOK, TypeOK', Placed, Placed', Apart, NEW w \in Volumes, NEW k \in Names, NEW x,
         shares' = [shares EXCEPT ![ShareName(w, k)] = x]
  PROVE  /\ DisksOf' = [DisksOf EXCEPT ![w] = IF Own(w, k)' THEN @ \cup {k} ELSE @ \ {k}]
         /\ AssignedIn' = [AssignedIn EXCEPT ![w] = IF Marked(w, k)' THEN @ \cup {k} ELSE @ \ {k}]
  <1>1. Lined /\ Lined'
    BY LinedUp, LinedUpNext
  <1>2. \A v \in Volumes, m \in Names : ~(v = w /\ m = k) =>
          shares'[ShareName(v, m)] = shares[ShareName(v, m)]
    <2>1. \A v \in Volumes, m \in Names : ~(v = w /\ m = k) => ShareName(v, m) # ShareName(w, k)
      BY OneName DEF Apart
    <2> QED BY <2>1, NamesTyped DEF TypeOK
  <1>3. \A v \in Volumes, m \in Names : ~(v = w /\ m = k) =>
          /\ Own(v, m)' <=> Own(v, m)
          /\ Marked(v, m)' <=> Marked(v, m)
    BY <1>2 DEF Own, Marked
  <1>4. \A v \in Volumes : /\ NamesOf(Listed(v)) = {n \in Names : Own(v, n)}
                           /\ AssignedOf(v) = {n \in Names : Marked(v, n)}
                           /\ NamesOf(Listed(v))' = {n \in Names : Own(v, n)'}
                           /\ AssignedOf(v)' = {n \in Names : Marked(v, n)'}
    BY <1>1 DEF Lined
  <1> DEFINE d(v) == NamesOf(Listed(v))  a(v) == AssignedOf(v)
  <1>5. ASSUME NEW v \in Volumes
        PROVE  /\ d(v)' = IF v = w THEN IF Own(w, k)' THEN d(v) \cup {k} ELSE d(v) \ {k} ELSE d(v)
               /\ a(v)' = IF v = w THEN IF Marked(w, k)' THEN a(v) \cup {k} ELSE a(v) \ {k} ELSE a(v)
    <2>1. CASE v # w
      BY <1>3, <1>4, <2>1
    <2>2. CASE v = w
      <3>1. \A m \in Names : m \in d(w)' <=> IF m = k THEN Own(w, k)' ELSE m \in d(w)
        BY <1>3, <1>4
      <3>2. \A m \in Names : m \in a(w)' <=> IF m = k THEN Marked(w, k)' ELSE m \in a(w)
        BY <1>3, <1>4
      <3>3. d(w) \subseteq Names /\ d(w)' \subseteq Names /\ a(w) \subseteq Names /\ a(w)' \subseteq Names
        BY <1>4
      <3>4. d(w)' = IF Own(w, k)' THEN d(w) \cup {k} ELSE d(w) \ {k}
        <4> HIDE DEF d
        <4> QED BY <3>1, <3>3
      <3>5. a(w)' = IF Marked(w, k)' THEN a(w) \cup {k} ELSE a(w) \ {k}
        <4> HIDE DEF a
        <4> QED BY <3>2, <3>3
      <3> QED BY <2>2, <3>4, <3>5
    <2> QED BY <2>1, <2>2
  <1>6. /\ DisksOf = [v \in Volumes |-> d(v)] /\ DisksOf' = [v \in Volumes |-> d(v)']
        /\ AssignedIn = [v \in Volumes |-> a(v)] /\ AssignedIn' = [v \in Volumes |-> a(v)']
    BY DEF DisksOf, AssignedIn
  <1> HIDE DEF d, a
  <1> QED BY <1>5, <1>6

\* Nothing is seen of the step: a stutter.
LEMMA Stutter ==
  ASSUME NEW p \in Ops, Ops = {p}, UNCHANGED shares,
         \A v \in Volumes :
           /\ Sees(p, v)' <=> Sees(p, v)
           /\ Reported(p, v)' <=> Reported(p, v)
           /\ Sees(p, v) => name'[p] = name[p]
  PROVE  UNCHANGED Promise!vars
  <1>1. GoalIn' = GoalIn
    BY GoalIsName, GoalIsNameNext DEF GoalIn
  <1>2. SettledIn' = SettledIn
    BY DEF SettledIn
  <1> QED BY <1>1, <1>2, Untouched DEF Promise!vars, DisksOf, AssignedIn, GoalIn, SettledIn

\* Nothing is seen after the step: it leaves what was seen, if anything.
LEMMA Unwatched ==
  ASSUME TypeOK, NEW p \in Ops, Ops = {p}, Named(p), UNCHANGED shares,
         pc'[p] \notin {"get", "update"}, pc'[p] = "ok" => cmd'[p] # "assign",
         pc[p] \in {"get", "update"} => cmd[p] = "assign"
  PROVE  Promise!Next \/ UNCHANGED Promise!vars
  <1>1. \A v \in Volumes : ~Sees(p, v)' /\ ~Reported(p, v)'
    BY DEF Sees, Switching, Reported
  <1>2. ASSUME NEW w \in Volumes, Sees(p, w)
        PROVE  Promise!Leave(w)
    <2>1. name[p] # None /\ \A v \in Volumes : Sees(p, v) => v = w
      BY <1>2, SeesOne DEF Named, Sees, Switching, Reported
    <2>2. GoalIn[w] # None /\ GoalIn' = [GoalIn EXCEPT ![w] = None]
      BY <1>1, <1>2, <2>1, GoalIsName, GoalIsNameNext DEF GoalIn
    <2>3. SettledIn' = SettledIn \ {w}
      BY <1>1, <2>1 DEF SettledIn, Sees
    <2> QED BY <2>2, <2>3, Untouched DEF Promise!Leave, DisksOf, AssignedIn, GoalIn, SettledIn
  <1>3. CASE \A w \in Volumes : ~Sees(p, w)
    <2>1. \A v \in Volumes : ~Reported(p, v)
      BY <1>3 DEF Sees
    <2> QED BY <1>1, <1>3, <2>1, Stutter
  <1> QED BY <1>2, <1>3 DEF Promise!Next

\* An assign that has listed its disk: Choose.
LEMMA IsChoose ==
  ASSUME TypeOK, NEW p \in Ops, Ops = {p}, ListForAssign(p)
  PROVE  Promise!Next
  <1> DEFINE w == vol[p]
  <1>1. /\ pc[p] = "list" /\ pc'[p] = "get" /\ w \in Volumes
        /\ name[p] \in NamesOf(Listed(w)) /\ UNCHANGED <<shares, vol, name>>
    BY DEF ListForAssign, Goto, TypeOK
  <1>2. \A v \in Volumes : /\ ~Sees(p, v)
                           /\ Sees(p, v)' <=> v = w
                           /\ ~Reported(p, v) /\ ~Reported(p, v)'
    BY <1>1 DEF Sees, Switching, Reported
  <1>3. /\ GoalIn[w] = None
        /\ GoalIn' = [GoalIn EXCEPT ![w] = name[p]]
    BY <1>1, <1>2, GoalIsName, GoalIsNameNext DEF GoalIn
  <1>4. SettledIn' = SettledIn
    BY <1>2 DEF SettledIn
  <1>5. name[p] \in DisksOf[w] /\ name[p] \in Names
    <2>1. NamesOf(Listed(w)) \subseteq Names
      BY DEF NamesOf, Listed
    <2> QED BY <1>1, <2>1 DEF DisksOf
  <1>6. Promise!Choose(w, name[p])
    BY <1>1, <1>3, <1>4, <1>5, Untouched DEF Promise!Choose, DisksOf, AssignedIn, GoalIn, SettledIn
  <1> QED BY <1>1, <1>5, <1>6 DEF Promise!Next

\* An assign that has nothing left to change: Complete.
LEMMA IsComplete ==
  ASSUME TypeOK, Placed, NEW p \in Ops, Ops = {p}, Flow(p), Named(p), Knows(p), AssignDone(p)
  PROVE  Promise!Next
  <1> DEFINE w == vol[p]
  <1>1. /\ pc[p] = "get" /\ pc'[p] = "ok" /\ w \in Volumes /\ cmd[p] = "assign"
        /\ name[p] \in Names /\ name[p] # None
        /\ UNCHANGED <<shares, vol, name, cmd>>
        /\ Differing(w, name[p]) = {} /\ Has(p, name[p])
    BY DEF AssignDone, Goto, TypeOK, Flow, Named, Knows, Ended
  <1>2. \A v \in Volumes : /\ Sees(p, v) <=> v = w
                           /\ Sees(p, v)' <=> v = w
                           /\ ~Reported(p, v)
                           /\ Reported(p, v)' <=> v = w
    BY <1>1 DEF Sees, Switching, Reported
  <1>3. GoalIn[w] = name[p] /\ GoalIn' = GoalIn
    BY <1>1, <1>2, GoalIsName, GoalIsNameNext DEF GoalIn
  <1>4. SettledIn' = SettledIn \cup {w}
    BY <1>1, <1>2 DEF SettledIn
  <1>5. AssignedOf(w) = {name[p]}
    <2>1. /\ \A m \in Names : ~(Own(w, m) /\ ((m = name[p]) # shares[ShareName(w, m)].assigned))
          /\ Own(w, name[p])
          /\ AssignedOf(w) = {n \in Names : Marked(w, n)}
      BY <1>1, LinedUp DEF Lined, Has
    <2>2. \A m \in Names : Marked(w, m) <=> m = name[p]
      BY <1>1, <2>1 DEF Marked
    <2> QED BY <1>1, <2>1, <2>2
  <1>6. Promise!Complete(w)
    BY <1>1, <1>3, <1>4, <1>5, Untouched DEF Promise!Complete, DisksOf, AssignedIn, GoalIn, SettledIn
  <1> QED BY <1>1, <1>6 DEF Promise!Next

\* The flag of a share changes: Move.
LEMMA IsMove ==
  ASSUME TypeOK, Inv, TypeOK', Inv', Apart, NEW p \in Ops, Ops = {p}, calm[p], Update(p),
         shares' # shares
  PROVE  Promise!Next
  <1>0. PICK w \in Volumes, k \in Names : w = vol[p] /\ k = disk[p]
    BY CalmWrites DEF Step, Update, Put, Delete
  <1>1. /\ name[p] \in Names
        /\ Knows(p) /\ Placed /\ Placed' /\ Lined
        /\ pc[p] = "update" /\ pc'[p] = "get" /\ UNCHANGED <<vol, name, cmd>>
    BY CalmWrites DEF Step, Update, Put, Delete, Goto, TypeOK
  <1>2. /\ k \in Differing(w, name[p]) /\ shares[ShareName(w, k)] = got[p]
    BY <1>0, <1>1 DEF Knows
  <1>3. Own(w, k) /\ ((k = name[p]) # shares[ShareName(w, k)].assigned)
    BY <1>1, <1>2 DEF Lined
  <1>4. shares' = [shares EXCEPT ![ShareName(w, k)] =
                     [shares[ShareName(w, k)] EXCEPT !.assigned = (k = name[p])]]
    BY <1>0, <1>2 DEF Update
  <1>5. Own(w, k)' /\ (Marked(w, k)' <=> k = name[p])
    <2>1. shares'[ShareName(w, k)] =
            [shares[ShareName(w, k)] EXCEPT !.assigned = (k = name[p])]
      BY <1>1, <1>4, NamesTyped DEF TypeOK
    <2>2. shares'[ShareName(w, k)] \in Disk(w, k) /\ shares'[ShareName(w, k)].assigned = (k = name[p])
      BY <1>3, <2>1 DEF Own, Disk
    <2>3. Own(w, k)' <=> shares'[ShareName(w, k)] \in Disk(w, k)
      BY DEF Own
    <2> QED BY <1>1, <2>2, <2>3 DEF Marked
  <1>6. k \in DisksOf[w] /\ (k # name[p] => k \in AssignedIn[w])
    <2>1. NamesOf(Listed(w)) = {n \in Names : Own(w, n)} /\ AssignedOf(w) = {n \in Names : Marked(w, n)}
      BY <1>1 DEF Lined
    <2>2. k # name[p] => Marked(w, k)
      <3>1. shares[ShareName(w, k)].assigned \in BOOLEAN
        BY <1>3 DEF Own, Disk
      <3> QED BY <1>3, <3>1 DEF Marked
    <2> QED BY <1>3, <2>1, <2>2 DEF DisksOf, AssignedIn
  <1>7. /\ DisksOf' = [DisksOf EXCEPT ![w] = @ \cup {k}]
        /\ AssignedIn' = [AssignedIn EXCEPT ![w] = IF k = name[p] THEN @ \cup {k} ELSE @ \ {k}]
    BY <1>1, <1>4, <1>5, OneWrite
  <1>8. DisksOf' = DisksOf
    BY <1>1, <1>6, <1>7 DEF DisksOf
  <1>9. \A v \in Volumes : /\ Sees(p, v) <=> v = w
                           /\ Sees(p, v)' <=> v = w
                           /\ ~Reported(p, v) /\ ~Reported(p, v)'
    BY <1>0, <1>1 DEF Sees, Switching, Reported
  <1>10. GoalIn[w] = name[p] /\ GoalIn' = GoalIn /\ SettledIn' = SettledIn /\ w \notin SettledIn
    BY <1>0, <1>1, <1>9, GoalIsName, GoalIsNameNext DEF GoalIn, SettledIn
  <1>11. name[p] # None
    BY <1>1, SharesAssumption
  <1>12. \/ AssignedIn' = [AssignedIn EXCEPT ![w] = @ \cup {GoalIn[w]}]
         \/ \E n \in AssignedIn[w] \ {GoalIn[w]} : AssignedIn' = [AssignedIn EXCEPT ![w] = @ \ {n}]
    BY <1>6, <1>7, <1>10
  <1>13. Promise!Move(w)
    BY <1>8, <1>10, <1>11, <1>12 DEF Promise!Move, DisksOf, AssignedIn, GoalIn, SettledIn
  <1> QED BY <1>1, <1>13 DEF Promise!Next

\* Creates and deletes show nothing but the share they write.
LEMMA Unseen ==
  ASSUME NEW p \in Ops, Ops = {p}, UNCHANGED <<cmd>>, cmd[p] # "assign",
         pc[p] \notin {"get", "update"}, pc'[p] \notin {"get", "update"}
  PROVE  GoalIn' = GoalIn /\ SettledIn' = SettledIn
  <1>1. \A v \in Volumes : /\ ~Sees(p, v) /\ ~Sees(p, v)'
                           /\ ~Reported(p, v) /\ ~Reported(p, v)'
    BY DEF Sees, Switching, Reported
  <1> QED BY <1>1, GoalIsName, GoalIsNameNext DEF GoalIn, SettledIn

\* A share is created: Add.
LEMMA IsAdd ==
  ASSUME TypeOK, Inv, TypeOK', Inv', Apart, NEW p \in Ops, Ops = {p}, calm[p], Put(p),
         shares' # shares
  PROVE  Promise!Next
  <1> DEFINE w == vol[p]  k == name[p]
  <1>1. /\ w \in Volumes /\ k \in Names
        /\ Knows(p) /\ Placed /\ Placed' /\ Lined
        /\ pc[p] = "put" /\ cmd[p] = "create" /\ pc'[p] \in {"ok", "failed"}
        /\ UNCHANGED <<vol, name, cmd>>
    BY CalmWrites DEF Step, Update, Put, Delete, Goto, TypeOK
  <1>2. shares' = [shares EXCEPT ![ShareName(w, k)] =
                     [volume |-> w, name |-> k, assigned |-> first[p]]]
    BY DEF Put, PutShare
  <1>3. ~Own(w, k) /\ first[p] \in BOOLEAN /\ first[p] = (Listed(w) = {})
    BY <1>1 DEF Knows, Has, Lined, TypeOK
  <1>4. Own(w, k)' /\ (Marked(w, k)' <=> first[p])
    <2>1. shares'[ShareName(w, k)] = [volume |-> w, name |-> k, assigned |-> first[p]]
      BY <1>1, <1>2, NamesTyped DEF TypeOK
    <2>2. Own(w, k)' <=> shares'[ShareName(w, k)] \in Disk(w, k)
      BY <1>1 DEF Own
    <2> QED BY <1>1, <1>3, <2>1, <2>2 DEF Marked, Disk
  <1>5. /\ k \notin DisksOf[w] /\ k \notin AssignedIn[w]
        /\ first[p] => DisksOf[w] = {} /\ AssignedIn[w] = {}
    BY <1>1, <1>3 DEF Lined, Marked, DisksOf, AssignedIn
  <1>6. /\ DisksOf' = [DisksOf EXCEPT ![w] = @ \cup {k}]
        /\ AssignedIn' = [AssignedIn EXCEPT ![w] = IF first[p] THEN @ \cup {k} ELSE @ \ {k}]
    BY <1>1, <1>2, <1>4, OneWrite
  <1>7. \/ AssignedIn' = AssignedIn
        \/ DisksOf[w] = {} /\ AssignedIn' = [AssignedIn EXCEPT ![w] = {k}]
    <2>1. w \in DOMAIN AssignedIn /\ AssignedIn = [v \in DOMAIN AssignedIn |-> AssignedIn[v]]
      BY <1>1 DEF AssignedIn
    <2>2. CASE first[p]
      <3>1. AssignedIn[w] \cup {k} = {k} /\ DisksOf[w] = {}
        BY <1>5, <2>2
      <3> QED BY <1>6, <2>2, <3>1
    <2>3. CASE ~first[p]
      <3>1. AssignedIn[w] \ {k} = AssignedIn[w]
        BY <1>5
      <3> QED BY <1>6, <2>1, <2>3, <3>1
    <2> QED BY <2>2, <2>3
  <1>8. GoalIn' = GoalIn /\ SettledIn' = SettledIn
    BY <1>1, Unseen
  <1>9. Promise!Add(w, k)
    BY <1>5, <1>6, <1>7, <1>8 DEF Promise!Add, DisksOf, AssignedIn, GoalIn, SettledIn
  <1> QED BY <1>1, <1>9 DEF Promise!Next

\* A share is deleted: Remove.
LEMMA IsRemove ==
  ASSUME TypeOK, Inv, TypeOK', Inv', Apart, NEW p \in Ops, Ops = {p}, calm[p], Delete(p),
         shares' # shares
  PROVE  Promise!Next
  <1> DEFINE w == vol[p]  k == name[p]
  <1>1. /\ w \in Volumes /\ k \in Names
        /\ Knows(p) /\ Placed /\ Placed' /\ Lined
        /\ pc[p] = "delete" /\ cmd[p] = "delete" /\ pc'[p] \in {"ok", "failed"}
        /\ UNCHANGED <<vol, name, cmd>>
    BY CalmWrites DEF Step, Update, Put, Delete, Goto, TypeOK
  <1>2. shares' = [shares EXCEPT ![ShareName(w, k)] = None]
    BY DEF Delete
  <1>3. ~Own(w, k)' /\ ~Marked(w, k)'
    <2>1. shares'[ShareName(w, k)] = None
      BY <1>1, <1>2, NamesTyped DEF TypeOK
    <2>2. Own(w, k)' <=> None \in Disk(w, k)
      BY <1>1, <2>1 DEF Own
    <2>3. None \notin Disk(w, k)
      BY <1>1, SharesAssumption DEF Disk, Metadata
    <2> QED BY <1>1, <2>2, <2>3 DEF Marked
  <1>4. k \notin AssignedIn[w]
    BY <1>1 DEF Knows, AssignedIn
  <1>5. /\ DisksOf' = [DisksOf EXCEPT ![w] = @ \ {k}]
        /\ AssignedIn' = [AssignedIn EXCEPT ![w] = @ \ {k}]
    BY <1>1, <1>2, <1>3, OneWrite
  <1>6. AssignedIn' = AssignedIn
    BY <1>1, <1>4, <1>5 DEF AssignedIn
  <1>7. GoalIn' = GoalIn /\ SettledIn' = SettledIn
    BY <1>1, Unseen
  <1>8. Promise!Remove(w, k)
    BY <1>4, <1>5, <1>6, <1>7 DEF Promise!Remove, DisksOf, AssignedIn, GoalIn, SettledIn
  <1> QED BY <1>1, <1>8 DEF Promise!Next

LEMMA NextPromise ==
  ASSUME TypeOK, Inv, TypeOK', Inv', Apart, NEW p \in Ops, Ops = {p}, Alone(p), Named(p),
         [Next]_vars
  PROVE  [Promise!Next]_(Promise!vars)
  <1>1. Flow(p) /\ Placed /\ (pc[p] \in {"get", "update"} => cmd[p] = "assign")
    BY DEF Inv, Flow
  <1>2. CASE UNCHANGED vars
    <2>1. /\ UNCHANGED <<shares, name>>
          /\ \A v \in Volumes : /\ Sees(p, v)' <=> Sees(p, v)
                                /\ Reported(p, v)' <=> Reported(p, v)
      BY <1>2 DEF vars, Sees, Switching, Reported
    <2> QED BY <2>1, Stutter
  <1>3. CASE Start(p)
    <2>1. UNCHANGED shares /\ pc'[p] \in {"account", "list"}
      BY <1>3 DEF Start, Goto, TypeOK
    <2> QED BY <1>1, <2>1, Unwatched
  <1>4. CASE Step(p) /\ shares' # shares
    <2>1. pc[p] # "idle"
      BY <1>4 DEF Step, EnsureAccount, ListForCreate, Put, ListForAssign, GetShare, Update,
                  AssignDone, ListForDelete, Delete, Fail, Ended
    <2>2. Put(p) \/ Update(p) \/ Delete(p)
      BY <1>4, <2>1, CalmWrites DEF Alone
    <2> QED BY <1>4, <2>1, <2>2, IsAdd, IsMove, IsRemove DEF Alone
  <1>5. CASE Step(p) /\ shares' = shares
    <2>1. CASE ListForAssign(p)
      BY <2>1, IsChoose
    <2>2. CASE AssignDone(p)
      <3>1. Knows(p)
        BY <2>2 DEF AssignDone, Alone, Inv
      <3> QED BY <1>1, <2>2, <3>1, IsComplete
    <2>3. CASE GetShare(p) \/ Update(p)
      <3>1. /\ pc[p] \in {"get", "update"} /\ pc'[p] \in {"get", "update"}
            /\ UNCHANGED <<vol, name, cmd>>
        BY <2>3 DEF GetShare, Update, Goto, TypeOK
      <3>2. \A v \in Volumes : /\ Sees(p, v)' <=> Sees(p, v)
                               /\ Reported(p, v)' <=> Reported(p, v)
        BY <3>1 DEF Sees, Switching, Reported
      <3> QED BY <1>5, <3>1, <3>2, Stutter
    <2>4. CASE EnsureAccount(p) \/ ListForCreate(p) \/ ListForDelete(p) \/ Put(p) \/ Delete(p) \/ Fail(p)
      <3>1. /\ pc'[p] \notin {"get", "update"} /\ cmd' = cmd
            /\ pc'[p] = "ok" => cmd[p] # "assign"
        BY <1>1, <2>4 DEF EnsureAccount, ListForCreate, ListForDelete, Put, Delete, Fail, Goto,
                          TypeOK, Flow
      <3> QED BY <1>1, <1>5, <3>1, Unwatched
    <2> QED BY <1>5, <2>1, <2>2, <2>3, <2>4 DEF Step
  <1> QED BY <1>2, <1>3, <1>4, <1>5 DEF Next

LEMMA InitPromise ==
  ASSUME Init, NEW p \in Ops, Ops = {p}
  PROVE  Promise!Init /\ Alone(p) /\ Named(p)
  <1>1. \A v \in Volumes : ~Sees(p, v) /\ ~Reported(p, v)
    BY DEF Init, Sees, Switching, Reported
  <1>2. GoalIn = [v \in Volumes |-> None] /\ SettledIn = {}
    BY <1>1, GoalIsName DEF GoalIn, SettledIn
  <1>3. \A v \in Volumes : NamesOf(Listed(v)) = {} /\ AssignedOf(v) = {}
    BY DEF Init, NamesOf, AssignedOf, Listed
  <1>4. DisksOf = [v \in Volumes |-> {}] /\ AssignedIn = [v \in Volumes |-> {}]
    BY <1>3 DEF DisksOf, AssignedIn
  <1>5. Promise!Init
    BY <1>2, <1>4 DEF Promise!Init, DisksOf, AssignedIn, GoalIn, SettledIn
  <1> QED BY <1>5 DEF Init, Alone, Named

\* With one CLI invocation at a time, whichever of its calls fail and whether their
\* answers are lost, the shares of volumes that mean none of one another's do what
\* VolumeAssignment says, as the disks of the other backend do: only the first share
\* of a volume is assigned when it is made (volume_backend_files.go:178), assigned
\* flags move only while an assign (volume_backend_files.go:285) moves them to its
\* share, an assign that succeeds leaves exactly that share assigned, and DiskDelete
\* (disk_delete.go:53) never removes an assigned one.
THEOREM KeepsPromiseHolds ==
  ASSUME NEW p \in Ops, Ops = {p}, Apart
  PROVE  Spec => KeepsPromise
  <1>1. Init => Promise!Init /\ Alone(p) /\ Named(p)
    BY InitPromise
  <1>2. TypeOK /\ Inv /\ TypeOK' /\ Inv' /\ Alone(p) /\ Named(p) /\ [Next]_vars =>
          Alone(p)' /\ Named(p)' /\ [Promise!Next]_(Promise!vars)
    BY NextAlone, NextNamed, NextPromise
  <1> QED BY <1>1, <1>2, Inductive, PTL DEF Spec, KeepsPromise, Promise!Spec
=============================================================================
