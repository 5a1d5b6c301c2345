-------------------------- MODULE DnsRecords_proofs --------------------------
(***************************************************************************)
(* The properties of DnsRecords, for any zones, hosts, addresses and any   *)
(* number of invocations.                                                  *)
(*                                                                         *)
(* The lemmas about names come first: of the zones that a host's name ends *)
(* with, the longest lies in all the others, so that the zone the driver   *)
(* picks is the one that answers.  The invariant follows the record sets   *)
(* of a command from its list to the zone, for as long as nobody else      *)
(* changes a host or a record, and knows that addresses are only written   *)
(* where they are looked for.                                              *)
(***************************************************************************)
EXTENDS DnsRecords, TLAPS, WellFoundedInduction

-----------------------------------------------------------------------------
(* Names.                                                                    *)

\* A name read from behind.
LEMMA ReverseIs ==
  ASSUME NEW L, NEW s \in Seq(L)
  PROVE  /\ Reverse(s) \in Seq(L) /\ Len(Reverse(s)) = Len(s)
         /\ \A i \in 1 .. Len(s) : Reverse(s)[i] = s[Len(s) - i + 1]
  BY DEF Reverse

\* A suffix, from behind.
LEMMA SuffixIs ==
  ASSUME NEW L, NEW s \in Seq(L), NEW t \in Seq(L)
  PROVE  IsSuffix(s, t) <=>
           Len(s) <= Len(t) /\ \A i \in 1 .. Len(s) : s[Len(s) - i + 1] = t[Len(t) - i + 1]
  <1>1. ASSUME Len(s) <= Len(t)
        PROVE  SubSeq(Reverse(s), 1, Len(s)) = SubSeq(Reverse(t), 1, Len(s)) <=>
                 \A i \in 1 .. Len(s) : Reverse(s)[i] = Reverse(t)[i]
    <2>1. /\ SubSeq(Reverse(s), 1, Len(s)) \in Seq(L)
          /\ SubSeq(Reverse(t), 1, Len(s)) \in Seq(L)
          /\ Len(SubSeq(Reverse(s), 1, Len(s))) = Len(s)
          /\ Len(SubSeq(Reverse(t), 1, Len(s))) = Len(s)
          /\ \A i \in 1 .. Len(s) : /\ SubSeq(Reverse(s), 1, Len(s))[i] = Reverse(s)[i]
                                    /\ SubSeq(Reverse(t), 1, Len(s))[i] = Reverse(t)[i]
      BY <1>1, ReverseIs
    <2> QED BY <2>1
  <1> QED BY <1>1, ReverseIs DEF IsSuffix, IsPrefix

\* Of two suffixes of a name the shorter is one of the longer.
LEMMA SuffixesNest ==
  ASSUME NEW L, NEW s \in Seq(L), NEW t \in Seq(L), NEW u \in Seq(L),
         IsSuffix(s, u), IsSuffix(t, u), Len(s) <= Len(t)
  PROVE  IsSuffix(s, t)
  <1>1. Len(t) <= Len(u) /\ \A i \in 1 .. Len(s) : s[Len(s) - i + 1] = u[Len(u) - i + 1]
    BY SuffixIs
  <1>2. \A i \in 1 .. Len(t) : t[Len(t) - i + 1] = u[Len(u) - i + 1]
    BY SuffixIs
  <1>3. \A i \in 1 .. Len(s) : s[Len(s) - i + 1] = t[Len(t) - i + 1]
    BY <1>1, <1>2
  <1> QED BY <1>3, SuffixIs

\* Names that are suffixes of each other are equal.
LEMMA SuffixAntisymmetric ==
  ASSUME NEW L, NEW s \in Seq(L), NEW t \in Seq(L), IsSuffix(s, t), IsSuffix(t, s)
  PROVE  s = t
  <1>1. Len(s) = Len(t)
    BY SuffixIs
  <1>2. \A i \in 1 .. Len(s) : s[Len(s) - i + 1] = t[Len(s) - i + 1]
    BY <1>1, SuffixIs
  <1>3. ASSUME NEW i \in 1 .. Len(s) PROVE s[i] = t[i]
    <2>1. Len(s) - i + 1 \in 1 .. Len(s) /\ Len(s) - (Len(s) - i + 1) + 1 = i
      OBVIOUS
    <2> QED BY <1>2, <2>1
  <1> QED BY <1>1, <1>3

-----------------------------------------------------------------------------
(* The zone of a host and the record set at hand.                            *)

\* A set of naturals has a least element.
LEMMA LeastNatural ==
  ASSUME NEW S \in SUBSET Nat, S # {}
  PROVE  \E m \in S : \A n \in S : m <= n
  <1>1. PICK m \in S : \A n \in S : ~ (<<n, m>> \in OpToRel(<, Nat))
    BY WFMin, NatLessThanWellFounded
  <1>2. \A n \in S : ~ (n < m)
    BY <1>1 DEF OpToRel
  <1> QED BY <1>2

\* Zones and hosts are sequences of labels.
LEMMA Names == Zones \subseteq Seq(Labels) /\ Hosts \subseteq Seq(Labels)
  BY DnsAssumption

\* The zones that match a host are zones, and no longer than it.
LEMMA MatchingTypes ==
  ASSUME TypeOK, NEW h \in Hosts
  PROVE  Matching(h) \subseteq Zones /\ \A z \in Matching(h) : IsSuffix(z, h) /\ Len(z) <= Len(h)
  <1>1. Configured \subseteq Zones
    BY DnsAssumption DEF Configured, TypeOK, ToSet
  <1>2. \A z \in Matching(h) : z \in Zones /\ IsSuffix(z, h)
    BY <1>1 DEF Matching
  <1>3. \A z \in Matching(h) : Len(z) <= Len(h)
    BY <1>2, SuffixIs, Names
  <1> QED BY <1>2, <1>3

\* The longest zone that matches is one.
LEMMA BestTypes ==
  ASSUME TypeOK, NEW h \in Hosts, Matching(h) # {}
  PROVE  /\ Best(h) \in Matching(h)
         /\ \A y \in Matching(h) : Len(y) <= Len(Best(h))
         /\ <<Best(h), h>> \in Places
  <1> DEFINE Rest(z) == Len(h) - Len(z)
             S == {Rest(z) : z \in Matching(h)}
  <1>1. \A z \in Matching(h) : Rest(z) \in Nat /\ Len(z) \in Nat
    BY MatchingTypes, Names
  <1>2. S \in SUBSET Nat /\ S # {}
    BY <1>1
  <1>3. PICK m \in S : \A n \in S : m <= n
    BY <1>2, LeastNatural
  <1>4. PICK z \in Matching(h) : m = Rest(z)
    BY <1>3
  <1>5. \A y \in Matching(h) : Len(y) <= Len(z)
    <2> TAKE y \in Matching(h)
    <2>1. Rest(z) <= Rest(y)
      BY <1>3, <1>4
    <2> QED BY <2>1, <1>1, Names
  <1>6. Best(h) \in Matching(h) /\ \A y \in Matching(h) : Len(y) <= Len(Best(h))
    BY <1>4, <1>5 DEF Best
  <1>7. <<Best(h), h>> \in Places
    BY <1>6, MatchingTypes DEF Places
  <1> QED BY <1>6, <1>7

\* The longest zone that matches lies in all others that match: it answers for the host.
LEMMA BestAnswers ==
  ASSUME TypeOK, NEW h \in Hosts, Matching(h) # {}
  PROVE  Answering(h) = Best(h)
  <1>1. Best(h) \in Matching(h) /\ \A y \in Matching(h) : Len(y) <= Len(Best(h))
    BY BestTypes
  <1>2. \A y \in Matching(h) : y \in Seq(Labels) /\ IsSuffix(y, h)
    BY MatchingTypes, Names
  <1>3. \A y \in Matching(h) : IsSuffix(y, Best(h))
    BY <1>1, <1>2, Names, SuffixesNest
  <1> DEFINE Right(z) == z \in Configured /\ IsSuffix(z, h) /\ \A y \in Matching(h) : IsSuffix(y, z)
  <1>4. Right(Best(h))
    BY <1>1, <1>3 DEF Matching
  <1>5. ASSUME NEW z, Right(z) PROVE z = Best(h)
    <2>1. z \in Matching(h)
      BY <1>5 DEF Matching
    <2>2. IsSuffix(z, Best(h)) /\ IsSuffix(Best(h), z)
      BY <2>1, <1>1, <1>3, <1>5
    <2> QED BY <2>1, <2>2, <1>1, <1>2, SuffixAntisymmetric
  <1>6. Right(Answering(h))
    <2>1. \E z \in Configured : IsSuffix(z, h) /\ \A y \in Matching(h) : IsSuffix(y, z)
      BY <1>4
    <2> QED BY <2>1 DEF Answering
  <1> QED BY <1>5, <1>6

\* The choice of the zone only depends on the setting.
LEMMA SameZones ==
  ASSUME setting' = setting
  PROVE  \A h : Matching(h)' = Matching(h) /\ Best(h)' = Best(h)
  <1>1. Configured' = Configured
    BY DEF Configured
  <1> QED BY <1>1 DEF Matching, Best

\* The place of an element in a list.
LEMMA AtTypes ==
  ASSUME NEW L, NEW list \in Seq(L), NEW x \in ToSet(list)
  PROVE  At(x, list) \in Nat
  <1>1. \E i \in DOMAIN list : list[i] = x
    BY DEF ToSet
  <1>2. At(x, list) \in DOMAIN list
    BY <1>1 DEF At
  <1> QED BY <1>2

\* What is at hand is one of what is to do.
LEMMA FirstTypes ==
  ASSUME TypeOK, NEW p \in Ops, todo[p] # {}
  PROVE  First(p) \in todo[p] /\ First(p) \in Hosts \X Types \X Addresses
  <1>1. todo[p] \subseteq Hosts \X Types \X Addresses
    BY DEF TypeOK
  <1>2. \A e \in todo[p] : Rank(e) \in Nat
    <2>1. \A h \in Hosts : At(h, Order) \in Nat
      BY AtTypes, DnsAssumption DEF Hosts
    <2>2. TypeOrder \in Seq(ToSet(TypeOrder))
      BY DEF TypeOrder, ToSet
    <2>3. \A t \in Types : At(t, TypeOrder) \in Nat
      BY <2>2, AtTypes DEF Types
    <2> QED BY <1>1, <2>1, <2>3 DEF Rank
  <1> DEFINE S == {Rank(e) : e \in todo[p]}
  <1>3. PICK m \in S : \A n \in S : m <= n
    BY <1>2, LeastNatural
  <1>4. PICK e \in todo[p] : m = Rank(e)
    BY <1>3
  <1>5. \A f \in todo[p] : Rank(e) <= Rank(f)
    BY <1>3, <1>4
  <1>6. First(p) \in todo[p]
    BY <1>4, <1>5 DEF First
  <1> QED BY <1>1, <1>6

-----------------------------------------------------------------------------
(* What a step of one invocation leaves alone.                               *)

\* The names of the types and of the values that are not addresses differ.
LEMMA Words ==
  /\ Types = {"A", "AAAA", "CNAME"}
  /\ "none" \notin IPs /\ "pending" \notin IPs /\ "foreign" \notin IPs
  <1>1. Types = {"A", "AAAA", "CNAME"}
    <2>1. DOMAIN TypeOrder = {1, 2, 3}
      BY DEF TypeOrder
    <2> QED BY <2>1 DEF Types, ToSet, TypeOrder
  <1> QED BY <1>1, DnsAssumption

\* What of an invocation only its own steps change.
Mine(q) == <<pc[q], cmd[q], flags[q], todo[q], had[q], swallowed[q]>>

\* The invariant of one invocation.
Kept(q) == Known(q) /\ Listed(q) /\ Resolving(q) /\ Clearing(q)

\* What no control point of q depends on: the steps of others that change nothing in
\* the world, and all that end its calm.
LEMMA OthersKept ==
  ASSUME TypeOK, NEW q \in Ops, Kept(q), Mine(q)' = Mine(q), setting' = setting,
         \/ UNCHANGED world /\ calm'[q] = calm[q]
         \/ ~calm'[q]
  PROVE  Kept(q)'
  <1>1. /\ pc'[q] = pc[q] /\ cmd'[q] = cmd[q] /\ flags'[q] = flags[q] /\ todo'[q] = todo[q]
        /\ had'[q] = had[q] /\ swallowed'[q] = swallowed[q]
    BY DEF Mine
  <1>2. Deploys(q)' = Deploys(q) /\ Destroys(q)' = Destroys(q)
    BY <1>1 DEF Deploys, Destroys
  <1>3. Known(q)'
    BY <1>1 DEF Kept, Known
  <1>4. CASE ~calm'[q]
    <2>1. ~Counts(q)'
      BY <1>4 DEF Counts
    <2>2. Listed(q)'
      BY <1>1, <1>2, <1>4 DEF Kept, Listed
    <2>3. Resolving(q)'
      BY <2>1 DEF Resolving
    <2>4. Clearing(q)'
      BY <2>1, <1>4 DEF Clearing
    <2> QED BY <1>3, <2>2, <2>3, <2>4 DEF Kept
  <1>5. CASE UNCHANGED world /\ calm'[q] = calm[q]
    <2>1. ingress' = ingress /\ records' = records /\ Present' = Present
      BY <1>5 DEF world, Present
    <2>2. Counts(q)' = Counts(q)
      BY <1>1, <1>5 DEF Counts
    <2>3. \A h, t, v : Has(h, t, v)' = Has(h, t, v)
      BY <2>1, SameZones DEF Has
    <2>4. Listed(q)'
      BY <1>1, <1>2, <1>5, <2>1 DEF Kept, Listed
    <2>5. Resolving(q)'
      BY <1>1, <1>2, <2>1, <2>2, <2>3 DEF Kept, Resolving
    <2>6. Clearing(q)'
      BY <1>1, <1>2, <1>5, <2>1, <2>2, <2>3 DEF Kept, Clearing
    <2> QED BY <1>3, <2>4, <2>5, <2>6 DEF Kept
  <1> QED BY <1>4, <1>5

\* Where the records stand, as long as none is written.
LEMMA PlacesKept ==
  ASSUME Inv, setting' = setting, records' = records
  PROVE  \A x \in Places : records'[x]["A"] \in IPs =>
           Matching(x[2])' # {} /\ x[1] = Best(x[2])'
  BY SameZones DEF Inv

\* The invariant after a step of p, which only has to be looked at for p itself.
LEMMA StepKeeps ==
  ASSUME TypeOK, Inv, NEW p \in Ops, setting' = setting,
         \A x \in Places : records'[x]["A"] \in IPs =>
           Matching(x[2])' # {} /\ x[1] = Best(x[2])',
         \A q \in Ops \ {p} : Mine(q)' = Mine(q),
         \A q \in Ops \ {p} : (UNCHANGED world /\ calm'[q] = calm[q]) \/ ~calm'[q],
         Kept(p)'
  PROVE  Inv'
  <1>1. ASSUME NEW q \in Ops, q # p PROVE Kept(q)'
    <2>1. Kept(q)
      BY DEF Inv, Kept
    <2>2. /\ Mine(q)' = Mine(q)
          /\ (UNCHANGED world /\ calm'[q] = calm[q]) \/ ~calm'[q]
      BY <1>1
    <2> QED BY <2>1, <2>2, OthersKept
  <1>2. \A q \in Ops : Kept(q)'
    BY <1>1
  <1> QED BY <1>2 DEF Inv, Kept

\* The control points.
PointSet == {"idle", "release", "list", "apply", "withdraw", "ok", "failed"}

\* Moving on.
LEMMA GotoTypes ==
  ASSUME TypeOK, NEW p \in Ops, NEW l \in PointSet, Goto(p, l)
  PROVE  pc' \in [Ops -> PointSet] /\ pc'[p] = l /\ \A q \in Ops \ {p} : pc'[q] = pc[q]
  BY DEF TypeOK, Goto, PointSet

\* Disturbing all others.
LEMMA ChangesTypes ==
  ASSUME TypeOK, NEW p \in Ops, Changes(p)
  PROVE  calm' \in [Ops -> BOOLEAN] /\ calm'[p] = calm[p] /\ \A q \in Ops \ {p} : ~calm'[q]
  BY DEF TypeOK, Changes

\* Passing over an error.
LEMMA SwallowTypes ==
  ASSUME TypeOK, NEW p \in Ops, Swallow(p)
  PROVE  swallowed' \in [Ops -> BOOLEAN] /\ swallowed'[p]
         /\ \A q \in Ops \ {p} : swallowed'[q] = swallowed[q]
  BY DEF TypeOK, Swallow

-----------------------------------------------------------------------------
(* The initial states and the steps.                                         *)

\* At first there is no host and no record of the app.
LEMMA InitInv == Init => TypeOK /\ Inv
  <1> SUFFICES ASSUME Init PROVE TypeOK /\ Inv
    OBVIOUS
  <1>1. TypeOK
    BY Words DEF Init, TypeOK, NoHosts, Addresses, Commands
  <1>2. \A x \in Places : records[x]["A"] \notin IPs
    BY Words DEF Init
  <1>3. ASSUME NEW p \in Ops PROVE Kept(p)
    BY DEF Init, Kept, Known, Listed, Resolving, Clearing, Counts
  <1> QED BY <1>1, <1>2, <1>3 DEF Inv, Kept

\* A command that failed answers for nothing.
LEMMA FailsInv ==
  ASSUME TypeOK, Inv, NEW p \in Ops, Fails(p) PROVE TypeOK' /\ Inv'
  <1>1. /\ pc' \in [Ops -> PointSet] /\ pc'[p] = "failed"
        /\ \A q \in Ops \ {p} : pc'[q] = pc[q]
    BY GotoTypes DEF Fails, PointSet
  <1>2. UNCHANGED <<setting, ingress, records>>
    BY DEF Fails, world
  <1>3. /\ cmd' \in [Ops -> Commands] /\ flags' \in [Ops -> SUBSET Flags]
        /\ todo' \in [Ops -> SUBSET (Hosts \X Types \X Addresses)]
        /\ had' \in [Ops -> SUBSET Hosts]
        /\ swallowed' \in [Ops -> BOOLEAN] /\ calm' \in [Ops -> BOOLEAN]
    BY DEF Fails, TypeOK, Commands
  <1>4. TypeOK'
    BY <1>1, <1>2, <1>3 DEF TypeOK, PointSet
  <1>5. /\ \A q \in Ops \ {p} : Mine(q)' = Mine(q) /\ calm'[q] = calm[q]
        /\ flags'[p] = {} /\ ~calm'[p] /\ cmd'[p] = "dnsDeploy"
    BY <1>1 DEF Fails, TypeOK, Mine
  <1>6. Kept(p)'
    BY <1>1, <1>5 DEF Kept, Known, Listed, Resolving, Clearing, Counts
  <1>7. Inv'
    BY <1>2, <1>5, <1>6, PlacesKept, StepKeeps DEF world
  <1> QED BY <1>4, <1>7

\* A command begins.
LEMMA StartInv ==
  ASSUME TypeOK, Inv, NEW p \in Ops, Start(p) PROVE TypeOK' /\ Inv'
  <1>1. PICK c \in Commands, fs \in SUBSET Flags :
          /\ IF c \in {"appDeploy", "appDestroy"} THEN fs \subseteq {"dns"} ELSE "dns" \in fs
          /\ cmd' = [cmd EXCEPT ![p] = c]
          /\ flags' = [flags EXCEPT ![p] = fs]
          /\ Goto(p, FirstStep(c, fs))
          /\ had' = [had EXCEPT ![p] =
                       IF c \in {"appDestroy", "dnsDestroy"} THEN Present ELSE {}]
    BY DEF Start
  <1>2. /\ FirstStep(c, fs) \in PointSet
        /\ FirstStep(c, fs) = "release" => c = "appDeploy"
        /\ FirstStep(c, fs) = "withdraw" => c = "appDestroy" /\ "dns" \notin fs
        /\ FirstStep(c, fs) = "list" => "dns" \in fs
        /\ FirstStep(c, fs) \in {"release", "withdraw", "list"}
    BY <1>1 DEF FirstStep, PointSet, Commands
  <1>3. /\ pc' \in [Ops -> PointSet] /\ pc'[p] = FirstStep(c, fs)
        /\ \A q \in Ops \ {p} : pc'[q] = pc[q]
    BY <1>1, <1>2, GotoTypes
  <1>4. UNCHANGED <<setting, ingress, records, todo>>
    BY DEF Start, world
  <1>5. /\ swallowed' \in [Ops -> BOOLEAN] /\ calm' \in [Ops -> BOOLEAN]
        /\ \A q \in Ops \ {p} : swallowed'[q] = swallowed[q] /\ calm'[q] = calm[q]
    BY DEF Start, TypeOK
  <1>6. Present \subseteq Hosts
    BY DEF Present
  <1>7. /\ cmd' \in [Ops -> Commands] /\ flags' \in [Ops -> SUBSET Flags]
        /\ had' \in [Ops -> SUBSET Hosts]
        /\ \A q \in Ops \ {p} : cmd'[q] = cmd[q] /\ flags'[q] = flags[q] /\ had'[q] = had[q]
        /\ cmd'[p] = c /\ flags'[p] = fs
        /\ c \in {"appDestroy", "dnsDestroy"} => had'[p] = Present
    BY <1>1, <1>6 DEF TypeOK
  <1>8. TypeOK'
    BY <1>3, <1>4, <1>5, <1>7 DEF TypeOK, PointSet
  <1>9. \A q \in Ops \ {p} : Mine(q)' = Mine(q) /\ calm'[q] = calm[q]
    BY <1>3, <1>4, <1>5, <1>7 DEF Mine
  <1>10. Present' = Present
    BY <1>4 DEF Present
  <1>11. Kept(p)'
    BY <1>1, <1>2, <1>3, <1>7, <1>10
       DEF Kept, Known, Listed, Resolving, Clearing, Counts, Destroys
  <1>12. Inv'
    BY <1>4, <1>9, <1>11, PlacesKept, StepKeeps DEF world
  <1> QED BY <1>8, <1>12

\* The app is deployed.
LEMMA ReleaseInv ==
  ASSUME TypeOK, Inv, NEW p \in Ops, Release(p) PROVE TypeOK' /\ Inv'
  <1>1. /\ pc[p] = "release" /\ Known(p)
        /\ UNCHANGED <<setting, records, cmd, flags, todo, had, swallowed>>
    BY DEF Release, local, Inv
  <1>2. ingress' \in [Hosts -> Addresses]
    BY DEF Release, TypeOK, Addresses
  <1> DEFINE next == IF "dns" \in flags[p] THEN "list" ELSE "ok"
  <1>3. /\ pc' \in [Ops -> PointSet] /\ pc'[p] = next
        /\ \A q \in Ops \ {p} : pc'[q] = pc[q]
    BY GotoTypes DEF Release, PointSet
  <1>4. calm' \in [Ops -> BOOLEAN] /\ \A q \in Ops \ {p} : ~calm'[q]
    BY ChangesTypes DEF Release
  <1>5. TypeOK'
    BY <1>1, <1>2, <1>3, <1>4 DEF TypeOK, PointSet
  <1>6. Kept(p)'
    BY <1>1, <1>3 DEF Kept, Known, Listed, Resolving, Clearing, Counts, Destroys
  <1>7. \A q \in Ops \ {p} : Mine(q)' = Mine(q)
    BY <1>1, <1>3 DEF Mine
  <1>8. Inv'
    BY <1>1, <1>4, <1>6, <1>7, PlacesKept, StepKeeps
  <1> QED BY <1>5, <1>8

\* The list of record sets is what there is to do.
LEMMA ListHostsInv ==
  ASSUME TypeOK, Inv, NEW p \in Ops, ListHosts(p) PROVE TypeOK' /\ Inv'
  <1>1. /\ pc[p] = "list" /\ Kept(p)
        /\ UNCHANGED <<setting, ingress, records, cmd, flags, had, swallowed, calm>>
    BY DEF ListHosts, world, Inv, Kept
  <1>2. /\ pc' \in [Ops -> PointSet] /\ pc'[p] = "apply"
        /\ \A q \in Ops \ {p} : pc'[q] = pc[q]
    BY GotoTypes DEF ListHosts, PointSet
  <1> DEFINE list == {<<h, t, IF Deploys(p) THEN ingress[h] ELSE "none">> :
                        h \in Present, t \in RecordTypes(p)}
  <1>3. Present \subseteq Hosts /\ RecordTypes(p) \subseteq Types
    BY Words DEF Present, RecordTypes
  <1>4. list \in SUBSET (Hosts \X Types \X Addresses)
    BY <1>3 DEF TypeOK, Addresses
  <1>5. /\ todo' \in [Ops -> SUBSET (Hosts \X Types \X Addresses)]
        /\ todo'[p] = list
        /\ \A q \in Ops \ {p} : todo'[q] = todo[q]
    BY <1>4 DEF ListHosts, TypeOK
  <1>6. TypeOK'
    BY <1>1, <1>2, <1>5 DEF TypeOK, PointSet
  <1>7. /\ Deploys(p)' = Deploys(p) /\ Destroys(p)' = Destroys(p) /\ Counts(p)' = Counts(p)
        /\ Present' = Present /\ ~(Deploys(p) /\ Destroys(p))
    BY <1>1 DEF Deploys, Destroys, Counts, Present
  <1>8. Known(p)'
    BY <1>1, <1>2 DEF Kept, Known
  <1>9. Listed(p)'
    <2>1. ASSUME Deploys(p) PROVE \A e \in list : e[2] = "A" /\ ingress[e[1]] # "none" /\ e[3] = ingress[e[1]]
      BY <2>1 DEF RecordTypes, Present
    <2>2. ASSUME Destroys(p) PROVE \A e \in list : e[3] = "none"
      BY <2>2, <1>7
    <2> QED BY <2>1, <2>2, <1>1, <1>5, <1>7 DEF Listed
  <1>10. Resolving(p)'
    <2>1. ASSUME Deploys(p), NEW h \in Hosts, ingress[h] # "none"
          PROVE  <<h, "A", ingress[h]>> \in list
      BY <2>1 DEF RecordTypes, Present
    <2> QED BY <2>1, <1>1, <1>2, <1>5, <1>7 DEF Resolving
  <1>11. Clearing(p)'
    <2>1. Destroys(p) /\ calm[p] => had[p] = Present
      BY <1>1 DEF Kept, Clearing
    <2>2. ASSUME Destroys(p), NEW h \in Present, NEW t \in Types
          PROVE  <<h, t, "none">> \in list
      <3>1. ~Deploys(p) /\ RecordTypes(p) = Types
        BY <2>2, <1>7 DEF RecordTypes
      <3> QED BY <3>1
    <2>3. Counts(p) => calm[p]
      BY DEF Counts
    <2> QED BY <2>1, <2>2, <2>3, <1>1, <1>2, <1>5, <1>7 DEF Clearing
  <1>12. \A q \in Ops \ {p} : Mine(q)' = Mine(q) /\ calm'[q] = calm[q]
    BY <1>1, <1>2, <1>5 DEF Mine
  <1>13. Inv'
    BY <1>1, <1>8, <1>9, <1>10, <1>11, <1>12, PlacesKept, StepKeeps DEF Kept, world
  <1> QED BY <1>6, <1>13

\* Going on to the next record set.
LEMMA AdvanceTypes ==
  ASSUME TypeOK, NEW p \in Ops, Advance(p)
  PROVE  /\ todo' \in [Ops -> SUBSET (Hosts \X Types \X Addresses)]
         /\ todo'[p] = todo[p] \ {First(p)}
         /\ \A q \in Ops \ {p} : todo'[q] = todo[q]
  BY DEF TypeOK, Advance

\* A record set is passed over: by a command that no longer answers for it, or because
\* the host has no address yet.
LEMMA PassInv ==
  ASSUME TypeOK, Inv, NEW p \in Ops, AtWork(p), Advance(p),
         UNCHANGED <<setting, world, pc, cmd, flags, had, calm>>,
         swallowed' \in [Ops -> BOOLEAN], \A q \in Ops \ {p} : swallowed'[q] = swallowed[q],
         ~Counts(p)' \/ (swallowed' = swallowed /\ Value(p) = "pending" /\ "strict" \notin flags[p])
  PROVE  TypeOK' /\ Inv'
  <1>1. /\ todo' \in [Ops -> SUBSET (Hosts \X Types \X Addresses)]
        /\ todo'[p] = todo[p] \ {First(p)}
        /\ \A q \in Ops \ {p} : todo'[q] = todo[q]
    BY AdvanceTypes
  <1>2. ingress' = ingress /\ records' = records
    BY DEF world
  <1>3. TypeOK'
    BY <1>1, <1>2 DEF TypeOK
  <1>4. pc[p] = "apply" /\ First(p) \in todo[p] /\ First(p) \in Hosts \X Types \X Addresses
    BY FirstTypes DEF AtWork
  <1>5. Kept(p)
    BY DEF Inv, Kept
  <1>6. /\ Deploys(p)' = Deploys(p) /\ Destroys(p)' = Destroys(p) /\ Present' = Present
        /\ ~(Deploys(p) /\ Destroys(p)) /\ (Deploys(p) \/ Destroys(p))
    BY <1>2 DEF Deploys, Destroys, Present, TypeOK, Commands
  <1>7. Known(p)' /\ Listed(p)'
    BY <1>1, <1>2, <1>5, <1>6 DEF Kept, Known, Listed
  <1>8. ASSUME ~Counts(p)' PROVE Kept(p)'
    BY <1>5, <1>6, <1>7, <1>8, <1>4 DEF Kept, Resolving, Clearing
  <1>9. ASSUME swallowed' = swallowed, Value(p) = "pending", "strict" \notin flags[p]
        PROVE  Kept(p)'
    <2>1. Counts(p)' = Counts(p)
      BY <1>9 DEF Counts
    <2>2. Deploys(p)
      BY <1>4, <1>5, <1>6, <1>9 DEF Kept, Listed, Value
    <2>3. calm[p] => ingress[First(p)[1]] = "pending"
      BY <1>4, <1>5, <1>9, <2>2 DEF Kept, Listed, Value
    <2>4. \A h, t, v : Has(h, t, v)' = Has(h, t, v)
      BY <1>2, SameZones DEF Has
    <2>5. Counts(p) => calm[p]
      BY DEF Counts
    <2>6. Resolving(p)'
      <3> SUFFICES ASSUME Counts(p), NEW h \in Hosts
                   PROVE  \/ ingress[h] = "none"
                          \/ <<h, "A", ingress[h]>> \in todo[p] \ {First(p)}
                          \/ ingress[h] = "pending" /\ "strict" \notin flags[p]
                          \/ Has(h, "A", ingress[h])
        BY <1>1, <1>2, <1>4, <2>1, <2>4 DEF Resolving
      <3>1. \/ ingress[h] = "none"
            \/ <<h, "A", ingress[h]>> \in todo[p]
            \/ ingress[h] = "pending" /\ "strict" \notin flags[p]
            \/ Has(h, "A", ingress[h])
        BY <1>4, <1>5, <2>2 DEF Kept, Resolving
      <3>2. ASSUME <<h, "A", ingress[h]>> = First(p) PROVE ingress[h] = "pending"
        <4>1. First(p)[1] = h
          BY <3>2
        <4> QED BY <4>1, <2>3, <2>5
      <3> QED BY <3>1, <3>2, <1>9
    <2>7. Clearing(p)'
      BY <1>6, <2>2, <1>4 DEF Clearing
    <2> QED BY <1>7, <2>6, <2>7 DEF Kept
  <1>10. Kept(p)'
    BY <1>8, <1>9
  <1>11. \A q \in Ops \ {p} : Mine(q)' = Mine(q)
    BY <1>1 DEF Mine
  <1>12. Inv'
    BY <1>2, <1>10, <1>11, PlacesKept, StepKeeps
  <1> QED BY <1>3, <1>12

\* An error ends the command or takes its answer away.
LEMMA ErrorInv ==
  ASSUME TypeOK, Inv, NEW p \in Ops, AtWork(p), Error(p) PROVE TypeOK' /\ Inv'
  <1>1. CASE "strict" \in flags[p]
    BY <1>1, FailsInv DEF Error
  <1>2. CASE "strict" \notin flags[p]
    <2>1. /\ Advance(p) /\ Swallow(p)
          /\ UNCHANGED <<setting, world, pc, cmd, flags, had, calm>>
      BY <1>2 DEF Error
    <2>2. ~Counts(p)'
      BY <1>2, <2>1, SwallowTypes DEF Counts
    <2> QED BY <2>1, <2>2, SwallowTypes, PassInv
  <1> QED BY <1>1, <1>2

\* The record sets that are not written.
LEMMA PassedOver ==
  ASSUME TypeOK, Inv, NEW p \in Ops, Skip(p) \/ NoZone(p) \/ DryRun(p) \/ WriteFails(p)
  PROVE  TypeOK' /\ Inv'
  <1>1. CASE Skip(p)
    <2>1. CASE "strict" \in flags[p]
      BY <1>1, <2>1, FailsInv DEF Skip
    <2>2. CASE "strict" \notin flags[p]
      <3>1. /\ AtWork(p) /\ Advance(p) /\ Value(p) = "pending"
            /\ UNCHANGED <<setting, world, pc, cmd, flags, had, swallowed, calm>>
        BY <1>1, <2>2 DEF Skip, Writable
      <3> QED BY <2>2, <3>1, PassInv DEF TypeOK
    <2> QED BY <2>1, <2>2
  <1>2. CASE NoZone(p) \/ WriteFails(p)
    BY <1>2, ErrorInv DEF NoZone, WriteFails, Applicable
  <1>3. CASE DryRun(p)
    <2>1. /\ AtWork(p) /\ Advance(p) /\ "dry" \in flags[p]
          /\ UNCHANGED <<setting, world, pc, cmd, flags, had, swallowed, calm>>
      BY <1>3 DEF DryRun, Applicable
    <2>2. ~Counts(p)'
      BY <2>1 DEF Counts
    <2> QED BY <2>1, <2>2, PassInv DEF TypeOK
  <1> QED BY <1>1, <1>2, <1>3

\* A record set is written: it is right for p, and everybody else is disturbed.
LEMMA WriteInv ==
  ASSUME TypeOK, Inv, NEW p \in Ops, Write(p) PROVE TypeOK' /\ Inv'
  <1> DEFINE e == First(p)
             x == <<Best(Host(p)), Host(p)>>
  <1>1. /\ pc[p] = "apply" /\ todo[p] # {} /\ Value(p) # "pending" /\ Matching(Host(p)) # {}
        /\ records' = [records EXCEPT ![x][Type(p)] = Value(p)]
        /\ Advance(p) /\ Changes(p)
        /\ UNCHANGED <<setting, ingress, pc, cmd, flags, had, swallowed>>
    BY DEF Write, Applicable, AtWork, Writable
  <1>2. /\ e \in todo[p] /\ e = <<Host(p), Type(p), Value(p)>>
        /\ Host(p) \in Hosts /\ Type(p) \in Types /\ Value(p) \in IPs \cup {"none"}
    BY <1>1, FirstTypes DEF Host, Type, Value, Addresses
  <1>a. PICK h0 \in Hosts, t0 \in Types, v0 \in IPs \cup {"none"} :
          Host(p) = h0 /\ Type(p) = t0 /\ Value(p) = v0
    BY <1>2
  <1>3. x \in Places
    BY <1>1, <1>2, BestTypes
  <1>4. /\ records' \in [Places -> [Types -> IPs \cup {"none", "foreign"}]]
        /\ records'[x][Type(p)] = Value(p)
        /\ \A y \in Places, t \in Types : y # x \/ t # Type(p) => records'[y][t] = records[y][t]
    BY <1>1, <1>2, <1>3 DEF TypeOK
  <1>5. /\ todo' \in [Ops -> SUBSET (Hosts \X Types \X Addresses)]
        /\ todo'[p] = todo[p] \ {e}
        /\ \A q \in Ops \ {p} : todo'[q] = todo[q]
    BY <1>1, AdvanceTypes
  <1>6. calm' \in [Ops -> BOOLEAN] /\ calm'[p] = calm[p] /\ \A q \in Ops \ {p} : ~calm'[q]
    BY <1>1, ChangesTypes
  <1>7. TypeOK'
    BY <1>1, <1>4, <1>5, <1>6 DEF TypeOK
  <1>8. \A h : Matching(h)' = Matching(h) /\ Best(h)' = Best(h)
    BY <1>1, SameZones
  <1>9. \A y \in Places : records'[y]["A"] \in IPs => Matching(y[2])' # {} /\ y[1] = Best(y[2])'
    <2> SUFFICES ASSUME NEW y \in Places, records'[y]["A"] \in IPs
                 PROVE  Matching(y[2]) # {} /\ y[1] = Best(y[2])
      BY <1>8
    <2>1. CASE y = x
      BY <1>1, <2>1
    <2>2. CASE y # x
      BY <1>4, <2>2, Words DEF Inv
    <2> QED BY <2>1, <2>2
  <1>10. Kept(p)
    BY DEF Inv, Kept
  <1>11. /\ Deploys(p)' = Deploys(p) /\ Destroys(p)' = Destroys(p) /\ Present' = Present
         /\ Counts(p)' = Counts(p) /\ (Counts(p) => calm[p])
    BY <1>1, <1>6 DEF Deploys, Destroys, Present, Counts
  <1>12. Known(p)' /\ Listed(p)'
    BY <1>1, <1>5, <1>6, <1>10, <1>11 DEF Kept, Known, Listed
  \* What p has made right stays so: another record set, or the same value again.
  <1>13. ASSUME NEW h \in Hosts, NEW t \in Types, NEW v, Has(h, t, v),
                h = h0 /\ t = t0 => v = v0
         PROVE  Has(h, t, v)'
    <2>1. <<Best(h), h>> \in Places /\ Matching(h) # {} /\ records[<<Best(h), h>>][t] = v
      BY <1>13, BestTypes DEF Has
    <2>2. CASE h = h0 /\ t = t0
      BY <1>a, <1>4, <1>8, <1>13, <2>1, <2>2 DEF Has
    <2>3. CASE ~(h = h0 /\ t = t0)
      <3>1. <<Best(h), h>> # x \/ t # Type(p)
        BY <2>3, <1>a
      <3>2. records'[<<Best(h), h>>][t] = v
        BY <3>1, <2>1, <1>4
      <3> QED BY <1>8, <2>1, <3>2 DEF Has
    <2> QED BY <2>2, <2>3
  <1>14. Has(h0, t0, v0)'
    BY <1>a, <1>1, <1>4, <1>8 DEF Has
  <1>15. Resolving(p)'
    <2> SUFFICES ASSUME Deploys(p), Counts(p), NEW h \in Hosts, NEW v, v = ingress[h]
                 PROVE  \/ v = "none"
                        \/ <<h, "A", v>> \in todo[p] \ {e}
                        \/ v = "pending" /\ "strict" \notin flags[p]
                        \/ Has(h, "A", v)'
      BY <1>1, <1>5, <1>11 DEF Resolving, Has
    <2>1. \/ v = "none"
          \/ <<h, "A", v>> \in todo[p]
          \/ v = "pending" /\ "strict" \notin flags[p]
          \/ Has(h, "A", v)
      BY <1>1, <1>10 DEF Kept, Resolving
    <2>2. ASSUME <<h, "A", v>> = e PROVE Has(h, "A", v)'
      <3>1. h = h0 /\ t0 = "A" /\ v = v0
        BY <2>2, <1>2, <1>a
      <3> QED BY <3>1, <1>14
    <2>3. ASSUME Has(h, "A", v) PROVE Has(h, "A", v)'
      <3>1. v0 = ingress[h0]
        BY <1>1, <1>2, <1>a, <1>10, <1>11 DEF Kept, Listed, Value, Host
      <3>2. h = h0 => v = v0
        BY <3>1
      <3>3. "A" \in Types
        BY Words
      <3> QED BY <3>2, <3>3, <2>3, <1>13
    <2> QED BY <2>1, <2>2, <2>3
  <1>16. Clearing(p)'
    <2>1. Destroys(p) /\ calm[p] => had[p] = Present
      BY <1>1, <1>10 DEF Kept, Clearing
    <2>2. ASSUME Destroys(p), Counts(p), NEW h \in had[p], NEW t \in Types
          PROVE  <<h, t, "none">> \in todo[p] \ {e} \/ Has(h, t, "none")'
      <3>1. <<h, t, "none">> \in todo[p] \/ Has(h, t, "none")
        BY <1>1, <1>10, <2>2 DEF Kept, Clearing
      <3>2. h \in Hosts
        BY <2>2 DEF TypeOK
      <3>3. v0 = "none"
        BY <1>1, <1>2, <1>a, <1>10, <2>2 DEF Kept, Listed, Value
      <3>4. ASSUME <<h, t, "none">> = e PROVE Has(h, t, "none")'
        BY <3>4, <1>2, <1>a, <1>14
      <3> QED BY <3>1, <3>2, <3>3, <3>4, <1>13
    <2> QED BY <2>1, <2>2, <1>1, <1>5, <1>6, <1>11 DEF Clearing
  <1>17. \A q \in Ops \ {p} : Mine(q)' = Mine(q)
    BY <1>1, <1>5 DEF Mine
  <1>18. Inv'
    BY <1>1, <1>6, <1>9, <1>12, <1>15, <1>16, <1>17, StepKeeps DEF Kept
  <1> QED BY <1>7, <1>18

\* All record sets are dealt with.
LEMMA AppliedInv ==
  ASSUME TypeOK, Inv, NEW p \in Ops, Applied(p) PROVE TypeOK' /\ Inv'
  <1> DEFINE next == IF cmd[p] = "appDestroy" THEN "withdraw" ELSE "ok"
  <1>1. /\ pc[p] = "apply" /\ todo[p] = {} /\ Kept(p)
        /\ UNCHANGED <<setting, ingress, records, cmd, flags, todo, had, swallowed, calm>>
    BY DEF Applied, world, local, Inv, Kept
  <1>2. /\ pc' \in [Ops -> PointSet] /\ pc'[p] = next
        /\ \A q \in Ops \ {p} : pc'[q] = pc[q]
    BY GotoTypes DEF Applied, PointSet
  <1>3. TypeOK'
    BY <1>1, <1>2 DEF TypeOK, PointSet
  <1>4. /\ Deploys(p)' = Deploys(p) /\ Destroys(p)' = Destroys(p) /\ Present' = Present
        /\ Counts(p)' = Counts(p)
    BY <1>1 DEF Deploys, Destroys, Present, Counts
  <1>5. \A h, t, v : Has(h, t, v)' = Has(h, t, v)
    BY <1>1, SameZones DEF Has
  <1>6. Known(p)' /\ Listed(p)'
    BY <1>1, <1>2 DEF Kept, Known, Listed
  <1>7. Resolving(p)'
    BY <1>1, <1>2, <1>4, <1>5 DEF Kept, Resolving
  <1>8. Clearing(p)'
    BY <1>1, <1>2, <1>4, <1>5 DEF Kept, Clearing
  <1>9. \A q \in Ops \ {p} : Mine(q)' = Mine(q) /\ calm'[q] = calm[q]
    BY <1>1, <1>2 DEF Mine
  <1>10. Inv'
    BY <1>1, <1>6, <1>7, <1>8, <1>9, PlacesKept, StepKeeps DEF Kept, world
  <1> QED BY <1>3, <1>10

\* The app is gone, or its error does not count.
LEMMA WithdrawInv ==
  ASSUME TypeOK, Inv, NEW p \in Ops, Withdraw(p) PROVE TypeOK' /\ Inv'
  <1>1. /\ pc[p] = "withdraw" /\ Kept(p) /\ cmd[p] = "appDestroy"
        /\ UNCHANGED <<setting, records, cmd, flags, todo, had>>
    BY DEF Withdraw, local, Inv, Kept, Known
  <1>2. /\ pc' \in [Ops -> PointSet] /\ pc'[p] = "ok"
        /\ \A q \in Ops \ {p} : pc'[q] = pc[q]
    BY GotoTypes DEF Withdraw, PointSet
  <1>3. ~Deploys(p)' /\ Destroys(p)' /\ Destroys(p) /\ "strict" \notin flags[p]
    BY <1>1 DEF Deploys, Destroys, Kept, Known
  <1>4. Known(p)' /\ Listed(p)' /\ Resolving(p)'
    BY <1>1, <1>2, <1>3 DEF Kept, Known, Listed, Resolving
  <1>5. \A h, t, v : Has(h, t, v)' = Has(h, t, v)
    BY <1>1, SameZones DEF Has
  <1>6. CASE ingress' = NoHosts /\ Changes(p) /\ UNCHANGED swallowed
    <2>1. ingress' \in [Hosts -> Addresses]
      BY <1>6 DEF NoHosts, Addresses
    <2>2. calm' \in [Ops -> BOOLEAN] /\ calm'[p] = calm[p] /\ \A q \in Ops \ {p} : ~calm'[q]
      BY <1>6, ChangesTypes
    <2>3. TypeOK'
      BY <1>1, <1>2, <1>6, <2>1, <2>2 DEF TypeOK, PointSet
    <2>4. Counts(p)' = Counts(p) /\ NoHosts' = NoHosts
      BY <1>1, <1>6, <2>2 DEF Counts, NoHosts
    <2>5. Clearing(p)'
      BY <1>1, <1>2, <1>3, <1>5, <1>6, <2>4 DEF Kept, Clearing
    <2>6. \A q \in Ops \ {p} : Mine(q)' = Mine(q)
      BY <1>1, <1>2, <1>6 DEF Mine
    <2>7. Inv'
      BY <1>1, <1>4, <2>2, <2>5, <2>6, PlacesKept, StepKeeps DEF Kept
    <2> QED BY <2>3, <2>7
  <1>7. CASE Swallow(p) /\ UNCHANGED <<ingress, calm>>
    <2>1. /\ swallowed' \in [Ops -> BOOLEAN] /\ swallowed'[p]
          /\ \A q \in Ops \ {p} : swallowed'[q] = swallowed[q]
      BY <1>7, SwallowTypes
    <2>2. TypeOK'
      BY <1>1, <1>2, <1>7, <2>1 DEF TypeOK, PointSet
    <2>3. ~Counts(p)'
      BY <1>1, <1>3, <2>1 DEF Counts
    <2>4. Clearing(p)'
      BY <1>2, <2>3 DEF Clearing
    <2>5. \A q \in Ops \ {p} : Mine(q)' = Mine(q) /\ calm'[q] = calm[q]
      BY <1>1, <1>2, <1>7, <2>1 DEF Mine
    <2>6. Inv'
      BY <1>1, <1>4, <1>7, <2>4, <2>5, PlacesKept, StepKeeps DEF Kept, world
    <2> QED BY <2>2, <2>6
  <1> QED BY <1>6, <1>7 DEF Withdraw

\* The load balancer disturbs everybody.
LEMMA AddressInv ==
  ASSUME TypeOK, Inv, Address PROVE TypeOK' /\ Inv'
  <1>1. UNCHANGED <<setting, records, pc, cmd, flags, todo, had, swallowed>>
    BY DEF Address, local
  <1>2. ingress' \in [Hosts -> Addresses]
    BY DEF Address, TypeOK, Addresses
  <1>3. calm' \in [Ops -> BOOLEAN] /\ \A q \in Ops : ~calm'[q]
    BY DEF Address
  <1>4. TypeOK'
    BY <1>1, <1>2, <1>3 DEF TypeOK
  <1>5. ASSUME NEW q \in Ops PROVE Kept(q)'
    <2>1. Mine(q)' = Mine(q) /\ Kept(q)
      BY <1>1 DEF Mine, Inv, Kept
    <2> QED BY <2>1, <1>1, <1>3, OthersKept
  <1>6. Inv'
    BY <1>1, <1>5, PlacesKept DEF Inv, Kept
  <1> QED BY <1>4, <1>6

-----------------------------------------------------------------------------
(* The theorems.                                                             *)

\* TypeOK and Inv are inductive together.
LEMMA Inductive == Spec => [](TypeOK /\ Inv)
  <1>1. TypeOK /\ Inv /\ [Next]_vars => TypeOK' /\ Inv'
    <2> SUFFICES ASSUME TypeOK, Inv, [Next]_vars PROVE TypeOK' /\ Inv'
      OBVIOUS
    <2>1. ASSUME NEW p \in Ops, Step(p) PROVE TypeOK' /\ Inv'
      <3>1. CASE Fail(p)
        BY <3>1, FailsInv DEF Fail
      <3>2. CASE Skip(p) \/ NoZone(p) \/ DryRun(p) \/ WriteFails(p)
        BY <3>2, PassedOver
      <3>3. CASE Start(p) \/ Release(p) \/ ListHosts(p)
        BY <3>3, StartInv, ReleaseInv, ListHostsInv
      <3>4. CASE Write(p) \/ Applied(p) \/ Withdraw(p)
        BY <3>4, WriteInv, AppliedInv, WithdrawInv
      <3> QED BY <2>1, <3>1, <3>2, <3>3, <3>4 DEF Step
    <2>2. CASE UNCHANGED vars
      <3>1. UNCHANGED <<setting, ingress, records, pc, cmd, flags, todo, had, swallowed, calm>>
        BY <2>2 DEF vars, world, local
      <3>2. TypeOK'
        BY <3>1 DEF TypeOK
      <3>3. ASSUME NEW q \in Ops PROVE Kept(q)'
        <4>1. Mine(q)' = Mine(q) /\ Kept(q) /\ UNCHANGED world /\ calm'[q] = calm[q]
          BY <3>1 DEF Mine, Inv, Kept, world
        <4> QED BY <4>1, <3>1, OthersKept
      <3>4. Inv'
        BY <3>1, <3>3, PlacesKept DEF Inv, Kept
      <3> QED BY <3>2, <3>4
    <2> QED BY <2>1, <2>2, AddressInv DEF Next
  <1> QED BY <1>1, InitInv, PTL DEF Spec

\* Every variable keeps its type, for any zones, hosts and addresses.
THEOREM TypeCorrect == Spec => []TypeOK
  BY Inductive, PTL

\* dns deploy (usecase/dns/deploy.go:31): the hosts resolve to their addresses.
THEOREM DeployResolvesHolds == Spec => []DeployResolves
  <1>1. TypeOK /\ Inv => DeployResolves
    <2> SUFFICES ASSUME TypeOK, Inv, NEW p \in Ops, Answers(p), Deploys(p), NEW h \in Hosts,
                        ingress[h] \in IPs \/ (ingress[h] = "pending" /\ "strict" \in flags[p])
                 PROVE  Matching(h) # {} /\ records[<<Answering(h), h>>]["A"] = ingress[h]
      BY DEF DeployResolves
    <2>1. pc[p] = "ok" /\ Counts(p) /\ Resolving(p)
      BY DEF Answers, Counts, Inv
    <2>2. Has(h, "A", ingress[h])
      BY <2>1, Words DEF Resolving
    <2> QED BY <2>2, BestAnswers DEF Has
  <1> QED BY <1>1, Inductive, PTL

\* dns destroy and app destroy --update-dns (cmd_app.go:391): no record is left.
THEOREM DestroyClearsHolds == Spec => []DestroyClearsRecords
  <1>1. TypeOK /\ Inv => DestroyClearsRecords
    <2> SUFFICES ASSUME TypeOK, Inv, NEW p \in Ops, Answers(p), Destroys(p)
                 PROVE  /\ \A h \in had[p] : /\ Matching(h) # {}
                                             /\ \A t \in Types : records[<<Answering(h), h>>][t] = "none"
                        /\ cmd[p] = "appDestroy" => ingress = NoHosts
      BY DEF DestroyClearsRecords
    <2>1. pc[p] = "ok" /\ Counts(p) /\ Clearing(p) /\ had[p] \subseteq Hosts
      BY DEF Answers, Counts, Inv, TypeOK
    <2>2. ASSUME NEW h \in had[p], NEW t \in Types
          PROVE  Matching(h) # {} /\ records[<<Answering(h), h>>][t] = "none"
      <3>1. Has(h, t, "none")
        BY <2>1 DEF Clearing
      <3> QED BY <3>1, <2>1, BestAnswers DEF Has
    <2>3. "A" \in Types
      BY Words
    <2> QED BY <2>1, <2>2, <2>3 DEF Clearing
  <1> QED BY <1>1, Inductive, PTL

\* The records follow the last command that ended undisturbed (usecase/dns/deploy.go:31,
\* usecase/dns/destroy.go:26).
THEOREM RecordsFollowHolds == Spec => []RecordsFollow
  BY DeployResolvesHolds, DestroyClearsHolds, PTL DEF RecordsFollow

\* newCmdAppDestroy (cmd_app.go:391): no step of a command that nobody disturbs, and
\* that passed over no error, makes a record outlive its host.
THEOREM RecordsGoHolds == Spec => RecordsGoWithHosts
  <1> DEFINE Excused(p) == /\ <<pc[p], todo[p]>>' # <<pc[p], todo[p]>>
                           /\ \/ pc[p] = "release"
                              \/ pc[p] \in {"apply", "withdraw"}
                                 /\ (~calm[p] \/ swallowed[p] \/ "dns" \notin flags[p])
  <1>1. TypeOK /\ Inv /\ TypeOK' /\ Inv' /\ [Next]_vars =>
          [\A h \in Orphans' \ Orphans : \E p \in Ops : Excused(p)]_vars
    <2> SUFFICES ASSUME TypeOK, Inv, TypeOK', Inv', Next, NEW h \in Orphans', h \notin Orphans
                 PROVE  \E p \in Ops : Excused(p)
      OBVIOUS
    <2>1. h \in Hosts /\ ingress'[h] = "none"
      BY DEF Orphans
    <2>2. PICK z \in Zones : <<z, h>> \in Places /\ records'[<<z, h>>]["A"] \in IPs
      BY DEF Orphans
    <2>3. ~(UNCHANGED <<ingress, records>>)
      BY DEF Orphans
    <2>4. ASSUME NEW p \in Ops, Step(p), ~(Release(p) \/ Write(p) \/ Withdraw(p)) PROVE FALSE
      BY <2>3, <2>4 DEF Step, Start, ListHosts, Skip, NoZone, DryRun, WriteFails, Applied,
         Fail, Fails, Error, world
    <2>5. ASSUME NEW p \in Ops, Release(p) PROVE Excused(p)
      <3>1. pc[p] = "release" /\ pc'[p] # "release"
        BY <2>5, GotoTypes DEF Release, PointSet
      <3> QED BY <3>1
    <2>6. ASSUME NEW p \in Ops, Write(p) PROVE Excused(p)
      <3>1. pc[p] = "apply" /\ todo[p] # {} /\ Advance(p) /\ UNCHANGED ingress
        BY <2>6 DEF Write, Applicable, AtWork
      <3>2. First(p) \in todo[p] /\ todo'[p] = todo[p] \ {First(p)}
        BY <3>1, FirstTypes, AdvanceTypes
      <3>3. todo'[p] # todo[p]
        BY <3>2
      <3>4. ASSUME calm[p] PROVE FALSE
        <4>1. records[<<z, h>>]["A"] \notin IPs /\ ingress[h] = "none"
          BY <2>1, <2>2, <3>1 DEF Orphans
        <4>2. Host(p) \in Hosts /\ Type(p) \in Types /\ Matching(Host(p)) # {}
          BY <2>6, <3>1, FirstTypes DEF Host, Type, Write, Applicable
        <4>3. <<Best(Host(p)), Host(p)>> \in Places
          BY <4>2, BestTypes
        <4>4. records' = [records EXCEPT ![<<Best(Host(p)), Host(p)>>][Type(p)] = Value(p)]
          BY <2>6 DEF Write
        <4>5. h = Host(p) /\ Value(p) \in IPs
          <5>1. \A y \in Places, t \in Types : records'[y][t] # records[y][t] =>
                  y = <<Best(Host(p)), Host(p)>> /\ records'[y][t] = Value(p)
            BY <4>2, <4>3, <4>4 DEF TypeOK
          <5>2. <<z, h>> = <<Best(Host(p)), Host(p)>> /\ records'[<<z, h>>]["A"] = Value(p)
            BY <5>1, <2>2, <4>1, Words
          <5> QED BY <5>2, <2>2
        <4>6. Listed(p)
          BY DEF Inv
        <4>7. Deploys(p) \/ Destroys(p)
          BY DEF Deploys, Destroys, TypeOK, Commands
        <4>8. CASE Deploys(p)
          BY <3>1, <3>2, <3>4, <4>1, <4>5, <4>6, <4>8 DEF Listed, Host
        <4>9. CASE Destroys(p)
          BY <3>1, <3>2, <4>5, <4>6, <4>9, Words DEF Listed, Value
        <4> QED BY <4>7, <4>8, <4>9
      <3> QED BY <3>1, <3>3, <3>4
    <2>7. ASSUME NEW p \in Ops, Withdraw(p) PROVE Excused(p)
      <3>1. pc[p] = "withdraw" /\ pc'[p] = "ok" /\ records' = records
        BY <2>7, GotoTypes DEF Withdraw, PointSet
      <3>2. ASSUME calm[p], ~swallowed[p], "dns" \in flags[p] PROVE FALSE
        <4>1. cmd[p] = "appDestroy" /\ Destroys(p) /\ Counts(p) /\ Clearing(p)
          BY <3>1, <3>2 DEF Inv, Known, Destroys, Counts
        <4>2. h \in Present
          BY <2>1, <2>2, <3>1 DEF Present, Orphans
        <4>3. Has(h, "A", "none")
          BY <3>1, <3>2, <4>1, <4>2, Words DEF Clearing
        <4>4. z = Best(h)
          BY <2>2, <3>1 DEF Inv
        <4> QED BY <2>2, <3>1, <4>3, <4>4, Words DEF Has
      <3> QED BY <3>1, <3>2
    <2>8. ~Address
      BY <2>1, <2>2, DnsAssumption DEF Address, Orphans, TypeOK
    <2> QED BY <2>4, <2>5, <2>6, <2>7, <2>8 DEF Next
  <1> QED BY <1>1, Inductive, PTL DEF Spec, RecordsGoWithHosts

=============================================================================
