--------------------------- MODULE NodePools_proofs ---------------------------
(***************************************************************************)
(* The safety properties of NodePools, for any number of invocations, any  *)
(* files, labels and zones.                                                *)
(*                                                                         *)
(* The lemmas about the conversions come first: what a body is, that it    *)
(* has what the file asks for, and that merging agrees with the field by   *)
(* field meaning of an update.  The invariant adds what the control points *)
(* know: who waits for Azure's operation, that an update that is about to  *)
(* write has checked what it read, and that an invocation nobody has       *)
(* disturbed since its change still finds it.                              *)
(***************************************************************************)
EXTENDS NodePools, TLAPS

-----------------------------------------------------------------------------
(* The conversions.                                                          *)

\* Labels of a file over labels of a pool are labels of a pool.
LEMMA LabelledTypes ==
  ASSUME NEW old \in [Labels -> Texts \cup {None}], NEW f \in Files,
         NEW zone \in Written \cup {None}
  PROVE  /\ Labelled(old, f, zone) \in [Labels -> Texts \cup {None}]
         /\ Labelled(old, f, zone)["node-pool"] = Name
         /\ \A l \in Keys : Labelled(old, f, zone)[l] = Given(f.labels[l], old[l])
  <1>1. f.labels \in [Labels -> Vals \cup {None}]
    BY NodePoolsAssumption DEF FileType
  <1>2. \A l \in Labels : Given(f.labels[l], old[l]) \in Texts \cup {None}
    BY <1>1 DEF Given, Texts
  <1>3. \A l \in Labels : Given(zone, Given(f.labels[l], old[l])) \in Texts \cup {None}
    BY <1>2 DEF Given, Texts
  <1>4. Name \in Texts
    BY DEF Texts
  <1>5. Labelled(old, f, zone) \in [Labels -> Texts \cup {None}]
    BY <1>2, <1>3, <1>4 DEF Labelled
  <1>6. "node-pool" \in Labels /\ Keys \subseteq Labels
    BY DEF Labels
  <1>7. Labelled(old, f, zone)["node-pool"] = Name
    BY <1>6 DEF Labelled
  <1>8. \A l \in Keys : Labelled(old, f, zone)[l] = Given(f.labels[l], old[l])
    BY <1>6, NodePoolsAssumption DEF Labelled
  <1> QED BY <1>5, <1>7, <1>8

\* What a file gives as autoscaling.
LEMMA ScaleTypes ==
  ASSUME NEW f \in Files, f.scale # None
  PROVE  /\ f.scale.auto \in BOOLEAN
         /\ f.scale.range \in Ranges \cup {None}
         /\ f.scale.count \in Counts \cup {None}
         /\ f.scale.range = None <=> ~f.scale.auto
  <1>1. f.scale \in Scales
    BY NodePoolsAssumption DEF FileType
  <1>2. None \notin Ranges
    BY NodePoolsAssumption
  <1>3. CASE f.scale \in [auto : {TRUE}, range : Ranges, count : {None}]
    BY <1>2, <1>3
  <1>4. CASE f.scale \in [auto : {FALSE}, range : {None}, count : Counts \cup {None}]
    BY <1>4
  <1> QED BY <1>1, <1>3, <1>4 DEF Scales

\* Setting the autoscaling of a pool touches nothing else.
LEMMA ScaledTypes ==
  ASSUME NEW p \in Pools, NEW f \in Files
  PROVE  /\ Scaled(p, f.scale) \in Pools
         /\ Scaled(p, f.scale).kind = p.kind
         /\ Scaled(p, f.scale).zones = p.zones
         /\ Scaled(p, f.scale).labels = p.labels
         /\ f.scale # None =>
              /\ Scaled(p, f.scale).auto = f.scale.auto
              /\ f.scale.range # None => Scaled(p, f.scale).range = f.scale.range
              /\ f.scale.count # None => Scaled(p, f.scale).count = f.scale.count
  <1>1. CASE f.scale = None
    BY <1>1 DEF Scaled
  <1>2. CASE f.scale # None
    <2>1. /\ Given(f.scale.range, p.range) \in Ranges \cup {None}
          /\ Given(f.scale.count, p.count) \in Counts \cup {None}
          /\ f.scale.auto \in BOOLEAN
      BY <1>2, ScaleTypes DEF Given, Pools
    <2>2. Scaled(p, f.scale) = [p EXCEPT !.auto = f.scale.auto,
                                         !.range = Given(f.scale.range, p.range),
                                         !.count = Given(f.scale.count, p.count)]
      BY <1>2 DEF Scaled, Pools
    <2>3. Scaled(p, f.scale) \in Pools
      BY <2>1, <2>2 DEF Pools
    <2>4. /\ Scaled(p, f.scale).kind = p.kind
          /\ Scaled(p, f.scale).zones = p.zones
          /\ Scaled(p, f.scale).labels = p.labels
      BY <2>2 DEF Pools
    <2>5. /\ Scaled(p, f.scale).auto = f.scale.auto
          /\ Scaled(p, f.scale).range = Given(f.scale.range, p.range)
          /\ Scaled(p, f.scale).count = Given(f.scale.count, p.count)
      BY <2>2 DEF Pools
    <2> QED BY <2>3, <2>4, <2>5 DEF Given
  <1> QED BY <1>1, <1>2

\* nodePoolToAgentPoolProfile makes a pool with all the file asks for.
LEMMA CreateBodyTypes ==
  ASSUME NEW f \in Files
  PROVE  /\ CreateBody(f) \in Pools
         /\ CreateBody(f).labels["node-pool"] = Name
         /\ Satisfies(CreateBody(f), f)
  <1> DEFINE base == [kind |-> f.kind, zones |-> ToAks(f.zones),
                      labels |-> Labelled(Unlabelled, f, f.zones),
                      auto |-> FALSE, range |-> None, count |-> None]
  <1>1. /\ f.kind \in Kinds \cup {None} /\ f.zones \in Written \cup {None}
        /\ f.labels \in [Labels -> Vals \cup {None}]
    BY NodePoolsAssumption DEF FileType
  <1>2. Unlabelled \in [Labels -> Texts \cup {None}]
    BY DEF Unlabelled
  <1>3. /\ base.labels \in [Labels -> Texts \cup {None}]
        /\ base.labels["node-pool"] = Name
        /\ \A l \in Keys : base.labels[l] = Given(f.labels[l], Unlabelled[l])
    BY <1>1, <1>2, LabelledTypes
  <1>4. ToAks(f.zones) \in Zones \cup {None} /\ (f.zones # None => ToAks(f.zones) = f.zones.list)
    BY <1>1 DEF ToAks, Written
  <1>5. base \in Pools
    BY <1>1, <1>3, <1>4 DEF Pools
  <1> HIDE DEF base
  <1>6. CreateBody(f) = Scaled(base, f.scale)
    BY DEF CreateBody, base
  <1>7. base.kind = f.kind /\ base.zones = ToAks(f.zones)
    BY DEF base
  <1>8. Satisfies(CreateBody(f), f)
    BY <1>3, <1>4, <1>5, <1>6, <1>7, ScaledTypes DEF Satisfies, Given
  <1> QED BY <1>3, <1>5, <1>6, <1>8, ScaledTypes

\* mergeMutableFields makes of a checked pool one with all the file asks for.
LEMMA MergedTypes ==
  ASSUME NEW f \in Files, NEW p \in Pools
  PROVE  /\ Merged(f, p) \in Pools
         /\ Merged(f, p).labels["node-pool"] = Name
         /\ Unchanged(f, p) => Satisfies(Merged(f, p), f)
  <1> DEFINE zone == IF p.zones = None THEN None ELSE ToKompox(p.zones)
             base == [p EXCEPT !.labels = Labelled(p.labels, f, zone)]
  <1>1. p.zones \in Zones \cup {None} /\ p.labels \in [Labels -> Texts \cup {None}]
    BY DEF Pools
  <1>2. zone \in Written \cup {None}
    BY <1>1 DEF ToKompox, Written, Forms
  <1>3. /\ Labelled(p.labels, f, zone) \in [Labels -> Texts \cup {None}]
        /\ Labelled(p.labels, f, zone)["node-pool"] = Name
        /\ \A l \in Keys : Labelled(p.labels, f, zone)[l] = Given(f.labels[l], p.labels[l])
    BY <1>1, <1>2, LabelledTypes
  <1> HIDE DEF zone
  <1>4. base \in Pools /\ base.kind = p.kind /\ base.zones = p.zones
        /\ base.labels = Labelled(p.labels, f, zone)
    BY <1>3 DEF Pools
  <1> HIDE DEF base
  <1>5. Merged(f, p) = Scaled(base, f.scale)
    BY DEF Merged, base, zone, Pools
  <1>6. f.kind \in Kinds \cup {None} /\ f.zones \in Written \cup {None}
    BY NodePoolsAssumption DEF FileType
  <1>7. Unchanged(f, p) => /\ f.kind # None => p.kind \in {f.kind, None}
                           /\ f.zones # None => p.zones \in {f.zones.list, None}
    BY <1>6 DEF Unchanged, ToKompox, Written
  <1>8. Unchanged(f, p) => Satisfies(Merged(f, p), f)
    BY <1>3, <1>4, <1>5, <1>7, ScaledTypes DEF Satisfies, Given
  <1> QED BY <1>3, <1>4, <1>5, <1>8, ScaledTypes

\* Merging is the field by field meaning of an update.
LEMMA MergedIsUpdated ==
  ASSUME NEW f \in Files, NEW p \in Pools
  PROVE  Merged(f, p) = Updated(f, p)
  <1> DEFINE zone == IF p.zones = None THEN None ELSE ToKompox(p.zones)
             new  == [l \in Labels |->
                        IF l = "node-pool" THEN Name
                        ELSE IF l = "node-zone" /\ p.zones # None THEN ToKompox(p.zones)
                        ELSE Given(f.labels[l], p.labels[l])]
  <1>1. p.zones # None => ToKompox(p.zones) # None
    <2>1. p.zones # None => ToKompox(p.zones) \in Written
      BY DEF Pools, ToKompox, Written, Forms
    <2> QED BY <2>1, NodePoolsAssumption
  <1>2. Labelled(p.labels, f, zone) = new
    BY <1>1 DEF Labelled, Given
  <1> HIDE DEF zone, new
  <1>3. Merged(f, p) = Scaled([p EXCEPT !.labels = new], f.scale)
    BY <1>2 DEF Merged, zone, Pools
  <1>4. Updated(f, p) =
          [p EXCEPT !.labels = new,
                    !.auto   = IF f.scale = None THEN p.auto ELSE f.scale.auto,
                    !.range  = IF f.scale = None \/ ~f.scale.auto THEN p.range ELSE f.scale.range,
                    !.count  = IF f.scale = None THEN p.count ELSE Given(f.scale.count, p.count)]
    BY DEF Updated, new, Pools
  <1>5. CASE f.scale = None
    BY <1>3, <1>4, <1>5 DEF Scaled, Pools
  <1>6. CASE f.scale # None
    <2>1. Given(f.scale.range, p.range) = IF f.scale.auto THEN f.scale.range ELSE p.range
      BY <1>6, ScaleTypes DEF Given
    <2>2. Merged(f, p) = [p EXCEPT !.labels = new, !.auto = f.scale.auto,
                                   !.range = Given(f.scale.range, p.range),
                                   !.count = Given(f.scale.count, p.count)]
      BY <1>3, <1>6 DEF Scaled, Pools
    <2> QED BY <1>4, <1>6, <2>1, <2>2
  <1> QED BY <1>5, <1>6

-----------------------------------------------------------------------------
(* The invariant.                                                            *)

\* There is no pool at first.
LEMMA InitInv == Init => TypeOK /\ Inv
  <1> SUFFICES ASSUME Init PROVE TypeOK /\ Inv
    OBVIOUS
  <1>1. calm \in [Ops -> BOOLEAN] /\ raced \in BOOLEAN /\ \A p \in Ops : ~calm[p]
    BY Zenon DEF Init
  <1>2. TypeOK
    BY <1>1 DEF Init, TypeOK, Commands
  <1>3. Inv
    BY <1>1, NodePoolsAssumption DEF Init, Inv, PoolLabelRight, UpdatesAddUp
  <1> QED BY <1>2, <1>3

\* What a step of one invocation does to the variables of the others.
LEMMA GotoTypes ==
  ASSUME TypeOK, NEW p \in Ops,
         NEW l \in {"idle", "get", "request", "wait", "done", "broke", "ok", "failed"},
         Goto(p, l)
  PROVE  /\ pc' \in [Ops -> {"idle", "get", "request", "wait", "done", "broke", "ok", "failed"}]
         /\ pc'[p] = l
         /\ \A q \in Ops : q # p => pc'[q] = pc[q]
  BY DEF TypeOK, Goto

\* A new command of an invocation starts undisturbed by its last one.
LEMMA StartInv ==
  ASSUME TypeOK, Inv, NEW p \in Ops, Start(p) PROVE TypeOK' /\ Inv'
  <1>1. PICK c \in Commands, f \in Files :
          /\ cmd' = [cmd EXCEPT ![p] = c]
          /\ file' = [file EXCEPT ![p] = IF c = "delete" THEN None ELSE f]
          /\ Goto(p, IF c = "update" THEN "get" ELSE "request")
    BY DEF Start
  <1>2. /\ pc' \in [Ops -> {"idle", "get", "request", "wait", "done", "broke", "ok", "failed"}]
        /\ pc'[p] = IF c = "update" THEN "get" ELSE "request"
        /\ \A q \in Ops : q # p => pc'[q] = pc[q]
    BY <1>1, GotoTypes
  <1>3. /\ cmd' \in [Ops -> Commands] /\ cmd'[p] = c
        /\ \A q \in Ops : q # p => cmd'[q] = cmd[q]
    BY <1>1 DEF TypeOK
  <1>4. /\ file' \in [Ops -> Files \cup {None}]
        /\ c # "delete" => file'[p] \in Files
        /\ \A q \in Ops : q # p => file'[q] = file[q]
    BY <1>1 DEF TypeOK
  <1>5. /\ seen' \in [Ops -> Pools \cup {None}] /\ calm' \in [Ops -> BOOLEAN] /\ ~calm'[p]
        /\ \A q \in Ops : q # p => seen'[q] = seen[q] /\ calm'[q] = calm[q]
    BY DEF TypeOK, Start
  <1>6. UNCHANGED <<pool, busy, by, wish, raced>> /\ pc[p] \in {"idle", "ok", "failed"}
    BY DEF Start, azure
  <1>7. TypeOK'
    BY <1>2, <1>3, <1>4, <1>5, <1>6 DEF TypeOK
  <1>8. Inv'
    BY <1>2, <1>3, <1>4, <1>5, <1>6 DEF Inv, PoolLabelRight, UpdatesAddUp
  <1> QED BY <1>7, <1>8

\* Reading and checking the pool.
LEMMA GetInv ==
  ASSUME TypeOK, Inv, NEW p \in Ops, Get(p) PROVE TypeOK' /\ Inv'
  <1>1. /\ UNCHANGED <<pool, busy, by, cmd, file, calm, wish, raced>> /\ pc[p] = "get"
        /\ \A q \in Ops : q # p => seen'[q] = seen[q]
    BY DEF Get, azure, history, TypeOK
  <1>2. CASE pool # None /\ Unchanged(file[p], pool)
    <2>1. seen' = [seen EXCEPT ![p] = pool] /\ Goto(p, "request")
      BY <1>2 DEF Get
    <2>2. seen' \in [Ops -> Pools \cup {None}] /\ seen'[p] = pool /\ pool \in Pools
      BY <1>2, <2>1 DEF TypeOK
    <2>3. /\ pc' \in [Ops -> {"idle", "get", "request", "wait", "done", "broke", "ok", "failed"}]
          /\ pc'[p] = "request" /\ \A q \in Ops : q # p => pc'[q] = pc[q]
      BY <2>1, GotoTypes
    <2>4. TypeOK'
      BY <1>1, <2>2, <2>3 DEF TypeOK
    <2>5. Inv'
      BY <1>1, <1>2, <2>2, <2>3 DEF Inv, PoolLabelRight, UpdatesAddUp
    <2> QED BY <2>4, <2>5
  <1>3. CASE ~(pool # None /\ Unchanged(file[p], pool))
    <2>1. seen' = seen /\ Goto(p, "failed")
      BY <1>3 DEF Get
    <2>2. /\ pc' \in [Ops -> {"idle", "get", "request", "wait", "done", "broke", "ok", "failed"}]
          /\ pc'[p] = "failed" /\ \A q \in Ops : q # p => pc'[q] = pc[q]
      BY <2>1, GotoTypes
    <2>3. TypeOK'
      BY <1>1, <2>1, <2>2 DEF TypeOK
    <2>4. Inv'
      BY <1>1, <2>1, <2>2 DEF Inv, PoolLabelRight, UpdatesAddUp
    <2> QED BY <2>3, <2>4
  <1> QED BY <1>2, <1>3

\* The write: the body has the label and what the file asks for, and it is what
\* the change means unless the update had read another pool.
LEMMA PutInv ==
  ASSUME TypeOK, Inv, NEW p \in Ops, Put(p) PROVE TypeOK' /\ Inv'
  <1>1. /\ pc[p] = "request" /\ cmd[p] # "delete" /\ pool' = Body(p) /\ busy = "none"
        /\ busy' = "put" /\ by' = p /\ UNCHANGED <<cmd, file>>
    BY DEF Put, Accepts
  <1>2. file[p] \in Files /\ cmd[p] \in {"create", "update"}
    BY <1>1 DEF Inv, TypeOK, Commands
  <1>3. Body(p) \in Pools /\ Body(p).labels["node-pool"] = Name /\ Satisfies(Body(p), file[p])
    <2>1. CASE cmd[p] = "create"
      BY <1>2, <2>1, CreateBodyTypes DEF Body
    <2>2. CASE cmd[p] = "update"
      <3>1. seen[p] \in Pools /\ Unchanged(file[p], seen[p])
        BY <1>1, <2>2 DEF Inv
      <3> QED BY <1>2, <2>2, <3>1, MergedTypes DEF Body
    <2> QED BY <1>2, <2>1, <2>2
  <1>4. Body(p) # None
    BY <1>3, NodePoolsAssumption
  <1>5. /\ pc' \in [Ops -> {"idle", "get", "request", "wait", "done", "broke", "ok", "failed"}]
        /\ pc'[p] = "wait" /\ \A q \in Ops : q # p => pc'[q] = pc[q]
    BY GotoTypes DEF Put
  <1>6. calm' \in [Ops -> BOOLEAN] /\ \A q \in Ops : calm'[q] => q = p
    BY DEF Put, Changes
  <1>7. /\ seen' \in [Ops -> Pools \cup {None}]
        /\ \A q \in Ops : q # p => seen'[q] = seen[q]
    BY DEF Put, TypeOK
  <1>8. raced' \in BOOLEAN
    BY Zenon DEF Put
  <1>9. ~raced' => wish' = pool'
    <2>1. CASE cmd[p] = "create"
      BY <2>1, <1>1 DEF Put
    <2>2. CASE cmd[p] = "update" /\ ~raced'
      <3>1. ~raced /\ pool = seen[p]
        BY <2>2 DEF Put
      <3>2. wish = seen[p] /\ seen[p] \in Pools
        BY <1>1, <2>2, <3>1 DEF Inv, UpdatesAddUp
      <3>3. wish' = Updated(file[p], wish)
        BY <2>2 DEF Put
      <3> QED BY <1>1, <1>2, <2>2, <3>2, <3>3, MergedIsUpdated DEF Body
    <2> QED BY <1>2, <2>1, <2>2
  <1>10. wish' \in Pools \cup {None}
    <2>1. CASE raced'
      BY <2>1 DEF Put
    <2>2. CASE ~raced'
      BY <2>2, <1>1, <1>3, <1>9
    <2> QED BY <2>1, <2>2
  <1>11. TypeOK'
    BY <1>1, <1>3, <1>5, <1>6, <1>7, <1>8, <1>10 DEF TypeOK
  <1>12. Inv'
    BY <1>1, <1>2, <1>3, <1>4, <1>5, <1>6, <1>7, <1>9 DEF Inv, PoolLabelRight, UpdatesAddUp
  <1> QED BY <1>11, <1>12

\* Asking for the deletion changes nothing yet.
LEMMA RequestDeleteInv ==
  ASSUME TypeOK, Inv, NEW p \in Ops, RequestDelete(p) PROVE TypeOK' /\ Inv'
  <1>1. /\ pc[p] = "request" /\ cmd[p] = "delete" /\ busy' = "delete" /\ by' = p
        /\ UNCHANGED <<pool, cmd, file, seen, calm, wish, raced>>
    BY DEF RequestDelete, history
  <1>2. /\ pc' \in [Ops -> {"idle", "get", "request", "wait", "done", "broke", "ok", "failed"}]
        /\ pc'[p] = "wait" /\ \A q \in Ops : q # p => pc'[q] = pc[q]
    BY GotoTypes DEF RequestDelete
  <1>3. TypeOK'
    BY <1>1, <1>2 DEF TypeOK
  <1>4. Inv'
    BY <1>1, <1>2 DEF Inv, PoolLabelRight, UpdatesAddUp
  <1> QED BY <1>3, <1>4

\* A missing pool is a deleted one.
LEMMA DeleteNotFoundInv ==
  ASSUME TypeOK, Inv, NEW p \in Ops, DeleteNotFound(p) PROVE TypeOK' /\ Inv'
  <1>1. /\ pc[p] = "request" /\ cmd[p] = "delete" /\ pool = None
        /\ UNCHANGED <<pool, busy, by, cmd, file, seen, wish, raced>>
    BY DEF DeleteNotFound, azure
  <1>2. /\ pc' \in [Ops -> {"idle", "get", "request", "wait", "done", "broke", "ok", "failed"}]
        /\ pc'[p] = "ok" /\ \A q \in Ops : q # p => pc'[q] = pc[q]
    BY GotoTypes DEF DeleteNotFound
  <1>3. calm' \in [Ops -> BOOLEAN] /\ \A q \in Ops : q # p => calm'[q] = calm[q]
    BY DEF DeleteNotFound, TypeOK
  <1>4. TypeOK'
    BY <1>1, <1>2, <1>3 DEF TypeOK
  <1>5. Inv'
    BY <1>1, <1>2, <1>3 DEF Inv, PoolLabelRight, UpdatesAddUp
  <1> QED BY <1>4, <1>5

\* The end of a command.
LEMMA EndInv ==
  ASSUME TypeOK, Inv, NEW p \in Ops, Poll(p) \/ Fail(p) PROVE TypeOK' /\ Inv'
  <1>1. CASE Poll(p) /\ PollEnds(p)
    <2>1. /\ pc[p] \in {"done", "broke"}
          /\ UNCHANGED <<pool, busy, by, cmd, file, seen, calm, wish, raced>>
      BY <1>1 DEF Poll, PollEnds, azure, history
    <2>2. /\ pc' \in [Ops -> {"idle", "get", "request", "wait", "done", "broke", "ok", "failed"}]
          /\ pc'[p] = IF pc[p] = "done" THEN "ok" ELSE "failed"
          /\ \A q \in Ops : q # p => pc'[q] = pc[q]
      BY <1>1, GotoTypes DEF PollEnds
    <2>3. TypeOK'
      BY <2>1, <2>2 DEF TypeOK
    <2>4. Inv'
      BY <2>1, <2>2 DEF Inv, PoolLabelRight, UpdatesAddUp
    <2> QED BY <2>3, <2>4
  <1>3. CASE Poll(p) /\ PollNotFound(p)
    <2>1. /\ pc[p] \in {"done", "broke"} /\ cmd[p] = "delete" /\ pool = None
          /\ UNCHANGED <<pool, busy, by, cmd, file, seen, wish, raced>>
      BY <1>3 DEF Poll, PollNotFound, azure
    <2>2. /\ pc' \in [Ops -> {"idle", "get", "request", "wait", "done", "broke", "ok", "failed"}]
          /\ pc'[p] = "ok" /\ \A q \in Ops : q # p => pc'[q] = pc[q]
      BY <1>3, GotoTypes DEF PollNotFound
    <2>3. calm' \in [Ops -> BOOLEAN] /\ \A q \in Ops : q # p => calm'[q] = calm[q]
      BY <1>3 DEF PollNotFound, TypeOK
    <2>4. TypeOK'
      BY <2>1, <2>2, <2>3 DEF TypeOK
    <2>5. Inv'
      BY <2>1, <2>2, <2>3 DEF Inv, PoolLabelRight, UpdatesAddUp
    <2> QED BY <2>4, <2>5
  <1>2. CASE Fail(p)
    <2>1. /\ UNCHANGED <<pool, busy, cmd, wish, raced>> /\ by' = IF by = p THEN None ELSE by
      BY <1>2 DEF Fail
    <2>2. /\ pc' \in [Ops -> {"idle", "get", "request", "wait", "done", "broke", "ok", "failed"}]
          /\ pc'[p] = "failed" /\ \A q \in Ops : q # p => pc'[q] = pc[q]
      BY <1>2, GotoTypes DEF Fail
    <2>3. /\ seen' \in [Ops -> Pools \cup {None}] /\ file' \in [Ops -> Files \cup {None}]
          /\ calm' \in [Ops -> BOOLEAN] /\ ~calm'[p]
          /\ \A q \in Ops : q # p => seen'[q] = seen[q] /\ file'[q] = file[q] /\ calm'[q] = calm[q]
      BY <1>2 DEF Fail, TypeOK
    <2>4. TypeOK'
      BY <2>1, <2>2, <2>3 DEF TypeOK
    <2>5. None \notin Ops
      BY NodePoolsAssumption
    <2>6. Inv'
      BY <2>1, <2>2, <2>3, <2>5 DEF Inv, PoolLabelRight, UpdatesAddUp
    <2> QED BY <2>4, <2>6
  <1> QED BY <1>1, <1>2, <1>3 DEF Poll

\* The end of Azure's operation.
LEMMA FinishInv ==
  ASSUME TypeOK, Inv, OperationSucceeds \/ OperationFails PROVE TypeOK' /\ Inv'
  <1>1. PICK how \in {"done", "broke"}, gone \in BOOLEAN :
          Finish(how, gone) /\ (gone => busy = "delete")
    BY DEF OperationSucceeds, OperationFails
  <1>2. /\ pc' \in [Ops -> {"idle", "get", "request", "wait", "done", "broke", "ok", "failed"}]
        /\ \A q \in Ops : pc'[q] = IF q = by THEN how ELSE pc[q]
    BY <1>1 DEF Finish, TypeOK
  <1>3. busy' = "none" /\ by' = None /\ UNCHANGED <<cmd, file, seen>> /\ None \notin Ops
    BY <1>1, NodePoolsAssumption DEF Finish
  <1>4. \A q \in Ops : by = q => pc[q] = "wait" /\ (busy = "delete" <=> cmd[q] = "delete")
    BY DEF Inv
  <1>5. CASE gone
    <2>1. /\ pool' = None /\ wish' = None /\ raced' = FALSE
          /\ calm' \in [Ops -> BOOLEAN] /\ \A q \in Ops : calm'[q] <=> q = by
      BY <1>1, <1>5 DEF Finish
    <2>2. TypeOK'
      BY <1>2, <1>3, <2>1 DEF TypeOK
    <2>3. Inv'
      BY <1>1, <1>2, <1>3, <1>4, <1>5, <2>1 DEF Inv, PoolLabelRight, UpdatesAddUp
    <2> QED BY <2>2, <2>3
  <1>6. CASE ~gone
    <2>1. UNCHANGED <<pool, calm, wish, raced>>
      BY <1>1, <1>6 DEF Finish, history
    <2>2. TypeOK'
      BY <1>2, <1>3, <2>1 DEF TypeOK
    <2>3. Inv'
      BY <1>2, <1>3, <1>4, <2>1 DEF Inv, PoolLabelRight, UpdatesAddUp
    <2> QED BY <2>2, <2>3
  <1> QED BY <1>5, <1>6

-----------------------------------------------------------------------------
(* The theorems.                                                             *)

\* TypeOK and Inv are inductive together.
LEMMA Inductive == Spec => [](TypeOK /\ Inv)
  <1>1. TypeOK /\ Inv /\ [Next]_vars => TypeOK' /\ Inv'
    <2> SUFFICES ASSUME TypeOK, Inv, [Next]_vars PROVE TypeOK' /\ Inv'
      OBVIOUS
    <2>1. CASE \E p \in Ops : Step(p)
      BY <2>1, StartInv, GetInv, PutInv, RequestDeleteInv, DeleteNotFoundInv, EndInv DEF Step
    <2>2. CASE OperationSucceeds \/ OperationFails
      BY <2>2, FinishInv
    <2>3. CASE UNCHANGED vars
      BY <2>3 DEF vars, azure, history, TypeOK, Inv, PoolLabelRight, UpdatesAddUp
    <2> QED BY <2>1, <2>2, <2>3 DEF Next
  <1> QED BY <1>1, InitInv, PTL DEF Spec

\* Every variable keeps its type: the bodies the driver builds are pools.
THEOREM TypeCorrect == Spec => []TypeOK
  BY Inductive, PTL

\* The pool carries its own name (nodepool.go:417 and 545).
THEOREM PoolIsLabelled == Spec => []PoolLabelRight
  <1>1. Inv => PoolLabelRight
    BY DEF Inv
  <1> QED BY <1>1, Inductive, PTL

\* A successful create or update gives what its file asks for (nodepool.go:95, 150).
THEOREM SuccessGivesFile == Spec => []OkGivesFile
  <1>1. Inv => OkGivesFile
    BY DEF Inv, OkGivesFile
  <1> QED BY <1>1, Inductive, PTL

\* A successful delete leaves no pool (nodepool.go:213).
THEOREM SuccessMeansGone == Spec => []OkMeansGone
  <1>1. Inv => OkMeansGone
    BY DEF Inv, OkMeansGone
  <1> QED BY <1>1, Inductive, PTL

\* A command that succeeds undisturbed has done what it was asked for
\* (nodepool.go:95, 150 and 213).
THEOREM SuccessMeansDone == Spec => []OkMeansDone
  BY SuccessGivesFile, SuccessMeansGone, PTL DEF OkMeansDone

\* Partial updates add up unless one wrote over a pool it had not read
\* (nodepool.go:518).
THEOREM UpdatesAreAtomic == Spec => []UpdatesAddUp
  <1>1. Inv => UpdatesAddUp
    BY DEF Inv
  <1> QED BY <1>1, Inductive, PTL
=============================================================================
