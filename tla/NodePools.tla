------------------------------ MODULE NodePools ------------------------------
(***************************************************************************)
(* Node pools of an AKS cluster (usecase/nodepool, adapters/drivers/       *)
(* provider/aks/nodepool.go, cmd/kompoxops/cmd_cluster_nodepool.go): one   *)
(* pool and several invocations of create, update and delete.              *)
(*                                                                         *)
(* Azure keeps the pool.  It runs one operation on it at a time, shows the *)
(* new properties as soon as it has accepted them, and finishes an         *)
(* operation whether or not the invocation that began it is still there.   *)
(* Update reads the pool, checks and merges, and writes the whole pool.    *)
(*                                                                         *)
(* A zone list is a model value.  A file writes it as AKS does ("1") or    *)
(* as Kompox does ("japaneast-1"); the label of the first zone has the     *)
(* same form.  Kinds stands for mode, instance type, OS disk and priority. *)
(***************************************************************************)
EXTENDS Naturals

CONSTANTS
  Ops,       \* the invocations
  Kinds,     \* values of the immutable scalar fields
  Zones,     \* zone lists
  Keys,      \* label keys besides the two of Kompox
  Vals,      \* label values a file may give
  Ranges,    \* minimum and maximum of the autoscaling
  Counts,    \* fixed node counts
  Files,     \* the specification files in use
  Name,      \* the pool's name
  None

Forms   == {"aks", "kompox"}
Written == [list : Zones, form : Forms]
Labels  == Keys \cup {"node-pool", "node-zone"}
Texts   == Vals \cup Written \cup {Name}

\* A file: a field that is None is not given; a given autoscaling is a range or,
\* disabled, perhaps a count.
Scales == [auto : {TRUE}, range : Ranges, count : {None}]
            \cup [auto : {FALSE}, range : {None}, count : Counts \cup {None}]
FileType == [kind : Kinds \cup {None}, zones : Written \cup {None},
             labels : [Labels -> Vals \cup {None}], scale : Scales \cup {None}]

\* A pool at Azure, which keeps zones in its own form.
Pools == [kind : Kinds \cup {None}, zones : Zones \cup {None},
          labels : [Labels -> Texts \cup {None}],
          auto : BOOLEAN, range : Ranges \cup {None}, count : Counts \cup {None}]

ASSUME NodePoolsAssumption ==
  /\ Files \subseteq FileType
  /\ None \notin Ops \cup Kinds \cup Zones \cup Written \cup Texts \cup Ranges \cup Counts
                 \cup Pools \cup Scales \cup FileType
  /\ Name \notin Vals
  /\ {"node-pool", "node-zone"} \cap Keys = {}

VARIABLES
  pool,     \* the pool at Azure, or None
  busy,     \* the operation Azure runs on it: "none", "put", "delete"
  by,       \* the invocation that waits for it, or None
  pc,       \* per invocation
  cmd,
  file,
  seen,     \* the pool update has read
  calm,     \* history: nobody else changed the pool since its own change
  wish,     \* history: the pool if every accepted change were one atomic step
  raced     \* history: an update was accepted on a pool it had not read, and the
            \* pool was neither created nor deleted since

azure   == <<pool, busy, by>>
history == <<calm, wish, raced>>
vars == <<azure, pc, cmd, file, seen, history>>

Commands == {"create", "update", "delete"}

TypeOK ==
  /\ pool \in Pools \cup {None}
  /\ busy \in {"none", "put", "delete"}
  /\ by \in Ops \cup {None}
  /\ pc \in [Ops -> {"idle", "get", "request", "wait", "done", "broke", "ok", "failed"}]
  /\ cmd \in [Ops -> Commands]
  /\ file \in [Ops -> Files \cup {None}]
  /\ seen \in [Ops -> Pools \cup {None}]
  /\ calm \in [Ops -> BOOLEAN]
  /\ wish \in Pools \cup {None}
  /\ raced \in BOOLEAN

Init ==
  /\ pool = None /\ busy = "none" /\ by = None
  /\ pc = [p \in Ops |-> "idle"]
  /\ cmd = [p \in Ops |-> "delete"]
  /\ file = [p \in Ops |-> None]
  /\ seen = [p \in Ops |-> None]
  /\ calm = [p \in Ops |-> FALSE]
  /\ wish = None
  /\ raced = FALSE

-----------------------------------------------------------------------------
(* Conversions.                                                              *)

Given(new, old) == IF new # None THEN new ELSE old

\* normalizeKompoxZoneToAks, normalizeAksZoneToKompox on the first zone.
ToAks(written) == IF written = None THEN None ELSE written.list
ToKompox(list) == [list |-> list, form |-> "kompox"]

\* A file's labels over a pool's, then the two of Kompox over both: mutants of
\* Labelled let the file's labels win, or forget the pool's.
LabelledFileLast(old, f, zone) ==
  [l \in Labels |-> Given(f.labels[l],
                      IF l = "node-pool" THEN Name
                      ELSE IF l = "node-zone" THEN Given(zone, old[l]) ELSE old[l])]

Labelled(old, f, zone) ==
  [l \in Labels |-> IF l = "node-pool" THEN Name
                    ELSE LET given == Given(f.labels[l], old[l])
                         IN IF l = "node-zone" THEN Given(zone, given) ELSE given]

\* Mutant of Scaled: a disabled autoscaling leaves the flag alone.
ScaledFlagKept(p, s) ==
  IF s = None THEN p
  ELSE [p EXCEPT !.auto = s.auto \/ @, !.range = Given(s.range, @), !.count = Given(s.count, @)]

\* A given autoscaling sets the flag and either the range or the count.  What it
\* does not set stays.
Scaled(p, s) ==
  IF s = None THEN p
  ELSE [p EXCEPT !.auto = s.auto, !.range = Given(s.range, @), !.count = Given(s.count, @)]

Unlabelled == [l \in Labels |-> None]

\* Mutant of CreateBody: the zones are stored as they are written.
CreateBodyAsWritten(f) ==
  Scaled([kind |-> f.kind, zones |-> f.zones, labels |-> Labelled(Unlabelled, f, f.zones),
          auto |-> FALSE, range |-> None, count |-> None], f.scale)

\* nodePoolToAgentPoolProfile.  The zone label is the zone as the file writes it.
CreateBody(f) ==
  Scaled([kind |-> f.kind, zones |-> ToAks(f.zones), labels |-> Labelled(Unlabelled, f, f.zones),
          auto |-> FALSE, range |-> None, count |-> None], f.scale)

\* validateImmutableFields.  Zones are compared in the Kompox form only.
Unchanged(f, p) ==
  /\ f.kind # None /\ p.kind # None => f.kind = p.kind
  /\ f.zones # None /\ p.zones # None => f.zones = ToKompox(p.zones)

\* Mutant of Merged: the labels of the file replace the pool's.
MergedAfresh(f, p) ==
  Scaled([p EXCEPT !.labels =
            Labelled(Unlabelled, f, IF p.zones = None THEN None ELSE ToKompox(p.zones))],
         f.scale)

\* mergeMutableFields.
Merged(f, p) ==
  Scaled([p EXCEPT !.labels =
            Labelled(@, f, IF p.zones = None THEN None ELSE ToKompox(p.zones))], f.scale)

\* What an update of w means, field by field: the reference for Merged.
Updated(f, w) ==
  [w EXCEPT
    !.labels = [l \in Labels |->
                  IF l = "node-pool" THEN Name
                  ELSE IF l = "node-zone" /\ w.zones # None THEN ToKompox(w.zones)
                  ELSE Given(f.labels[l], w.labels[l])],
    !.auto   = IF f.scale = None THEN @ ELSE f.scale.auto,
    !.range  = IF f.scale = None \/ ~f.scale.auto THEN @ ELSE f.scale.range,
    !.count  = IF f.scale = None THEN @ ELSE Given(f.scale.count, @)]

-----------------------------------------------------------------------------
(* Invocations.                                                              *)

Goto(p, l) == pc' = [pc EXCEPT ![p] = l]

\* The command line, the file and the cluster are read; create and delete go
\* straight to their request.
Start(p) ==
  /\ pc[p] \in {"idle", "ok", "failed"}
  /\ \E c \in Commands, f \in Files :
       /\ cmd' = [cmd EXCEPT ![p] = c]
       /\ file' = [file EXCEPT ![p] = IF c = "delete" THEN None ELSE f]
       /\ Goto(p, IF c = "update" THEN "get" ELSE "request")
  /\ seen' = [seen EXCEPT ![p] = None]
  /\ calm' = [calm EXCEPT ![p] = FALSE]
  /\ UNCHANGED <<azure, wish, raced>>

\* Update reads the pool, which must exist, and checks its immutable fields.
Get(p) ==
  /\ pc[p] = "get"
  /\ IF pool # None /\ Unchanged(file[p], pool)
       THEN seen' = [seen EXCEPT ![p] = pool] /\ Goto(p, "request")
       ELSE Goto(p, "failed") /\ UNCHANGED seen
  /\ UNCHANGED <<azure, cmd, file, history>>

\* Azure's own rules for a write: one operation at a time, and it does not change
\* what it calls immutable.
Accepts(body) ==
  /\ busy = "none"
  /\ pool # None => body.kind = pool.kind /\ body.zones = pool.zones

Body(p) == IF cmd[p] = "create" THEN CreateBody(file[p]) ELSE Merged(file[p], seen[p])

\* The change p makes: calm is over for the others.
Changes(p) == calm' = [q \in Ops |-> q = p]

\* BeginCreateOrUpdate, which creates or replaces: an update makes a pool again
\* that was deleted after it was read.
Put(p) ==
  /\ pc[p] = "request"
  /\ cmd[p] # "delete"
  /\ Accepts(Body(p))
  /\ pool' = Body(p)
  /\ busy' = "put" /\ by' = p
  /\ Goto(p, "wait")
  /\ seen' = [seen EXCEPT ![p] = None]
  /\ Changes(p)
  /\ raced' = (cmd[p] = "update" /\ (raced \/ pool # seen[p]))
  /\ wish' = IF raced' THEN None
             ELSE IF cmd[p] = "create" THEN pool' ELSE Updated(file[p], wish)
  /\ UNCHANGED <<cmd, file>>

\* BeginDelete.
RequestDelete(p) ==
  /\ pc[p] = "request"
  /\ cmd[p] = "delete"
  /\ pool # None
  /\ busy = "none"
  /\ busy' = "delete" /\ by' = p
  /\ Goto(p, "wait")
  /\ UNCHANGED <<pool, cmd, file, seen, history>>

\* Mutant of DeleteNotFound: any failing request counts as a missing pool.
DeleteAnyError(p) ==
  /\ pc[p] = "request"
  /\ cmd[p] = "delete"
  /\ Goto(p, "ok")
  /\ calm' = [calm EXCEPT ![p] = TRUE]
  /\ UNCHANGED <<azure, cmd, file, seen, wish, raced>>

\* ... of a pool that is not there, which is a success.
DeleteNotFound(p) ==
  /\ pc[p] = "request"
  /\ cmd[p] = "delete"
  /\ pool = None
  /\ Goto(p, "ok")
  /\ calm' = [calm EXCEPT ![p] = TRUE]
  /\ UNCHANGED <<azure, cmd, file, seen, wish, raced>>

\* PollUntilDone returns how the operation ended.
PollEnds(p) ==
  /\ Goto(p, IF pc[p] = "done" THEN "ok" ELSE "failed")
  /\ UNCHANGED <<azure, cmd, file, seen, history>>

\* ... or, of a delete, that there is no pool any more, whoever removed it: a
\* success, also when the operation itself broke.
PollNotFound(p) ==
  /\ cmd[p] = "delete" /\ pool = None
  /\ Goto(p, "ok")
  /\ calm' = [calm EXCEPT ![p] = TRUE]
  /\ UNCHANGED <<azure, cmd, file, seen, wish, raced>>

Poll(p) ==
  /\ pc[p] \in {"done", "broke"}
  /\ PollEnds(p) \/ PollNotFound(p)

\* A call fails, is refused or times out, or the process dies: an operation that
\* was accepted goes on without it.
Fail(p) ==
  /\ pc[p] \in {"get", "request", "wait", "done", "broke"}
  /\ Goto(p, "failed")
  /\ by' = IF by = p THEN None ELSE by
  /\ seen' = [seen EXCEPT ![p] = None]
  /\ file' = [file EXCEPT ![p] = None]
  /\ calm' = [calm EXCEPT ![p] = FALSE]
  /\ UNCHANGED <<pool, busy, cmd, wish, raced>>

Step(p) ==
  \/ Start(p) \/ Get(p) \/ Put(p) \/ RequestDelete(p) \/ DeleteNotFound(p)
  \/ Poll(p) \/ Fail(p)

-----------------------------------------------------------------------------
(* Azure.                                                                    *)

\* The operation ends.  A failed write leaves the properties that were asked for.
Finish(how, gone) ==
  /\ busy' = "none" /\ by' = None
  /\ pc' = [p \in Ops |-> IF p = by THEN how ELSE pc[p]]
  /\ IF gone
       THEN /\ pool' = None /\ wish' = None
            /\ calm' = [q \in Ops |-> q = by]
            /\ raced' = FALSE
       ELSE UNCHANGED <<pool, history>>
  /\ UNCHANGED <<cmd, file, seen>>

OperationSucceeds == busy # "none" /\ Finish("done", busy = "delete")
OperationFails    == busy # "none" /\ Finish("broke", FALSE)

Next == (\E p \in Ops : Step(p)) \/ OperationSucceeds \/ OperationFails

Spec == Init /\ [][Next]_vars

-----------------------------------------------------------------------------
(* Properties.                                                               *)

\* The pool label (nodepool.go:417 and 545): whatever labels the files give and in
\* whatever order the invocations write, the pool carries its own name, which is
\* what pods select it by.
PoolLabelRight == pool # None => pool.labels["node-pool"] = Name

\* What f asks for is there: immutable fields, labels of its own, autoscaling.
Satisfies(w, f) ==
  /\ f.kind # None => w.kind \in {f.kind, None}
  /\ f.zones # None => w.zones \in {f.zones.list, None}
  /\ \A l \in Keys : f.labels[l] # None => w.labels[l] = f.labels[l]
  /\ f.scale # None =>
       /\ w.auto = f.scale.auto
       /\ f.scale.range # None => w.range = f.scale.range
       /\ f.scale.count # None => w.count = f.scale.count

\* NodePoolCreate and NodePoolUpdate (nodepool.go:95 and 150): a successful create
\* or update leaves a pool that has all the file asks for, although the check of
\* the immutable fields may be of a pool that is gone, unless another invocation
\* changed the pool afterwards.
OkGivesFile ==
  \A p \in Ops : pc[p] = "ok" /\ calm[p] /\ cmd[p] # "delete" =>
    pool # None /\ Satisfies(pool, file[p])

\* NodePoolDelete (nodepool.go:213): a successful delete leaves no pool, unless
\* another invocation put one there afterwards.
OkMeansGone ==
  \A p \in Ops : pc[p] = "ok" /\ calm[p] /\ cmd[p] = "delete" => pool = None

\* Both: a command that succeeds undisturbed has done what it was asked for
\* (nodepool.go:95, 150 and 213), over a pool that others may have left mid-way.
OkMeansDone == OkGivesFile /\ OkMeansGone

\* mergeMutableFields (nodepool.go:518): partial updates add up.  The pool is what
\* the accepted changes give one after the other, as long as no update wrote
\* over a pool it had not read; creating or deleting it starts afresh.
UpdatesAddUp == ~raced => pool = wish

-----------------------------------------------------------------------------
(* The inductive invariant.                                                  *)

\* Who waits for Azure, which pool an update is about to overwrite, and what an
\* undisturbed invocation still finds.
Inv ==
  /\ \A p \in Ops : by = p => pc[p] = "wait" /\ (busy = "delete" <=> cmd[p] = "delete")
  /\ \A p \in Ops : pc[p] \notin {"idle", "failed"} /\ cmd[p] # "delete" => file[p] \in Files
  /\ \A p \in Ops : pc[p] = "request" /\ cmd[p] = "update" =>
       seen[p] \in Pools /\ Unchanged(file[p], seen[p])
  /\ \A p \in Ops : calm[p] /\ cmd[p] = "delete" => pool = None
  /\ \A p \in Ops : calm[p] /\ cmd[p] # "delete" => pool # None /\ Satisfies(pool, file[p])
  /\ PoolLabelRight
  /\ UpdatesAddUp

=============================================================================
