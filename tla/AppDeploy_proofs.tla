-------------------------- MODULE AppDeploy_proofs --------------------------
(***************************************************************************)
(* The properties of both halves of app deploy: of what it makes           *)
(* (AppConverter), for any apps, and of how it applies that (Rollout), for *)
(* any number of invocations and commands, any configs, versions and       *)
(* headless services.                                                      *)
(*                                                                         *)
(* The invariant of Rollout follows a command that nobody disturbs: what   *)
(* it has applied or removed so far, and that the patch in its hands is    *)
(* computed from what is stored.  A step of another invocation either      *)
(* changes nothing or ends its calm, so that each step is only looked at   *)
(* for the invocation that takes it.                                       *)
(*                                                                         *)
(* The invariant of AppConverter is what the services converted so far     *)
(* have left behind (Collected), what was made of that for others to see   *)
(* (Shown), and what was bound (Bound).  It says what every object is made *)
(* of; that they fit together follows from it without another step.        *)
(***************************************************************************)
EXTENDS AppConverter, Rollout, TLAPS, SequenceTheorems, FiniteSetTheorems

-----------------------------------------------------------------------------
(* ROLLOUT                                                                   *)

-----------------------------------------------------------------------------
(* What a step of one invocation leaves alone.                               *)

\* HashTrue of one invocation.
HashOf(p) ==
  /\ pc[p] = "ok" /\ calm[p] /\ "patch" \notin swallowed[p]
  /\ cmd[p] \notin {"destroy", "wipe"}
  => /\ dep # None
     /\ dep.hash = [order |-> dep.order, docs |-> stored]
     /\ dep.pull = (stored["pull"] # None)

\* The invariant of one invocation.
Held(p) == Known(p) /\ Patching(p) /\ Giving(p) /\ Clearing(p) /\ HashOf(p)

LEMMA InvHeld == Inv <=> \A p \in Ops : Held(p)
  BY DEF Inv, Held, HashTrue, HashOf

\* What of an invocation only its own steps change.
Mine(q) == <<pc[q], cmd[q], arg[q], todo[q], got[q], secs[q], swallowed[q]>>

\* The steps of others change nothing in the cluster, or they end the calm.
LEMMA OthersKept ==
  ASSUME NEW q \in Ops, Held(q), Mine(q)' = Mine(q),
         \/ UNCHANGED cluster /\ calm'[q] = calm[q]
         \/ ~calm'[q]
  PROVE  Held(q)'
  <1>1. /\ pc'[q] = pc[q] /\ cmd'[q] = cmd[q] /\ arg'[q] = arg[q] /\ todo'[q] = todo[q]
        /\ got'[q] = got[q] /\ secs'[q] = secs[q] /\ swallowed'[q] = swallowed[q]
    BY DEF Mine
  <1>2. Known(q)'
    BY <1>1 DEF Held, Known
  <1>3. CASE ~calm'[q]
    BY <1>2, <1>3 DEF Held, Patching, Giving, Clearing, HashOf
  <1>4. CASE UNCHANGED cluster /\ calm'[q] = calm[q]
    <2>1. namespace' = namespace /\ stored' = stored /\ there' = there /\ dep' = dep
      BY <1>4 DEF cluster
    <2>2. Patching(q)'
      BY <1>1, <1>4, <2>1 DEF Held, Patching
    <2>3. Giving(q)'
      BY <1>1, <1>4, <2>1 DEF Held, Giving
    <2>4. Clearing(q)' /\ HashOf(q)'
      BY <1>1, <1>4, <2>1 DEF Held, Clearing, HashOf
    <2> QED BY <1>2, <2>2, <2>3, <2>4 DEF Held
  <1> QED BY <1>3, <1>4

\* The invariant after a step of p, which only has to be looked at for p itself.
LEMMA StepKeeps ==
  ASSUME Inv, NEW p \in Ops,
         \A q \in Ops \ {p} : Mine(q)' = Mine(q),
         \A q \in Ops \ {p} : (UNCHANGED cluster /\ calm'[q] = calm[q]) \/ ~calm'[q],
         Held(p)'
  PROVE  Inv'
  <1>1. ASSUME NEW q \in Ops, q # p PROVE Held(q)'
    <2>1. Held(q) /\ Mine(q)' = Mine(q)
      BY <1>1, InvHeld
    <2>2. (UNCHANGED cluster /\ calm'[q] = calm[q]) \/ ~calm'[q]
      BY <1>1
    <2> QED BY <2>1, <2>2, OthersKept
  <1>2. \A q \in Ops : Held(q)'
    BY <1>1
  <1> QED BY <1>2 DEF Inv, Held, HashTrue, HashOf

\* Moving on, disturbing all others, passing over an error.
LEMMA GotoTypes ==
  ASSUME TypeOK, NEW p \in Ops, NEW l \in Points, Goto(p, l)
  PROVE  pc' \in [Ops -> Points] /\ pc'[p] = l /\ \A q \in Ops \ {p} : pc'[q] = pc[q]
  BY DEF TypeOK, Goto

LEMMA ChangesTypes ==
  ASSUME TypeOK, NEW p \in Ops, Changes(p)
  PROVE  calm' \in [Ops -> BOOLEAN] /\ calm'[p] = calm[p] /\ \A q \in Ops \ {p} : ~calm'[q]
  BY DEF TypeOK, Changes

LEMMA SwallowTypes ==
  ASSUME TypeOK, NEW p \in Ops, NEW what \in {"clean", "patch"}, Swallow(p, what)
  PROVE  /\ swallowed' \in [Ops -> SUBSET {"clean", "patch"}]
         /\ swallowed'[p] = swallowed[p] \cup {what}
         /\ \A q \in Ops \ {p} : swallowed'[q] = swallowed[q]
  BY DEF TypeOK, Swallow

-----------------------------------------------------------------------------
(* The initial states, the beginning and the early end of a command.         *)

\* At first there is nothing.
LEMMA InitInv == Init => TypeOK /\ Inv
  <1> SUFFICES ASSUME Init PROVE TypeOK /\ Inv
    OBVIOUS
  <1>1. TypeOK
    BY RolloutAssumption DEF Init, TypeOK, NoSecrets, Points, Commands
  <1>2. \A p \in Ops : Held(p)
    BY DEF Init, Held, Known, Patching, Giving, Clearing, HashOf, DeployPoints, PatchPoints,
       ClearPoints
  <1> QED BY <1>1, <1>2, InvHeld

\* A command that is over claims nothing.
LEMMA OverInv ==
  ASSUME TypeOK, Inv, NEW p \in Ops, NEW how \in {"noop", "failed"}, Over(p, how),
         UNCHANGED <<cluster, left>>
  PROVE  TypeOK' /\ Inv'
  <1>1. pc' \in [Ops -> Points] /\ pc'[p] = how /\ \A q \in Ops \ {p} : pc'[q] = pc[q]
    BY GotoTypes DEF Over, Points
  <1>2. /\ cmd' \in [Ops -> Commands] /\ arg' \in [Ops -> Specs \cup Texts \cup {None}]
        /\ todo' \in [Ops -> SUBSET (Objects \cup Confs)]
        /\ found' \in [Ops -> Texts \cup {None}] /\ fits' \in [Ops -> BOOLEAN]
        /\ got' \in [Ops -> Deploys \cup Patches \cup {None}]
        /\ secs' \in [Ops -> [Sealed -> Texts \cup {None}]]
        /\ swallowed' \in [Ops -> SUBSET {"clean", "patch"}] /\ calm' \in [Ops -> BOOLEAN]
    BY DEF Over, TypeOK, NoSecrets, Commands
  <1>3. TypeOK'
    BY <1>1, <1>2 DEF TypeOK, cluster
  <1>4. ~calm'[p] /\ cmd'[p] = "deploy"
    BY DEF Over, TypeOK
  <1>5. Held(p)'
    BY <1>1, <1>4 DEF Held, Known, Patching, Giving, Clearing, HashOf, DeployPoints,
       PatchPoints, ClearPoints
  <1>6. \A q \in Ops \ {p} : Mine(q)' = Mine(q) /\ calm'[q] = calm[q]
    BY <1>1 DEF Over, TypeOK, Mine
  <1>7. Inv'
    BY <1>5, <1>6, StepKeeps
  <1> QED BY <1>3, <1>7

\* A command begins.
LEMMA StartInv ==
  ASSUME TypeOK, Inv, NEW p \in Ops, Start(p) PROVE TypeOK' /\ Inv'
  <1>1. PICK c \in Commands, a \in Specs \cup Texts \cup {None} :
          /\ cmd' = [cmd EXCEPT ![p] = c]
          /\ a \in CASE c = "deploy"  -> Specs
                     [] c = "setEnv"  -> EnvTexts
                     [] c = "setPull" -> PullTexts
                     [] OTHER         -> {None}
          /\ arg' = [arg EXCEPT ![p] = a]
          /\ Goto(p, CASE c = "deploy"                   -> "namespace"
                       [] c \in {"destroy", "wipe"}       -> "ingress"
                       [] c \in {"setEnv", "setPull"}     -> "get"
                       [] c \in {"deleteEnv", "deletePull"} -> "delete")
    BY DEF Start, Texts, Commands
  <1> DEFINE l == CASE c = "deploy"                   -> "namespace"
                    [] c \in {"destroy", "wipe"}       -> "ingress"
                    [] c \in {"setEnv", "setPull"}     -> "get"
                    [] c \in {"deleteEnv", "deletePull"} -> "delete"
  <1>2. /\ a \in Specs \cup Texts \cup {None}
        /\ c = "deploy" => a \in Specs
        /\ c \in {"setEnv", "setPull"} => a \in Texts
    BY <1>1 DEF Texts, Commands
  <1>3. /\ l \in {"namespace", "ingress", "get", "delete"}
        /\ l = "namespace" <=> c = "deploy"
        /\ l = "ingress" <=> c \in {"destroy", "wipe"}
        /\ l = "get" <=> c \in {"setEnv", "setPull"}
        /\ l = "delete" <=> c \in {"deleteEnv", "deletePull"}
    BY <1>1 DEF Commands
  <1>4. pc' \in [Ops -> Points] /\ pc'[p] = l /\ \A q \in Ops \ {p} : pc'[q] = pc[q]
    <2>1. l \in Points
      BY <1>3 DEF Points
    <2> HIDE DEF l
    <2>2. Goto(p, l)
      BY <1>1 DEF l
    <2> QED BY <2>1, <2>2, GotoTypes
  <1>5. /\ cmd' \in [Ops -> Commands] /\ cmd'[p] = c
        /\ arg' \in [Ops -> Specs \cup Texts \cup {None}] /\ arg'[p] = a
        /\ \A q \in Ops \ {p} : cmd'[q] = cmd[q] /\ arg'[q] = arg[q]
    BY <1>1, <1>2 DEF TypeOK
  <1>6. /\ swallowed' \in [Ops -> SUBSET {"clean", "patch"}] /\ calm' \in [Ops -> BOOLEAN]
        /\ \A q \in Ops \ {p} : swallowed'[q] = swallowed[q] /\ calm'[q] = calm[q]
        /\ left' \in 0 .. MaxCommands
        /\ UNCHANGED <<cluster, todo, found, got, secs, fits>>
    BY RolloutAssumption DEF Start, TypeOK
  <1>7. TypeOK'
    BY <1>4, <1>5, <1>6 DEF TypeOK, cluster
  <1> HIDE DEF l
  <1>8. Held(p)'
    BY <1>2, <1>3, <1>4, <1>5 DEF Held, Known, Patching, Giving, Clearing, HashOf, DeployPoints,
       PatchPoints, ClearPoints
  <1>9. \A q \in Ops \ {p} : Mine(q)' = Mine(q)
    BY <1>4, <1>5, <1>6 DEF Mine
  <1>10. Inv'
    BY <1>6, <1>8, <1>9, StepKeeps
  <1> QED BY <1>7, <1>10

-----------------------------------------------------------------------------
(* app deploy.                                                               *)

\* What the versions are.
LEMMA SpecTypes ==
  ASSUME NEW s \in Specs
  PROVE  /\ s.texts \in [Confs -> Texts] /\ s.objects \subseteq Exposed
         /\ Exposed \subseteq Objects /\ "claims" \notin Exposed /\ Heads \subseteq Exposed
  BY RolloutAssumption DEF Texts, Exposed, Objects

\* Namespace and claims.
LEMMA ApplyFirstInv ==
  ASSUME TypeOK, Inv, NEW p \in Ops, ApplyNamespace(p) \/ ApplyClaims(p), UNCHANGED left
  PROVE  TypeOK' /\ Inv'
  <1>1. Held(p)
    BY InvHeld
  <1>2. calm' \in [Ops -> BOOLEAN] /\ calm'[p] = calm[p] /\ \A q \in Ops \ {p} : ~calm'[q]
    BY ChangesTypes DEF ApplyNamespace, ApplyClaims
  <1>3. CASE ApplyNamespace(p)
    <2>1. pc' \in [Ops -> Points] /\ pc'[p] = "claims" /\ \A q \in Ops \ {p} : pc'[q] = pc[q]
      BY <1>3, GotoTypes DEF ApplyNamespace, Points
    <2>2. /\ pc[p] = "namespace" /\ namespace' \in {"none", "active", "ending"}
          /\ UNCHANGED <<stored, there, dep, cmd, arg, todo, found, got, secs, fits, swallowed>>
      BY <1>3 DEF ApplyNamespace, local, TypeOK
    <2>3. TypeOK'
      BY <1>2, <2>1, <2>2 DEF TypeOK
    <2>4. Held(p)'
      BY <1>1, <1>2, <2>1, <2>2 DEF Held, Known, Patching, Giving, Clearing, HashOf, DeployPoints,
       PatchPoints, ClearPoints
    <2>5. \A q \in Ops \ {p} : Mine(q)' = Mine(q)
      BY <2>1, <2>2 DEF Mine
    <2>6. Inv'
      BY <1>2, <2>4, <2>5, StepKeeps
    <2> QED BY <2>3, <2>6
  <1>4. CASE ApplyClaims(p)
    <2>1. pc' \in [Ops -> Points] /\ pc'[p] = "confs" /\ \A q \in Ops \ {p} : pc'[q] = pc[q]
      BY <1>4, GotoTypes DEF ApplyClaims, Points
    <2>2. /\ pc[p] = "claims" /\ there' = there \cup {"claims"}
          /\ UNCHANGED <<namespace, stored, dep, cmd, arg, found, got, secs, fits, swallowed>>
      BY <1>4 DEF ApplyClaims
    <2>3. /\ todo' \in [Ops -> SUBSET (Objects \cup Confs)] /\ todo'[p] = Confs
          /\ \A q \in Ops \ {p} : todo'[q] = todo[q]
      BY <1>4 DEF ApplyClaims, TypeOK
    <2>4. TypeOK'
      BY <1>2, <2>1, <2>2, <2>3 DEF TypeOK, Objects
    <2>5. Held(p)'
      BY <1>1, <1>2, <2>1, <2>2, <2>3 DEF Held, Known, Patching, Giving, Clearing, HashOf, DeployPoints,
       PatchPoints, ClearPoints
    <2>6. \A q \in Ops \ {p} : Mine(q)' = Mine(q)
      BY <2>1, <2>2, <2>3 DEF Mine
    <2>7. Inv'
      BY <1>2, <2>5, <2>6, StepKeeps
    <2> QED BY <2>4, <2>7
  <1> QED BY <1>3, <1>4

LEMMA ApplyConfInv ==
  ASSUME TypeOK, Inv, NEW p \in Ops, ApplyConf(p), UNCHANGED left
  PROVE  TypeOK' /\ Inv'
  <1>1. Held(p) /\ pc[p] = "confs" /\ cmd[p] = "deploy" /\ arg[p] \in Specs /\ todo[p] \subseteq Confs
    BY InvHeld DEF ApplyConf, Held, Known, DeployPoints
  <1>2. calm' \in [Ops -> BOOLEAN] /\ calm'[p] = calm[p] /\ \A q \in Ops \ {p} : ~calm'[q]
    BY ChangesTypes DEF ApplyConf
  <1>3. PICK c \in todo[p] : /\ stored' = [stored EXCEPT ![c] = arg[p].texts[c]]
                             /\ todo' = [todo EXCEPT ![p] = @ \ {c}]
    BY DEF ApplyConf
  <1>4. UNCHANGED <<namespace, there, dep, pc, cmd, arg, found, got, secs, fits, swallowed>>
    BY DEF ApplyConf
  <1>5. c \in Docs /\ c \in Confs /\ arg[p].texts[c] \in Texts
    BY <1>1, SpecTypes DEF Docs
  <1>6. /\ stored' \in [Docs -> Texts \cup {None}] /\ stored'[c] = arg[p].texts[c]
        /\ \A d \in Docs \ {c} : stored'[d] = stored[d]
    BY <1>3, <1>5 DEF TypeOK
  <1>7. /\ todo' \in [Ops -> SUBSET (Objects \cup Confs)] /\ todo'[p] = todo[p] \ {c}
        /\ \A q \in Ops \ {p} : todo'[q] = todo[q]
    BY <1>3 DEF TypeOK
  <1>8. TypeOK'
    BY <1>2, <1>4, <1>6, <1>7 DEF TypeOK
  <1>9. Held(p)'
    <2>1. Known(p)'
      BY <1>1, <1>4, <1>7 DEF Held, Known
    <2>2. Confs \subseteq Docs
      BY DEF Docs
    <2>3. Giving(p)'
      BY <1>1, <1>2, <1>4, <1>6, <1>7, <2>2 DEF Held, Giving, PatchPoints
    <2>4. Patching(p)' /\ Clearing(p)' /\ HashOf(p)'
      BY <1>1, <1>4 DEF Patching, Clearing, HashOf
    <2> QED BY <2>1, <2>3, <2>4 DEF Held
  <1>10. \A q \in Ops \ {p} : Mine(q)' = Mine(q)
    BY <1>4, <1>7 DEF Mine
  <1>11. Inv'
    BY <1>2, <1>9, <1>10, StepKeeps
  <1> QED BY <1>8, <1>11

LEMMA ApplyDeploymentInv ==
  ASSUME TypeOK, Inv, NEW p \in Ops, ApplyDeployment(p), UNCHANGED left
  PROVE  TypeOK' /\ Inv'
  <1>1. Held(p) /\ pc[p] = "confs" /\ cmd[p] = "deploy" /\ arg[p] \in Specs /\ todo[p] = {}
    BY InvHeld DEF ApplyDeployment, Held, Known, DeployPoints
  <1>2. calm' \in [Ops -> BOOLEAN] /\ calm'[p] = calm[p] /\ \A q \in Ops \ {p} : ~calm'[q]
    BY ChangesTypes DEF ApplyDeployment
  <1>3. pc' \in [Ops -> Points] /\ pc'[p] = "expose" /\ \A q \in Ops \ {p} : pc'[q] = pc[q]
    BY GotoTypes DEF ApplyDeployment, Points
  <1>4. UNCHANGED <<namespace, stored, there, cmd, arg, found, got, secs, fits, swallowed>>
    BY DEF ApplyDeployment
  <1>5. dep' \in Deploys
    <2>1. PICK r \in Orders :
            dep' = IF dep = None THEN [order |-> r, hash |-> None, pull |-> FALSE]
                   ELSE [dep EXCEPT !.order = r]
      BY DEF ApplyDeployment
    <2>2. CASE dep = None
      BY <2>1, <2>2 DEF Deploys
    <2>3. CASE dep # None
      BY <2>1, <2>3 DEF Deploys, TypeOK
    <2> QED BY <2>2, <2>3
  <1>6. dep' # None
    BY <1>5, RolloutAssumption
  <1>7. /\ todo' \in [Ops -> SUBSET (Objects \cup Confs)] /\ todo'[p] = arg[p].objects
        /\ \A q \in Ops \ {p} : todo'[q] = todo[q]
    BY <1>1, SpecTypes DEF ApplyDeployment, TypeOK
  <1>8. TypeOK'
    BY <1>2, <1>3, <1>4, <1>5, <1>7 DEF TypeOK
  <1>9. Held(p)'
    BY <1>1, <1>2, <1>3, <1>4, <1>6, <1>7 DEF Held, Known, Patching, Giving, Clearing, HashOf, DeployPoints,
       PatchPoints, ClearPoints
  <1>10. \A q \in Ops \ {p} : Mine(q)' = Mine(q)
    BY <1>3, <1>4, <1>7 DEF Mine
  <1>11. Inv'
    BY <1>2, <1>9, <1>10, StepKeeps
  <1> QED BY <1>8, <1>11

LEMMA ExposeInv ==
  ASSUME TypeOK, Inv, NEW p \in Ops, Expose(p), UNCHANGED left
  PROVE  TypeOK' /\ Inv'
  <1>1. /\ Held(p) /\ pc[p] = "expose" /\ cmd[p] = "deploy" /\ arg[p] \in Specs
        /\ todo[p] \subseteq arg[p].objects
    BY InvHeld DEF Expose, Held, Known, DeployPoints
  <1>2. calm' \in [Ops -> BOOLEAN] /\ calm'[p] = calm[p] /\ \A q \in Ops \ {p} : ~calm'[q]
    BY ChangesTypes DEF Expose
  <1>3. PICK o \in FirstOf(todo[p]) : /\ there' = there \cup {o}
                                      /\ todo' = [todo EXCEPT ![p] = @ \ {o}]
    BY DEF Expose
  <1>4. UNCHANGED <<namespace, stored, dep, pc, cmd, arg, found, got, secs, fits, swallowed>>
    BY DEF Expose
  <1>5. o \in todo[p] /\ o \in Objects
    BY <1>1, <1>3, SpecTypes DEF FirstOf
  <1>6. /\ todo' \in [Ops -> SUBSET (Objects \cup Confs)] /\ todo'[p] = todo[p] \ {o}
        /\ \A q \in Ops \ {p} : todo'[q] = todo[q]
    BY <1>3 DEF TypeOK
  <1>7. TypeOK'
    BY <1>2, <1>3, <1>4, <1>5, <1>6 DEF TypeOK
  <1>8. Held(p)'
    BY <1>1, <1>2, <1>3, <1>4, <1>5, <1>6 DEF Held, Known, Patching, Giving, Clearing, HashOf, DeployPoints,
       PatchPoints, ClearPoints
  <1>9. \A q \in Ops \ {p} : Mine(q)' = Mine(q)
    BY <1>4, <1>6 DEF Mine
  <1>10. Inv'
    BY <1>2, <1>8, <1>9, StepKeeps
  <1> QED BY <1>7, <1>10

LEMMA ListHeadsInv ==
  ASSUME TypeOK, Inv, NEW p \in Ops, ListHeads(p), UNCHANGED left
  PROVE  TypeOK' /\ Inv'
  <1>1. Held(p) /\ pc[p] = "expose" /\ cmd[p] = "deploy" /\ arg[p] \in Specs /\ todo[p] = {}
    BY InvHeld DEF ListHeads, Held, Known, DeployPoints
  <1>2. pc' \in [Ops -> Points] /\ pc'[p] = "prune" /\ \A q \in Ops \ {p} : pc'[q] = pc[q]
    BY GotoTypes DEF ListHeads, Points
  <1>3. UNCHANGED <<namespace, stored, there, dep, cmd, arg, found, got, secs, fits, calm>>
    BY DEF ListHeads, cluster
  <1>4. /\ todo' \in [Ops -> SUBSET (Objects \cup Confs)]
        /\ swallowed' \in [Ops -> SUBSET {"clean", "patch"}]
        /\ \/ todo'[p] = (there \cap Heads) \ arg[p].objects /\ swallowed'[p] = swallowed[p]
           \/ todo'[p] = {} /\ "clean" \in swallowed'[p]
        /\ \A q \in Ops \ {p} : todo'[q] = todo[q] /\ swallowed'[q] = swallowed[q]
    <2>1. CASE todo' = [todo EXCEPT ![p] = (there \cap Heads) \ arg[p].objects] /\ UNCHANGED swallowed
      BY <2>1 DEF TypeOK
    <2>2. CASE Swallow(p, "clean") /\ UNCHANGED todo
      BY <1>1, <2>2, SwallowTypes DEF TypeOK
    <2> QED BY <2>1, <2>2 DEF ListHeads
  <1>5. TypeOK'
    BY <1>2, <1>3, <1>4 DEF TypeOK
  <1>6. Held(p)'
    BY <1>1, <1>2, <1>3, <1>4 DEF Held, Known, Patching, Giving, Clearing, HashOf, DeployPoints,
       PatchPoints, ClearPoints
  <1>7. \A q \in Ops \ {p} : Mine(q)' = Mine(q)
    BY <1>2, <1>3, <1>4 DEF Mine
  <1>8. Inv'
    BY <1>3, <1>6, <1>7, StepKeeps DEF cluster
  <1> QED BY <1>5, <1>8

LEMMA PruneInv ==
  ASSUME TypeOK, Inv, NEW p \in Ops, Prune(p), UNCHANGED left
  PROVE  TypeOK' /\ Inv'
  <1>1. /\ Held(p) /\ pc[p] = "prune" /\ cmd[p] = "deploy" /\ arg[p] \in Specs
        /\ todo[p] \subseteq Heads \ arg[p].objects
    BY InvHeld DEF Prune, Held, Known, DeployPoints
  <1>2. UNCHANGED <<namespace, stored, dep, pc, cmd, arg, found, got, secs, fits>>
    BY DEF Prune
  <1>3. PICK h \in todo[p] :
          /\ todo' = [todo EXCEPT ![p] = @ \ {h}]
          /\ \/ h \in there /\ there' = there \ {h} /\ Changes(p) /\ UNCHANGED swallowed
             \/ Swallow(p, "clean") /\ UNCHANGED <<there, calm>>
    BY DEF Prune
  <1>4. /\ todo' \in [Ops -> SUBSET (Objects \cup Confs)] /\ todo'[p] = todo[p] \ {h}
        /\ \A q \in Ops \ {p} : todo'[q] = todo[q]
    BY <1>3 DEF TypeOK
  <1>5. /\ swallowed' \in [Ops -> SUBSET {"clean", "patch"}] /\ calm' \in [Ops -> BOOLEAN]
        /\ \/ there' = there \ {h} /\ swallowed'[p] = swallowed[p]
           \/ there' = there /\ "clean" \in swallowed'[p]
        /\ calm'[p] = calm[p]
        /\ \A q \in Ops \ {p} : /\ swallowed'[q] = swallowed[q]
                                /\ (UNCHANGED cluster /\ calm'[q] = calm[q]) \/ ~calm'[q]
    <2>1. CASE there' = there \ {h} /\ Changes(p) /\ UNCHANGED swallowed
      BY <2>1, ChangesTypes DEF TypeOK
    <2>2. CASE Swallow(p, "clean") /\ UNCHANGED <<there, calm>>
      BY <1>2, <2>2, SwallowTypes DEF TypeOK, cluster
    <2> QED BY <1>3, <2>1, <2>2
  <1>6. TypeOK'
    BY <1>2, <1>4, <1>5 DEF TypeOK
  <1>7. h # "claims"
    BY <1>1, RolloutAssumption
  <1>8. Held(p)'
    BY <1>1, <1>2, <1>4, <1>5, <1>7 DEF Held, Known, Patching, Giving, Clearing, HashOf, DeployPoints,
       PatchPoints, ClearPoints
  <1>9. \A q \in Ops \ {p} : Mine(q)' = Mine(q)
    BY <1>2, <1>4, <1>5 DEF Mine
  <1>10. Inv'
    BY <1>5, <1>8, <1>9, StepKeeps
  <1> QED BY <1>6, <1>10

LEMMA PrunedInv ==
  ASSUME TypeOK, Inv, NEW p \in Ops, Pruned(p), UNCHANGED left
  PROVE  TypeOK' /\ Inv'
  <1>1. Held(p) /\ pc[p] = "prune" /\ cmd[p] = "deploy" /\ todo[p] = {}
    BY InvHeld DEF Pruned, Held, Known, DeployPoints
  <1>2. pc' \in [Ops -> Points] /\ pc'[p] = "getDep" /\ \A q \in Ops \ {p} : pc'[q] = pc[q]
    BY GotoTypes DEF Pruned, Points
  <1>3. UNCHANGED <<namespace, stored, there, dep, cmd, arg, todo, found, got, secs, fits,
                    swallowed, calm>>
    BY DEF Pruned, cluster, local
  <1>4. TypeOK'
    BY <1>2, <1>3 DEF TypeOK
  <1>5. Held(p)'
    BY <1>1, <1>2, <1>3 DEF Held, Known, Patching, Giving, Clearing, HashOf, DeployPoints,
       PatchPoints, ClearPoints
  <1>6. \A q \in Ops \ {p} : Mine(q)' = Mine(q)
    BY <1>2, <1>3 DEF Mine
  <1>7. Inv'
    BY <1>3, <1>5, <1>6, StepKeeps DEF cluster
  <1> QED BY <1>4, <1>7

\* All of a deploy up to the hash.
LEMMA DeployInv ==
  ASSUME TypeOK, Inv, NEW p \in Ops, Deploy(p), UNCHANGED left PROVE TypeOK' /\ Inv'
  BY ApplyFirstInv, ApplyConfInv, ApplyDeploymentInv, ExposeInv, ListHeadsInv, PruneInv,
     PrunedInv DEF Deploy

-----------------------------------------------------------------------------
(* The patch of the hash.                                                    *)

\* What the plan is, and what comes out of patching with it.
LEMMA PlanTypes ==
  ASSUME NEW d \in Deploys, NEW docs \in [Docs -> Texts \cup {None}]
  PROVE  Plan(d, docs) \in Patches
  <1>1. "pull" \in Docs
    BY DEF Docs, Sealed
  <1>2. [order |-> d.order, docs |-> docs] \in Hashes
    BY DEF Hashes, Deploys
  <1> QED BY <1>1, <1>2 DEF Plan, Patches

LEMMA GetDeploymentInv ==
  ASSUME TypeOK, Inv, NEW p \in Ops, GetDeployment(p), UNCHANGED left
  PROVE  TypeOK' /\ Inv'
  <1>1. Held(p) /\ pc[p] = "getDep" /\ dep # None /\ dep \in Deploys
    BY InvHeld DEF GetDeployment, TypeOK
  <1>2. pc' \in [Ops -> Points] /\ pc'[p] = "listSecrets" /\ \A q \in Ops \ {p} : pc'[q] = pc[q]
    BY GotoTypes DEF GetDeployment, Points
  <1>3. UNCHANGED <<namespace, stored, there, dep, cmd, arg, todo, found, secs, fits, swallowed,
                    calm>>
    BY DEF GetDeployment, cluster
  <1>4. /\ got' \in [Ops -> Deploys \cup Patches \cup {None}] /\ got'[p] = dep
        /\ \A q \in Ops \ {p} : got'[q] = got[q]
    BY <1>1 DEF GetDeployment, TypeOK
  <1>5. TypeOK'
    BY <1>2, <1>3, <1>4 DEF TypeOK
  <1>6. Held(p)'
    BY <1>1, <1>2, <1>3, <1>4 DEF Held, Known, Patching, Giving, Clearing, HashOf, DeployPoints,
       PatchPoints, ClearPoints
  <1>7. \A q \in Ops \ {p} : Mine(q)' = Mine(q)
    BY <1>2, <1>3, <1>4 DEF Mine
  <1>8. Inv'
    BY <1>3, <1>6, <1>7, StepKeeps DEF cluster
  <1> QED BY <1>5, <1>8

LEMMA ListSecretsInv ==
  ASSUME TypeOK, Inv, NEW p \in Ops, ListSecrets(p), UNCHANGED left
  PROVE  TypeOK' /\ Inv'
  <1>1. Held(p) /\ pc[p] = "listSecrets"
    BY InvHeld DEF ListSecrets
  <1>2. pc' \in [Ops -> Points] /\ pc'[p] = "listMaps" /\ \A q \in Ops \ {p} : pc'[q] = pc[q]
    BY GotoTypes DEF ListSecrets, Points
  <1>3. UNCHANGED <<namespace, stored, there, dep, cmd, arg, todo, found, got, fits, swallowed,
                    calm>>
    BY DEF ListSecrets, cluster
  <1>4. /\ secs' \in [Ops -> [Sealed -> Texts \cup {None}]]
        /\ \A d \in Sealed : secs'[p][d] = stored[d]
        /\ \A q \in Ops \ {p} : secs'[q] = secs[q]
    BY DEF ListSecrets, TypeOK, Docs
  <1>5. TypeOK'
    BY <1>2, <1>3, <1>4 DEF TypeOK
  <1>6. Held(p)'
    BY <1>1, <1>2, <1>3, <1>4 DEF Held, Known, Patching, Giving, Clearing, HashOf, DeployPoints,
       PatchPoints, ClearPoints
  <1>7. \A q \in Ops \ {p} : Mine(q)' = Mine(q)
    BY <1>2, <1>3, <1>4 DEF Mine
  <1>8. Inv'
    BY <1>3, <1>6, <1>7, StepKeeps DEF cluster
  <1> QED BY <1>5, <1>8

\* If there is nothing to patch, the Deployment already has what it should.
LEMMA PlanNothing ==
  ASSUME NEW d \in Deploys, NEW docs \in [Docs -> Texts \cup {None}],
         Plan(d, docs).hash = None, Plan(d, docs).pull = None
  PROVE  d.hash = [order |-> d.order, docs |-> docs] /\ d.pull = (docs["pull"] # None)
  <1>1. [order |-> d.order, docs |-> docs] \in Hashes
    BY DEF Hashes, Deploys
  <1> QED BY <1>1, RolloutAssumption DEF Plan

LEMMA ListMapsInv ==
  ASSUME TypeOK, Inv, NEW p \in Ops, ListMaps(p), UNCHANGED left
  PROVE  TypeOK' /\ Inv'
  <1> DEFINE docs == [d \in Docs |-> IF d \in Sealed THEN secs[p][d] ELSE stored[d]]
             plan == Plan(got[p], docs)
  <1>1. /\ Held(p) /\ pc[p] = "listMaps" /\ got[p] \in Deploys
        /\ docs \in [Docs -> Texts \cup {None}]
    BY InvHeld DEF ListMaps, Held, Known, TypeOK
  <1>2. plan \in Patches
    BY <1>1, PlanTypes
  <1>3. calm[p] => got[p] = dep /\ docs = stored
    BY <1>1 DEF Held, Patching, TypeOK
  <1>4. UNCHANGED <<namespace, stored, there, dep, cmd, arg, todo, found, fits, swallowed, calm>>
    BY DEF ListMaps, cluster
  <1>5. /\ secs' \in [Ops -> [Sealed -> Texts \cup {None}]]
        /\ \A q \in Ops \ {p} : secs'[q] = secs[q]
    BY DEF ListMaps, TypeOK, NoSecrets
  <1>6. \/ Goto(p, "ok") /\ got' = [got EXCEPT ![p] = None] /\ plan.hash = None /\ plan.pull = None
        \/ Goto(p, "patch") /\ got' = [got EXCEPT ![p] = plan]
    BY DEF ListMaps
  <1> HIDE DEF plan
  <1>7. CASE /\ Goto(p, "ok") /\ got' = [got EXCEPT ![p] = None]
             /\ plan.hash = None /\ plan.pull = None
    <2>1. pc' \in [Ops -> Points] /\ pc'[p] = "ok" /\ \A q \in Ops \ {p} : pc'[q] = pc[q]
      BY <1>7, GotoTypes DEF Points
    <2>2. /\ got' \in [Ops -> Deploys \cup Patches \cup {None}]
          /\ \A q \in Ops \ {p} : got'[q] = got[q]
      BY <1>7 DEF TypeOK
    <2>3. TypeOK'
      BY <1>4, <1>5, <2>1, <2>2 DEF TypeOK
    <2>4. /\ got[p].hash = [order |-> got[p].order, docs |-> docs]
          /\ got[p].pull = (docs["pull"] # None)
      BY <1>1, <1>7, PlanNothing DEF plan
    <2> HIDE DEF docs
    <2>5. HashOf(p)'
      BY <1>1, <1>3, <1>4, <2>4, RolloutAssumption DEF HashOf
    <2>6. Known(p)' /\ Patching(p)' /\ Giving(p)' /\ Clearing(p)'
      BY <1>1, <1>4, <2>1 DEF Held, Known, Patching, Giving, Clearing, DeployPoints, PatchPoints,
         ClearPoints
    <2>7. Held(p)'
      BY <2>5, <2>6 DEF Held
    <2>8. \A q \in Ops \ {p} : Mine(q)' = Mine(q)
      BY <1>4, <1>5, <2>1, <2>2 DEF Mine
    <2>9. Inv'
      BY <1>4, <2>7, <2>8, StepKeeps DEF cluster
    <2> QED BY <2>3, <2>9
  <1>8. CASE Goto(p, "patch") /\ got' = [got EXCEPT ![p] = plan]
    <2>1. pc' \in [Ops -> Points] /\ pc'[p] = "patch" /\ \A q \in Ops \ {p} : pc'[q] = pc[q]
      BY <1>8, GotoTypes DEF Points
    <2>2. /\ got' \in [Ops -> Deploys \cup Patches \cup {None}] /\ got'[p] = plan
          /\ \A q \in Ops \ {p} : got'[q] = got[q]
      BY <1>2, <1>8 DEF TypeOK
    <2>3. TypeOK'
      BY <1>4, <1>5, <2>1, <2>2 DEF TypeOK
    <2>4. calm[p] => dep # None /\ plan = Plan(dep, stored)
      BY <1>1, <1>3, RolloutAssumption DEF plan
    <2> HIDE DEF docs
    <2>5. Patching(p)'
      BY <1>4, <2>1, <2>2, <2>4 DEF Patching, Plan
    <2>6. Known(p)' /\ HashOf(p)' /\ Giving(p)' /\ Clearing(p)'
      BY <1>1, <1>2, <1>4, <2>1, <2>2 DEF Held, Known, HashOf, Giving, Clearing, DeployPoints,
         PatchPoints, ClearPoints
    <2>7. Held(p)'
      BY <2>5, <2>6 DEF Held
    <2>8. \A q \in Ops \ {p} : Mine(q)' = Mine(q)
      BY <1>4, <1>5, <2>1, <2>2 DEF Mine
    <2>9. Inv'
      BY <1>4, <2>7, <2>8, StepKeeps DEF cluster
    <2> QED BY <2>3, <2>9
  <1> QED BY <1>6, <1>7, <1>8

LEMMA PatchInv ==
  ASSUME TypeOK, Inv, NEW p \in Ops, Patch(p), UNCHANGED left
  PROVE  TypeOK' /\ Inv'
  <1>1. Held(p) /\ pc[p] = "patch" /\ dep # None /\ dep \in Deploys /\ got[p] \in Patches
    BY InvHeld DEF Patch, TypeOK, Held, Known
  <1>2. pc' \in [Ops -> Points] /\ pc'[p] = "ok" /\ \A q \in Ops \ {p} : pc'[q] = pc[q]
    BY GotoTypes DEF Patch, Points
  <1>3. calm' \in [Ops -> BOOLEAN] /\ calm'[p] = calm[p] /\ \A q \in Ops \ {p} : ~calm'[q]
    BY ChangesTypes DEF Patch
  <1>4. UNCHANGED <<namespace, stored, there, cmd, arg, todo, found, secs, fits, swallowed>>
    BY DEF Patch
  <1>5. dep' = [dep EXCEPT !.hash = IF got[p].hash = None THEN @ ELSE got[p].hash,
                           !.pull = IF got[p].pull = None THEN @ ELSE got[p].pull]
    BY DEF Patch
  <1>6. dep' \in Deploys
    BY <1>1, <1>5 DEF Deploys, Patches
  <1>7. dep' # None
    BY <1>6, RolloutAssumption
  <1>8. /\ got' \in [Ops -> Deploys \cup Patches \cup {None}]
        /\ \A q \in Ops \ {p} : got'[q] = got[q]
    BY DEF Patch, TypeOK
  <1>9. TypeOK'
    BY <1>2, <1>3, <1>4, <1>6, <1>8 DEF TypeOK
  <1>10. HashOf(p)'
    <2>1. stored \in [Docs -> Texts \cup {None}]
      BY DEF TypeOK
    <2>2. ASSUME calm[p]
          PROVE  /\ dep'.hash = [order |-> dep'.order, docs |-> stored]
                 /\ dep'.pull = (stored["pull"] # None)
      <3>1. got[p] = Plan(dep, stored)
        BY <1>1, <2>2 DEF Held, Patching
      <3>2. dep'.order = dep.order
        BY <1>1, <1>5 DEF Deploys
      <3>3. dep'.hash = IF got[p].hash = None THEN dep.hash ELSE got[p].hash
        BY <1>1, <1>5 DEF Deploys
      <3>4. dep'.pull = IF got[p].pull = None THEN dep.pull ELSE got[p].pull
        BY <1>1, <1>5 DEF Deploys
      <3>5. [order |-> dep.order, docs |-> stored] \in Hashes
        BY <1>1, <2>1 DEF Hashes, Deploys
      <3>6. dep'.hash = [order |-> dep.order, docs |-> stored]
        BY <3>1, <3>3, <3>5, RolloutAssumption DEF Plan
      <3>7. dep'.pull = (stored["pull"] # None)
        <4>1. got[p].pull = IF (stored["pull"] # None) = dep.pull THEN None
                            ELSE stored["pull"] # None
          BY <3>1 DEF Plan
        <4>2. dep.pull \in BOOLEAN /\ None \notin BOOLEAN
          BY <1>1, RolloutAssumption DEF Deploys
        <4>3. CASE stored["pull"] # None
          BY <3>4, <4>1, <4>2, <4>3
        <4>4. CASE stored["pull"] = None
          BY <3>4, <4>1, <4>2, <4>4
        <4> QED BY <4>3, <4>4
      <3> QED BY <3>2, <3>6, <3>7
    <2> QED BY <1>3, <1>4, <1>7, <2>2 DEF HashOf
  <1>11. Known(p)' /\ Patching(p)' /\ Giving(p)' /\ Clearing(p)'
    BY <1>1, <1>2, <1>3, <1>4, <1>7 DEF Held, Known, Patching, Giving, Clearing, DeployPoints,
       PatchPoints, ClearPoints
  <1>12. Held(p)'
    BY <1>10, <1>11 DEF Held
  <1>13. \A q \in Ops \ {p} : Mine(q)' = Mine(q)
    BY <1>2, <1>4, <1>8 DEF Mine
  <1>14. Inv'
    BY <1>3, <1>12, <1>13, StepKeeps
  <1> QED BY <1>9, <1>14

LEMMA PatchFailsInv ==
  ASSUME TypeOK, Inv, NEW p \in Ops, PatchFails(p), UNCHANGED left
  PROVE  TypeOK' /\ Inv'
  <1>1. Held(p) /\ pc[p] \in PatchPoints
    BY InvHeld DEF PatchFails, PatchPoints
  <1>2. pc' \in [Ops -> Points] /\ pc'[p] = "ok" /\ \A q \in Ops \ {p} : pc'[q] = pc[q]
    BY GotoTypes DEF PatchFails, Points
  <1>3. UNCHANGED <<namespace, stored, there, dep, cmd, arg, todo, found, fits, calm>>
    BY DEF PatchFails, cluster
  <1>4. /\ swallowed' \in [Ops -> SUBSET {"clean", "patch"}]
        /\ swallowed'[p] = swallowed[p] \cup {"patch"}
        /\ \A q \in Ops \ {p} : swallowed'[q] = swallowed[q]
    BY SwallowTypes DEF PatchFails
  <1>5. /\ got' \in [Ops -> Deploys \cup Patches \cup {None}]
        /\ secs' \in [Ops -> [Sealed -> Texts \cup {None}]]
        /\ \A q \in Ops \ {p} : got'[q] = got[q] /\ secs'[q] = secs[q]
    BY DEF PatchFails, TypeOK, NoSecrets
  <1>6. TypeOK'
    BY <1>2, <1>3, <1>4, <1>5 DEF TypeOK
  <1>7. Held(p)'
    BY <1>1, <1>2, <1>3, <1>4 DEF Held, Known, Patching, Giving, Clearing, HashOf, DeployPoints,
       PatchPoints, ClearPoints
  <1>8. \A q \in Ops \ {p} : Mine(q)' = Mine(q)
    BY <1>2, <1>3, <1>4, <1>5 DEF Mine
  <1>9. Inv'
    BY <1>3, <1>7, <1>8, StepKeeps DEF cluster
  <1> QED BY <1>6, <1>9

LEMMA PatchHashInv ==
  ASSUME TypeOK, Inv, NEW p \in Ops, PatchHash(p), UNCHANGED left PROVE TypeOK' /\ Inv'
  BY GetDeploymentInv, ListSecretsInv, ListMapsInv, PatchInv, PatchFailsInv DEF PatchHash

-----------------------------------------------------------------------------
(* app destroy.                                                              *)

LEMMA IngressInv ==
  ASSUME TypeOK, Inv, NEW p \in Ops, Ingress(p), UNCHANGED left
  PROVE  TypeOK' /\ Inv'
  <1>1. Held(p) /\ pc[p] = "ingress" /\ cmd[p] \in {"destroy", "wipe"}
    BY InvHeld DEF Ingress, Held, Known, ClearPoints
  <1>2. pc' \in [Ops -> Points] /\ pc'[p] = "listServices" /\ \A q \in Ops \ {p} : pc'[q] = pc[q]
    BY GotoTypes DEF Ingress, Points
  <1>3. UNCHANGED <<namespace, stored, dep, cmd, arg, todo, found, got, secs, fits>>
    BY DEF Ingress, local
  <1>4. /\ swallowed' \in [Ops -> SUBSET {"clean", "patch"}] /\ calm' \in [Ops -> BOOLEAN]
        /\ \/ there' = there \ {"ingress"} /\ swallowed'[p] = swallowed[p]
           \/ there' = there /\ "clean" \in swallowed'[p]
        /\ calm'[p] = calm[p]
        /\ \A q \in Ops \ {p} : /\ swallowed'[q] = swallowed[q]
                                /\ (UNCHANGED cluster /\ calm'[q] = calm[q]) \/ ~calm'[q]
    <2>1. CASE there' = there \ {"ingress"} /\ Changes(p) /\ UNCHANGED swallowed
      BY <2>1, ChangesTypes DEF TypeOK
    <2>2. CASE Swallow(p, "clean") /\ UNCHANGED <<there, calm>>
      BY <1>3, <2>2, SwallowTypes DEF TypeOK, cluster
    <2> QED BY <2>1, <2>2 DEF Ingress
  <1>5. TypeOK'
    BY <1>2, <1>3, <1>4 DEF TypeOK
  <1>6. Held(p)'
    BY <1>1, <1>2, <1>3, <1>4 DEF Held, Known, Patching, Giving, Clearing, HashOf, DeployPoints,
       PatchPoints, ClearPoints
  <1>7. \A q \in Ops \ {p} : Mine(q)' = Mine(q)
    BY <1>2, <1>3, <1>4 DEF Mine
  <1>8. Inv'
    BY <1>4, <1>6, <1>7, StepKeeps
  <1> QED BY <1>5, <1>8

LEMMA ListServicesInv ==
  ASSUME TypeOK, Inv, NEW p \in Ops, ListServices(p), UNCHANGED left
  PROVE  TypeOK' /\ Inv'
  <1>1. Held(p) /\ pc[p] = "listServices" /\ cmd[p] \in {"destroy", "wipe"}
    BY InvHeld DEF ListServices, Held, Known, ClearPoints
  <1>2. pc' \in [Ops -> Points] /\ pc'[p] = "deleteServices" /\ \A q \in Ops \ {p} : pc'[q] = pc[q]
    BY GotoTypes DEF ListServices, Points
  <1>3. UNCHANGED <<namespace, stored, there, dep, cmd, arg, found, got, secs, fits, calm>>
    BY DEF ListServices, cluster
  <1>4. /\ todo' \in [Ops -> SUBSET (Objects \cup Confs)]
        /\ swallowed' \in [Ops -> SUBSET {"clean", "patch"}]
        /\ \/ todo'[p] = there \cap ({"service"} \cup Heads) /\ swallowed'[p] = swallowed[p]
           \/ "clean" \in swallowed'[p]
        /\ \A q \in Ops \ {p} : todo'[q] = todo[q] /\ swallowed'[q] = swallowed[q]
    <2>1. CASE todo' = [todo EXCEPT ![p] = there \cap ({"service"} \cup Heads)] /\ UNCHANGED swallowed
      BY <2>1 DEF TypeOK
    <2>2. CASE Swallow(p, "clean") /\ UNCHANGED todo
      BY <2>2, SwallowTypes DEF TypeOK
    <2> QED BY <2>1, <2>2 DEF ListServices
  <1>5. TypeOK'
    BY <1>2, <1>3, <1>4 DEF TypeOK
  <1>6. Held(p)'
    BY <1>1, <1>2, <1>3, <1>4 DEF Held, Known, Patching, Giving, Clearing, HashOf, DeployPoints,
       PatchPoints, ClearPoints
  <1>7. \A q \in Ops \ {p} : Mine(q)' = Mine(q)
    BY <1>2, <1>3, <1>4 DEF Mine
  <1>8. Inv'
    BY <1>3, <1>6, <1>7, StepKeeps DEF cluster
  <1> QED BY <1>5, <1>8

LEMMA DeleteServiceInv ==
  ASSUME TypeOK, Inv, NEW p \in Ops, DeleteService(p), UNCHANGED left
  PROVE  TypeOK' /\ Inv'
  <1>1. Held(p) /\ pc[p] = "deleteServices" /\ cmd[p] \in {"destroy", "wipe"}
    BY InvHeld DEF DeleteService, Held, Known, ClearPoints
  <1>2. UNCHANGED <<namespace, stored, dep, pc, cmd, arg, found, got, secs, fits>>
    BY DEF DeleteService
  <1>3. PICK o \in todo[p] :
          /\ todo' = [todo EXCEPT ![p] = @ \ {o}]
          /\ \/ o \in there /\ there' = there \ {o} /\ Changes(p) /\ UNCHANGED swallowed
             \/ Swallow(p, "clean") /\ UNCHANGED <<there, calm>>
    BY DEF DeleteService
  <1>4. /\ todo' \in [Ops -> SUBSET (Objects \cup Confs)] /\ todo'[p] = todo[p] \ {o}
        /\ \A q \in Ops \ {p} : todo'[q] = todo[q]
    BY <1>3 DEF TypeOK
  <1>5. /\ swallowed' \in [Ops -> SUBSET {"clean", "patch"}] /\ calm' \in [Ops -> BOOLEAN]
        /\ \/ there' = there \ {o} /\ swallowed'[p] = swallowed[p]
           \/ there' = there /\ "clean" \in swallowed'[p]
        /\ calm'[p] = calm[p]
        /\ \A q \in Ops \ {p} : /\ swallowed'[q] = swallowed[q]
                                /\ (UNCHANGED cluster /\ calm'[q] = calm[q]) \/ ~calm'[q]
    <2>1. CASE there' = there \ {o} /\ Changes(p) /\ UNCHANGED swallowed
      BY <2>1, ChangesTypes DEF TypeOK
    <2>2. CASE Swallow(p, "clean") /\ UNCHANGED <<there, calm>>
      BY <1>2, <2>2, SwallowTypes DEF TypeOK, cluster
    <2> QED BY <1>3, <2>1, <2>2
  <1>6. TypeOK'
    BY <1>2, <1>4, <1>5 DEF TypeOK
  <1>7. Held(p)'
    BY <1>1, <1>2, <1>4, <1>5 DEF Held, Known, Patching, Giving, Clearing, HashOf, DeployPoints,
       PatchPoints, ClearPoints
  <1>8. \A q \in Ops \ {p} : Mine(q)' = Mine(q)
    BY <1>2, <1>4, <1>5 DEF Mine
  <1>9. Inv'
    BY <1>5, <1>7, <1>8, StepKeeps
  <1> QED BY <1>6, <1>9

LEMMA DeleteDeploymentInv ==
  ASSUME TypeOK, Inv, NEW p \in Ops, DeleteDeployment(p), UNCHANGED left
  PROVE  TypeOK' /\ Inv'
  <1>1. Held(p) /\ pc[p] = "deleteServices" /\ cmd[p] \in {"destroy", "wipe"} /\ todo[p] = {}
    BY InvHeld DEF DeleteDeployment, Held, Known, ClearPoints
  <1>2. pc' \in [Ops -> Points] /\ pc'[p] = "listClaims" /\ \A q \in Ops \ {p} : pc'[q] = pc[q]
    BY GotoTypes DEF DeleteDeployment, Points
  <1>3. UNCHANGED <<namespace, stored, there, cmd, arg, todo, found, got, secs, fits>>
    BY DEF DeleteDeployment, local
  <1>4. /\ swallowed' \in [Ops -> SUBSET {"clean", "patch"}] /\ calm' \in [Ops -> BOOLEAN]
        /\ \/ dep' = None /\ swallowed'[p] = swallowed[p]
           \/ dep' = dep /\ "clean" \in swallowed'[p]
        /\ calm'[p] = calm[p]
        /\ \A q \in Ops \ {p} : /\ swallowed'[q] = swallowed[q]
                                /\ (UNCHANGED cluster /\ calm'[q] = calm[q]) \/ ~calm'[q]
    <2>1. CASE dep' = None /\ Changes(p) /\ UNCHANGED swallowed
      BY <2>1, ChangesTypes DEF TypeOK
    <2>2. CASE Swallow(p, "clean") /\ UNCHANGED <<dep, calm>>
      BY <1>3, <2>2, SwallowTypes DEF TypeOK, cluster
    <2> QED BY <2>1, <2>2 DEF DeleteDeployment
  <1>5. TypeOK'
    BY <1>2, <1>3, <1>4 DEF TypeOK
  <1>6. Held(p)'
    BY <1>1, <1>2, <1>3, <1>4 DEF Held, Known, Patching, Giving, Clearing, HashOf, DeployPoints,
       PatchPoints, ClearPoints, Exposed
  <1>7. \A q \in Ops \ {p} : Mine(q)' = Mine(q)
    BY <1>2, <1>3, <1>4 DEF Mine
  <1>8. Inv'
    BY <1>4, <1>6, <1>7, StepKeeps
  <1> QED BY <1>5, <1>8

LEMMA ListClaimsInv ==
  ASSUME TypeOK, Inv, NEW p \in Ops, ListClaims(p), UNCHANGED left
  PROVE  TypeOK' /\ Inv'
  <1> DEFINE l == IF cmd[p] = "wipe" THEN "deleteNamespace" ELSE "ok"
  <1>1. Held(p) /\ pc[p] = "listClaims" /\ cmd[p] \in {"destroy", "wipe"}
    BY InvHeld DEF ListClaims, Held, Known, ClearPoints
  <1>2. pc' \in [Ops -> Points] /\ pc'[p] = l /\ \A q \in Ops \ {p} : pc'[q] = pc[q]
    <2>1. l \in Points /\ Goto(p, l)
      BY DEF ListClaims, Points
    <2> HIDE DEF l
    <2> QED BY <2>1, GotoTypes
  <1>3. UNCHANGED <<namespace, stored, there, dep, cmd, arg, todo, found, got, secs, fits,
                    swallowed, calm>>
    BY DEF ListClaims, cluster, local
  <1>4. TypeOK'
    BY <1>2, <1>3 DEF TypeOK
  <1>5. Held(p)'
    BY <1>1, <1>2, <1>3 DEF Held, Known, Patching, Giving, Clearing, HashOf, DeployPoints,
       PatchPoints, ClearPoints
  <1>6. \A q \in Ops \ {p} : Mine(q)' = Mine(q)
    BY <1>2, <1>3 DEF Mine
  <1>7. Inv'
    BY <1>3, <1>5, <1>6, StepKeeps DEF cluster
  <1> QED BY <1>4, <1>7

LEMMA DeleteNamespaceInv ==
  ASSUME TypeOK, Inv, NEW p \in Ops, DeleteNamespace(p), UNCHANGED left
  PROVE  TypeOK' /\ Inv'
  <1>1. Held(p) /\ pc[p] = "deleteNamespace" /\ cmd[p] = "wipe"
    BY InvHeld DEF DeleteNamespace, Held, Known, ClearPoints
  <1>2. pc' \in [Ops -> Points] /\ pc'[p] = "ok" /\ \A q \in Ops \ {p} : pc'[q] = pc[q]
    BY GotoTypes DEF DeleteNamespace, Points
  <1>3. calm' \in [Ops -> BOOLEAN] /\ calm'[p] = calm[p] /\ \A q \in Ops \ {p} : ~calm'[q]
    BY ChangesTypes DEF DeleteNamespace
  <1>4. /\ namespace' \in {"none", "active", "ending"} /\ namespace' # "active"
        /\ UNCHANGED <<stored, there, dep, cmd, arg, todo, found, got, secs, fits, swallowed>>
    BY DEF DeleteNamespace, local, TypeOK
  <1>5. TypeOK'
    BY <1>2, <1>3, <1>4 DEF TypeOK
  <1>6. Held(p)'
    BY <1>1, <1>2, <1>3, <1>4 DEF Held, Known, Patching, Giving, Clearing, HashOf, DeployPoints,
       PatchPoints, ClearPoints
  <1>7. \A q \in Ops \ {p} : Mine(q)' = Mine(q)
    BY <1>2, <1>4 DEF Mine
  <1>8. Inv'
    BY <1>3, <1>6, <1>7, StepKeeps
  <1> QED BY <1>5, <1>8

LEMMA DestroyInv ==
  ASSUME TypeOK, Inv, NEW p \in Ops, Destroy(p), UNCHANGED left PROVE TypeOK' /\ Inv'
  BY IngressInv, ListServicesInv, DeleteServiceInv, DeleteDeploymentInv, ListClaimsInv,
     DeleteNamespaceInv DEF Destroy

\* When Kubernetes has deleted the namespace, only commands that wanted it keep calm.
LEMMA NamespaceGoneInv ==
  ASSUME TypeOK, Inv, NamespaceGone, UNCHANGED left
  PROVE  TypeOK' /\ Inv'
  <1>1. /\ namespace' = "none" /\ there' = there \cap {"claims"} /\ dep' = None
        /\ stored' \in [Docs -> Texts \cup {None}] /\ fits' \in [Ops -> BOOLEAN]
        /\ UNCHANGED <<pc, cmd, arg, todo, found, got, secs, swallowed>>
    BY DEF NamespaceGone, local
  <1>2. /\ calm' \in [Ops -> BOOLEAN]
        /\ \A p \in Ops : calm'[p] => calm[p] /\ cmd[p] = "wipe"
    BY DEF NamespaceGone, TypeOK
  <1>3. TypeOK'
    BY <1>1, <1>2 DEF TypeOK
  <1>4. ASSUME NEW p \in Ops PROVE Held(p)'
    <2>1. Held(p)
      BY InvHeld
    <2>2. Known(p)'
      BY <1>1, <2>1 DEF Held, Known
    <2>3. CASE ~calm'[p]
      BY <2>2, <2>3 DEF Held, Patching, Giving, Clearing, HashOf
    <2>4. CASE calm'[p]
      <3>1. calm[p] /\ cmd[p] = "wipe"
        BY <1>2, <2>4
      <3>2. there' \cap Exposed = {} /\ "ingress" \notin there'
            /\ there' \cap ({"service"} \cup Heads) = {}
        BY <1>1, RolloutAssumption DEF Exposed
      <3>3. Clearing(p)'
        BY <1>1, <3>2 DEF Clearing
      <3>4. Patching(p)' /\ Giving(p)' /\ HashOf(p)'
        BY <1>1, <2>1, <3>1 DEF Held, Known, Patching, Giving, HashOf, PatchPoints
      <3> QED BY <2>2, <3>3, <3>4 DEF Held
    <2> QED BY <2>3, <2>4
  <1>5. Inv'
    BY <1>4 DEF Inv, Held, HashTrue, HashOf
  <1> QED BY <1>3, <1>5

-----------------------------------------------------------------------------
(* secret env and secret pull.                                               *)

\* The secret commands and the secret they are about.
LEMMA SecretCommands ==
  ASSUME Inv, NEW p \in Ops, pc[p] \in {"get", "write", "delete"}
  PROVE  /\ Held(p) /\ cmd[p] \in {"setEnv", "setPull", "deleteEnv", "deletePull"}
         /\ Doc(cmd[p]) \in Docs
         /\ pc[p] \in {"get", "write"} => cmd[p] \in {"setEnv", "setPull"} /\ arg[p] \in Texts
  BY InvHeld DEF Held, Known, Doc, Docs, Sealed

LEMMA NoopInv ==
  ASSUME TypeOK, Inv, NEW p \in Ops, pc[p] \in {"get", "write", "delete"}, Noop(p),
         UNCHANGED <<cluster, left>>
  PROVE  TypeOK' /\ Inv'
  <1>1. Held(p) /\ cmd[p] \in {"setEnv", "setPull", "deleteEnv", "deletePull"}
    BY SecretCommands
  <1>2. CASE Goto(p, "getDep") /\ UNCHANGED <<local, fits, swallowed, calm>>
    <2>1. pc' \in [Ops -> Points] /\ pc'[p] = "getDep" /\ \A q \in Ops \ {p} : pc'[q] = pc[q]
      BY <1>2, GotoTypes DEF Points
    <2>2. UNCHANGED <<namespace, stored, there, dep, cmd, arg, todo, found, got, secs, fits,
                      swallowed, calm>>
      BY <1>2 DEF cluster, local
    <2>3. TypeOK'
      BY <2>1, <2>2 DEF TypeOK
    <2>4. Held(p)'
      BY <1>1, <2>1, <2>2 DEF Held, Known, Patching, Giving, Clearing, HashOf, DeployPoints,
         PatchPoints, ClearPoints
    <2>5. \A q \in Ops \ {p} : Mine(q)' = Mine(q)
      BY <2>1, <2>2 DEF Mine
    <2>6. Inv'
      BY <2>2, <2>4, <2>5, StepKeeps DEF cluster
    <2> QED BY <2>3, <2>6
  <1>3. CASE Over(p, "noop")
    BY <1>3, OverInv
  <1> QED BY <1>2, <1>3 DEF Noop

LEMMA WritesInv ==
  ASSUME TypeOK, Inv, NEW p \in Ops, pc[p] \in {"get", "write", "delete"},
         NEW text \in Texts \cup {None}, Writes(p, text), UNCHANGED left
  PROVE  TypeOK' /\ Inv'
  <1>1. /\ Held(p) /\ cmd[p] \in {"setEnv", "setPull", "deleteEnv", "deletePull"}
        /\ Doc(cmd[p]) \in Docs
    BY SecretCommands
  <1>2. pc' \in [Ops -> Points] /\ pc'[p] = "getDep" /\ \A q \in Ops \ {p} : pc'[q] = pc[q]
    BY GotoTypes DEF Writes, Points
  <1>3. calm' \in [Ops -> BOOLEAN] /\ calm'[p] = calm[p] /\ \A q \in Ops \ {p} : ~calm'[q]
    BY ChangesTypes DEF Writes
  <1>4. UNCHANGED <<namespace, there, dep, cmd, arg, todo, got, secs, swallowed>>
    BY DEF Writes
  <1>5. /\ stored' \in [Docs -> Texts \cup {None}] /\ fits' \in [Ops -> BOOLEAN]
        /\ found' \in [Ops -> Texts \cup {None}]
    BY <1>1 DEF Writes, TypeOK
  <1>6. TypeOK'
    BY <1>2, <1>3, <1>4, <1>5 DEF TypeOK
  <1>7. Held(p)'
    BY <1>1, <1>2, <1>3, <1>4 DEF Held, Known, Patching, Giving, Clearing, HashOf, DeployPoints,
       PatchPoints, ClearPoints
  <1>8. \A q \in Ops \ {p} : Mine(q)' = Mine(q)
    BY <1>2, <1>4 DEF Mine
  <1>9. Inv'
    BY <1>3, <1>7, <1>8, StepKeeps
  <1> QED BY <1>6, <1>9

LEMMA GetSecretInv ==
  ASSUME TypeOK, Inv, NEW p \in Ops, GetSecret(p), UNCHANGED left
  PROVE  TypeOK' /\ Inv'
  <1> DEFINE text == stored[Doc(cmd[p])]
  <1>1. /\ pc[p] = "get" /\ UNCHANGED cluster
        /\ \/ Noop(p)
           \/ /\ Goto(p, "write")
              /\ found' = [found EXCEPT ![p] = text]
              /\ fits' = [fits EXCEPT ![p] = TRUE]
              /\ UNCHANGED <<cmd, arg, todo, got, secs, swallowed, calm>>
    BY DEF GetSecret
  <1>2. /\ Held(p) /\ cmd[p] \in {"setEnv", "setPull"} /\ arg[p] \in Texts
        /\ text \in Texts \cup {None}
    BY <1>1, SecretCommands DEF TypeOK
  <1>3. CASE Noop(p)
    BY <1>1, <1>3, NoopInv
  <1> HIDE DEF text
  <1>4. CASE /\ Goto(p, "write")
             /\ found' = [found EXCEPT ![p] = text]
             /\ fits' = [fits EXCEPT ![p] = TRUE]
             /\ UNCHANGED <<cmd, arg, todo, got, secs, swallowed, calm>>
    <2>1. pc' \in [Ops -> Points] /\ pc'[p] = "write" /\ \A q \in Ops \ {p} : pc'[q] = pc[q]
      BY <1>4, GotoTypes DEF Points
    <2>2. UNCHANGED <<namespace, stored, there, dep, cmd, arg, todo, got, secs, swallowed, calm>>
      BY <1>1, <1>4 DEF cluster
    <2>3. found' \in [Ops -> Texts \cup {None}] /\ fits' \in [Ops -> BOOLEAN]
      BY <1>2, <1>4 DEF TypeOK
    <2>4. TypeOK'
      BY <2>1, <2>2, <2>3 DEF TypeOK
    <2>5. Held(p)'
      BY <1>2, <2>1, <2>2 DEF Held, Known, Patching, Giving, Clearing, HashOf, DeployPoints,
         PatchPoints, ClearPoints
    <2>6. \A q \in Ops \ {p} : Mine(q)' = Mine(q)
      BY <2>1, <2>2 DEF Mine
    <2>7. Inv'
      BY <2>2, <2>5, <2>6, StepKeeps DEF cluster
    <2> QED BY <2>4, <2>7
  <1> QED BY <1>1, <1>3, <1>4

LEMMA SecretInv ==
  ASSUME TypeOK, Inv, NEW p \in Ops, Secret(p), UNCHANGED left PROVE TypeOK' /\ Inv'
  <1>1. CASE GetSecret(p)
    BY <1>1, GetSecretInv
  <1>2. CASE WriteSecret(p)
    <2>1. pc[p] = "write" /\ Writes(p, arg[p])
      BY <1>2 DEF WriteSecret
    <2>2. arg[p] \in Texts \cup {None}
      BY <2>1, SecretCommands
    <2> QED BY <2>1, <2>2, WritesInv
  <1>3. CASE DeleteSecret(p)
    <2>1. pc[p] = "delete" /\ ((Noop(p) /\ UNCHANGED cluster) \/ Writes(p, None))
      BY <1>3 DEF DeleteSecret
    <2> QED BY <2>1, NoopInv, WritesInv
  <1> QED BY <1>1, <1>2, <1>3 DEF Secret

-----------------------------------------------------------------------------
(* Every step.                                                               *)

\* A failing request ends the command.
LEMMA FailInv ==
  ASSUME TypeOK, Inv, NEW p \in Ops, Fail(p), UNCHANGED left PROVE TypeOK' /\ Inv'
  BY OverInv DEF Fail

LEMMA StutterInv == TypeOK /\ Inv /\ UNCHANGED vars => TypeOK' /\ Inv'
  <1> SUFFICES ASSUME TypeOK, Inv, UNCHANGED vars PROVE TypeOK' /\ Inv'
    OBVIOUS
  <1>1. UNCHANGED <<namespace, stored, there, dep, pc, cmd, arg, todo, found, fits, got, secs,
                    swallowed, calm, left>>
    BY DEF vars, cluster, local
  <1>2. TypeOK'
    BY <1>1 DEF TypeOK
  <1>3. ASSUME NEW p \in Ops PROVE Held(p)'
    BY <1>1, InvHeld, OthersKept DEF Mine, cluster
  <1> QED BY <1>2, <1>3 DEF Inv, Held, HashTrue, HashOf

LEMMA Inductive == TypeOK /\ Inv /\ [Next]_vars => TypeOK' /\ Inv'
  <1> SUFFICES ASSUME TypeOK, Inv, [Next]_vars PROVE TypeOK' /\ Inv'
    OBVIOUS
  <1>1. ASSUME NEW p \in Ops, Step(p), UNCHANGED left PROVE TypeOK' /\ Inv'
    BY <1>1, DeployInv, PatchHashInv, DestroyInv, SecretInv, FailInv DEF Step
  <1>2. ASSUME NEW p \in Ops, Start(p) PROVE TypeOK' /\ Inv'
    BY <1>2, StartInv
  <1>3. CASE NamespaceGone /\ UNCHANGED left
    BY <1>3, NamespaceGoneInv
  <1>4. CASE UNCHANGED vars
    BY <1>4, StutterInv
  <1> QED BY <1>1, <1>2, <1>3, <1>4 DEF Next

LEMMA Invariant == Spec => [](TypeOK /\ Inv)
  BY InitInv, Inductive, PTL DEF Spec

-----------------------------------------------------------------------------
(* The theorems.                                                             *)

\* Every variable of the deploy, destroy and secret commands keeps its type
\* (usecase/app/deploy.go, destroy.go, usecase/secret).
THEOREM TypeCorrect == Spec => []TypeOK
  BY Invariant, PTL

\* A command that has patched leaves the hash of what is stored
\* (PatchDeploymentPodContentHash, client_deployment.go:20), unless something else
\* changed the app meanwhile: for any secrets, configs and earlier lost patches.
THEOREM HashTrueHolds == Spec => []HashTrue
  <1>1. Inv => HashTrue
    BY DEF Inv
  <1> QED BY <1>1, Invariant, PTL

\* A deploy gives the whole version and, its prune not having failed, no headless
\* service of another version (Deploy, deploy.go:38).
THEOREM DeployGivesHolds == Spec => []DeployGives
  <1>1. Inv => DeployGives
    BY DEF Inv, Giving, DeployGives
  <1> QED BY <1>1, Invariant, PTL

\* A destroy leaves nothing exposed and nothing running, unless one of its calls
\* failed (Destroy, destroy.go:33).
THEOREM DestroyClearsHolds == Spec => []DestroyClears
  <1>1. Inv => DestroyClears
    BY DEF Inv, Clearing, DestroyClears
  <1> QED BY <1>1, Invariant, PTL

-----------------------------------------------------------------------------
(* CONVERSION                                                                *)

-----------------------------------------------------------------------------
(* Sequences, maps and finite sets.                                          *)

LEMMA ImageFinite ==
  ASSUME NEW S, IsFiniteSet(S), NEW f, DOMAIN f = S
  PROVE  IsFiniteSet({f[x] : x \in S})
  <1> DEFINE T == {f[x] : x \in S}
             g == [x \in S |-> f[x]]
  <1>1. g \in [S -> T] /\ \A t \in T : \E x \in S : g[x] = t
    OBVIOUS
  <1>2. g \in Surjection(S, T)
    BY <1>1 DEF Surjection
  <1> QED BY <1>2, FS_Surjection

LEMMA SequenceIs ==
  ASSUME NEW s, IsSequence(s)
  PROVE  /\ Len(s) \in Nat /\ DOMAIN s = 1 .. Len(s)
         /\ \A i \in 1 .. Len(s) : s[i] \in ToSet(s)
         /\ s # <<>> <=> ToSet(s) # {}
  <1>1. Len(s) \in Nat /\ DOMAIN s = 1 .. Len(s)
    BY LenProperties DEF IsSequence
  <1>2. \A i \in 1 .. Len(s) : s[i] \in ToSet(s)
    BY <1>1 DEF ToSet
  <1>3. s # <<>> => ToSet(s) # {}
    <2> SUFFICES ASSUME s # <<>> PROVE ToSet(s) # {}
      OBVIOUS
    <2>1. Len(s) # 0
      BY EmptySeq DEF IsSequence
    <2>2. 1 \in 1 .. Len(s)
      BY <1>1, <2>1
    <2> QED BY <1>2, <2>2
  <1>4. s = <<>> => ToSet(s) = {}
    <2> SUFFICES ASSUME s = <<>> PROVE ToSet(s) = {}
      OBVIOUS
    <2>1. DOMAIN s = {}
      BY <1>1
    <2> QED BY <2>1 DEF ToSet
  <1> QED BY <1>1, <1>2, <1>3, <1>4

\* What is in f has replaced what was in the map.
LEMMA PutIntoIs ==
  ASSUME NEW map, NEW f
  PROVE  /\ DOMAIN PutInto(map, f) = DOMAIN f \cup DOMAIN map
         /\ \A k \in DOMAIN f : PutInto(map, f)[k] = f[k]
         /\ \A k \in DOMAIN map : k \notin DOMAIN f => PutInto(map, f)[k] = map[k]
  BY DEF PutInto

\* Host ports of a service are told apart, so each leads to its container port.
LEMMA RouteOfIs ==
  ASSUME NEW s, \A p, q \in ToSet(s.ports) : p.host = q.host => p = q
  PROVE  /\ DOMAIN RouteOf(s) = HostPorts(s)
         /\ \A p \in ToSet(s.ports) : RouteOf(s)[p.host] = p.container
  <1>1. DOMAIN RouteOf(s) = HostPorts(s)
    BY DEF RouteOf
  <1>2. ASSUME NEW p \in ToSet(s.ports)
        PROVE  RouteOf(s)[p.host] = p.container
    <2>1. p.host \in HostPorts(s)
      BY DEF HostPorts
    <2>2. (CHOOSE q \in ToSet(s.ports) : q.host = p.host) = p
      OBVIOUS
    <2> QED BY <2>1, <2>2 DEF RouteOf
  <1> QED BY <1>1, <1>2

\* A finite set as a sequence: every element, once.
LEMMA SetToSeqIs ==
  ASSUME NEW S, IsFiniteSet(S)
  PROVE  /\ SetToSeq(S) \in Seq(S)
         /\ Len(SetToSeq(S)) = Cardinality(S) /\ Cardinality(S) \in Nat
         /\ \A i, j \in 1 .. Cardinality(S) : SetToSeq(S)[i] = SetToSeq(S)[j] => i = j
         /\ \A x \in S : \E i \in 1 .. Cardinality(S) : SetToSeq(S)[i] = x
  <1> DEFINE n == Cardinality(S)
             f == SetToSeq(S)
  <1>1. n \in Nat
    BY FS_CardinalityType
  <1>2. f \in [1 .. n -> S] /\ IsInjective(f)
    <2>1. PICK m \in Nat : ExistsBijection(1 .. m, S)
      BY FS_NatBijection
    <2>2. m = n
      BY <2>1, FS_CountingElements
    <2>3. PICK g : g \in Bijection(1 .. n, S)
      BY <2>1, <2>2 DEF ExistsBijection
    <2>4. g \in [1 .. n -> S] /\ IsInjective(g)
      BY <2>3 DEF Bijection, Injection
    <2> QED BY <2>4 DEF SetToSeq
  <1>3. f \in Seq(S) /\ Len(f) = n
    BY <1>1, <1>2, SeqDef, LenProperties
  <1>4. \A i, j \in 1 .. n : f[i] = f[j] => i = j
    BY <1>2 DEF IsInjective
  <1>5. \A x \in S : \E i \in 1 .. n : f[i] = x
    <2>1. f \in Injection(1 .. n, S)
      BY <1>2 DEF Injection
    <2>2. Cardinality(1 .. n) = n
      BY <1>1, FS_Interval
    <2>3. f \in Surjection(1 .. n, S)
      BY <2>1, <2>2, FS_Injection
    <2> QED BY <2>3 DEF Surjection
  <1> QED BY <1>1, <1>3, <1>4, <1>5

-----------------------------------------------------------------------------
(* The app does not change.                                                  *)

LEMMA AppIs ==
  ASSUME input \in DOMAIN Inputs
  PROVE  InputOK(at)
  BY ConverterAssumption DEF at

LEMMA SameApp ==
  ASSUME UNCHANGED input
  PROVE  /\ at' = at
         /\ \A v : VolumeRight(v)' = VolumeRight(v) /\ Backing(v)' = Backing(v)
         /\ \A s : Refs(s)' = Refs(s) /\ RefsRight(s)' = RefsRight(s)
         /\ \A s : Unambiguous(s)' = Unambiguous(s)
         /\ \A s : Kept(s)' = Kept(s) /\ Directories(s)' = Directories(s)
         /\ \A s : FilesOf(s)' = FilesOf(s)
         /\ Admitted' = Admitted /\ RulesOfPolicy' = RulesOfPolicy
         /\ \A m : MountRight(m)' = MountRight(m)
  <1>1. at' = at
    BY DEF at
  <1>2. \A v : VolumeRight(v)' = VolumeRight(v) /\ Backing(v)' = Backing(v)
    BY <1>1 DEF VolumeRight, Backing
  <1>3. \A s : Refs(s)' = Refs(s)
    BY <1>1 DEF Refs
  <1>4. \A s : RefsRight(s)' = RefsRight(s) /\ Unambiguous(s)' = Unambiguous(s)
    BY <1>1, <1>3 DEF RefsRight, Unambiguous
  <1>5. \A s : AllMounts(s)' = AllMounts(s) /\ Taken(s)' = Taken(s)
    BY <1>2, <1>3 DEF AllMounts, Taken
  <1>6. \A s : Kept(s)' = Kept(s)
    BY <1>1, <1>5 DEF Kept
  <1>7. \A s : Directories(s)' = Directories(s)
    BY <1>2 DEF Directories
  <1>8. Admitted' = Admitted /\ RulesOfPolicy' = RulesOfPolicy
    BY <1>1 DEF Admitted, RulesOfPolicy
  <1>9. \A m : MountRight(m)' = MountRight(m)
    BY <1>1 DEF MountRight
  <1>10. \A s : FilesOf(s)' = FilesOf(s)
    BY <1>3 DEF FilesOf
  <1> QED BY <1>1, <1>2, <1>3, <1>4, <1>6, <1>7, <1>8, <1>9, <1>10

\* What was collected stays, and so does what is made of it.
LEMMA SameCollected ==
  ASSUME Collected, UNCHANGED <<input, collected>>
  PROVE  /\ Collected'
         /\ RulesRight' = RulesRight /\ ServicePorts' = ServicePorts
         /\ UNCHANGED <<rest, owner, route, dirs, mounts, shared, warned>>
  <1>1. UNCHANGED <<rest, owner, route, dirs, mounts, shared, warned>> /\ at' = at
    BY SameApp DEF collected
  <1>2. ASSUME NEW s \in at.services \ rest
        PROVE  Converted(s)'
    <2>1. Converted(s)
      BY <1>2 DEF Collected
    <2> QED BY <1>1, <2>1, SameApp DEF Converted
  <1>3. Collected'
    BY <1>1, <1>2, SameApp DEF Collected
  <1>4. RulesRight' = RulesRight /\ ServicePorts' = ServicePorts
    BY <1>1 DEF RulesRight, RuleAt, ServicePorts
  <1> QED BY <1>1, <1>3, <1>4

\* The hosts and the pod are made of what they are made of.
LEMMA SameMade ==
  ASSUME UNCHANGED <<input, collected>>
  PROVE  /\ UNCHANGED ports => HostsOfRules' = HostsOfRules
         /\ UNCHANGED bound => PodOfApp' = PodOfApp /\ PodOfBox' = PodOfBox
  <1>1. at' = at /\ route' = route /\ mounts' = mounts /\ dirs' = dirs /\ shared' = shared
    BY SameApp DEF collected
  <1>2. ASSUME UNCHANGED ports
        PROVE  HostsOfRules' = HostsOfRules
    <2>1. \A r : PortName(r)' = PortName(r)
      BY <1>1, <1>2 DEF PortName
    <2>2. \A r : Custom(r)' = Custom(r) /\ Default(r)' = Default(r)
      BY <1>1, <2>1 DEF Custom, Default
    <2> QED BY <1>1, <2>2 DEF HostsOfRules
  <1>3. ASSUME UNCHANGED bound
        PROVE  PodOfApp' = PodOfApp /\ PodOfBox' = PodOfBox
    <2>1. ClaimsOfApp' = ClaimsOfApp /\ Contents' = Contents /\ ClaimsOfBox' = ClaimsOfBox
      BY <1>1, <1>3 DEF ClaimsOfApp, Contents, ClaimsOfBox
    <2>2. MountsOfBox' = MountsOfBox
      BY <1>1, <1>3 DEF MountsOfBox
    <2> QED BY <1>1, <2>1, <2>2 DEF PodOfApp, PodOfBox
  <1> QED BY <1>2, <1>3

-----------------------------------------------------------------------------
(* The steps.                                                                *)

ConvertSafe == ConvertTypeOK /\ ConvertInv

LEMMA ConvertInitSafe == ConvertInit => ConvertSafe
  <1> SUFFICES ASSUME ConvertInit
               PROVE  ConvertSafe
    OBVIOUS
  <1>1. /\ input \in DOMAIN Inputs /\ stage = "admit" /\ rest = at.services
        /\ DOMAIN owner = {} /\ DOMAIN route = {} /\ dirs = {} /\ DOMAIN mounts = {} /\ shared = {}
        /\ warned = {} /\ told = {} /\ policy = {} /\ DOMAIN bound = {} /\ pod = Absent
    BY DEF ConvertInit
  <1>2. ConvertTypeOK
    BY <1>1 DEF ConvertTypeOK, Stages
  <1>3. Collected
    BY <1>1, FS_EmptySet DEF Collected
  <1>4. Shown /\ Bound
    BY <1>1 DEF Shown, Bound
  <1> QED BY <1>1, <1>2, <1>3, <1>4 DEF ConvertSafe, ConvertInv

\* A command that gives up leaves everything as it is.
LEMMA GiveUpSafe ==
  ASSUME ConvertSafe, GiveUp, stage # "ok"
  PROVE  ConvertSafe'
  <1>1. /\ stage' = "failed" /\ UNCHANGED <<input, collected, told, policy, ports, hosts, bound, pod>>
        /\ UNCHANGED <<rest, owner, route, dirs, mounts, shared, warned>>
        /\ at' = at
    BY SameApp DEF GiveUp, Enter, collected
  <1>2. ConvertTypeOK'
    BY <1>1 DEF ConvertSafe, ConvertTypeOK
  <1>3. Collected'
    BY <1>1, SameCollected DEF ConvertSafe, ConvertInv
  <1>4. Shown'
    BY <1>1, SameApp DEF ConvertSafe, ConvertInv, Shown
  <1>5. Bound'
    BY <1>1 DEF ConvertSafe, ConvertInv, Bound
  <1> QED BY <1>1, <1>2, <1>3, <1>4, <1>5 DEF ConvertSafe, ConvertInv

LEMMA AdmitSafe ==
  ASSUME ConvertSafe, Admit \/ Read
  PROVE  ConvertSafe'
  <1>1. /\ stage \in {"admit", "read"} /\ stage' \in {"read", "services"}
        /\ UNCHANGED <<input, collected, told, policy, ports, hosts, bound, pod>>
        /\ UNCHANGED <<rest, owner, route, dirs, mounts, shared, warned>>
        /\ at' = at
        /\ Admitted
    BY SameApp DEF Admit, Read, Enter, collected, Admitted, ConvertSafe, ConvertInv
  <1>2. ConvertTypeOK'
    BY <1>1 DEF ConvertSafe, ConvertTypeOK, Stages
  <1>3. Collected'
    BY <1>1, SameCollected DEF ConvertSafe, ConvertInv
  <1>4. Shown' /\ Admitted'
    BY <1>1, SameApp DEF ConvertSafe, ConvertInv, Shown
  <1>5. Bound'
    BY <1>1 DEF ConvertSafe, ConvertInv, Bound
  <1> QED BY <1>1, <1>2, <1>3, <1>4, <1>5 DEF ConvertSafe, ConvertInv

\* The volumes made of the files a service refers to are finitely many.
LEMMA FilesOfService ==
  ASSUME input \in DOMAIN Inputs, NEW s \in at.services
  PROVE  IsFiniteSet(FilesOf(s))
  <1>1. \A kind \in Files : IsFiniteSet(DOMAIN s[kind])
    BY AppIs DEF InputOK
  <1>2. ASSUME NEW kind \in Files
        PROVE  IsFiniteSet({<<kind, i>> : i \in {j \in DOMAIN s[kind] :
                                                   at[kind][s[kind][j].source] # "external"}})
    <2> DEFINE J == {j \in DOMAIN s[kind] : at[kind][s[kind][j].source] # "external"}
               f == [j \in J |-> <<kind, j>>]
    <2>1. IsFiniteSet(J)
      BY <1>1, FS_Subset
    <2>2. IsFiniteSet({f[j] : j \in J})
      BY <2>1, ImageFinite
    <2>3. {f[j] : j \in J} = {<<kind, j>> : j \in J}
      OBVIOUS
    <2> QED BY <2>2, <2>3
  <1>3. IsFiniteSet(Refs(s))
    <2> DEFINE R(kind) == {<<kind, i>> : i \in {j \in DOMAIN s[kind] :
                                                  at[kind][s[kind][j].source] # "external"}}
    <2>1. Refs(s) = R("configs") \cup R("secrets")
      BY DEF Refs, Files
    <2>2. IsFiniteSet(R("configs")) /\ IsFiniteSet(R("secrets"))
      BY <1>2 DEF Files
    <2> QED BY <2>1, <2>2, FS_Union
  <1> DEFINE f == [r \in Refs(s) |-> VolumeName(r[1], Source(s, r))]
  <1>4. IsFiniteSet({f[r] : r \in Refs(s)})
    BY <1>3, ImageFinite
  <1>5. {f[r] : r \in Refs(s)} = FilesOf(s)
    BY DEF FilesOf
  <1> QED BY <1>4, <1>5


LEMMA BackingIs ==
  ASSUME input \in DOMAIN Inputs, NEW v, VolumeRight(v)
  PROVE  Backing(v) \in ToSet(at.volumes)
  <1>1. CASE v.type = "bind"
    <2>1. IsSequence(at.volumes) /\ at.volumes # <<>>
      BY <1>1, AppIs DEF VolumeRight, InputOK
    <2>2. at.volumes[1] \in ToSet(at.volumes)
      <3>1. at.volumes \in Seq(ToSet(at.volumes))
        BY <2>1 DEF IsSequence
      <3>2. Len(at.volumes) \in Nat /\ Len(at.volumes) # 0
        BY <3>1, <2>1, EmptySeq, LenProperties
      <3>3. 1 \in 1 .. Len(at.volumes)
        BY <3>2
      <3> QED BY <2>1, <3>3, SequenceIs
    <2>3. Head(at.volumes) = at.volumes[1]
      BY <2>1 DEF IsSequence
    <2> QED BY <1>1, <2>2, <2>3 DEF Backing
  <1>2. CASE v.type # "bind"
    BY <1>2 DEF VolumeRight, Backing
  <1> QED BY <1>1, <1>2

\* A service is added to what is collected: what the others asked for is kept, because
\* no two of them have a container port or a route in common.
LEMMA ConvertServiceSafe ==
  ASSUME ConvertSafe, ConvertService
  PROVE  ConvertSafe'
  <1>1. PICK s \in rest :
          /\ Convertible(s)
          /\ rest' = rest \ {s}
          /\ owner' = PutInto(owner, [c \in ContainerPorts(s) |-> s.name])
          /\ route' = PutInto(route, RouteOf(s))
          /\ dirs' = dirs \cup Directories(s)
          /\ mounts' = PutInto(mounts, [n \in {s.name} |-> Kept(s)])
          /\ shared' = shared \cup FilesOf(s)
          /\ warned' = warned \cup {<<s.name, t>> : t \in Taken(s)}
    BY DEF ConvertService
  <1>2. /\ stage = "services" /\ UNCHANGED <<input, stage, told, policy, ports, hosts, bound, pod>>
        /\ at' = at /\ input \in DOMAIN Inputs
    BY SameApp DEF ConvertService, ConvertSafe, ConvertTypeOK
  <1>3. s \in at.services /\ InputOK(at)
    BY <1>1, <1>2, AppIs DEF ConvertSafe, ConvertTypeOK
  <1>4. PortsRight(s) /\ RefsRight(s) /\ Unambiguous(s) /\ \A v \in ToSet(s.volumes) : VolumeRight(v)
    BY <1>1 DEF Convertible
  <1>5. \A p, q \in ToSet(s.ports) : p.host = q.host => p = q
    BY <1>4 DEF PortsRight
  <1>6. /\ DOMAIN route' = HostPorts(s) \cup DOMAIN route
        /\ \A p \in ToSet(s.ports) : p.host \in HostPorts(s) /\ route'[p.host] = p.container
        /\ \A h \in DOMAIN route : h \notin HostPorts(s) => route'[h] = route[h]
    <2>1. DOMAIN RouteOf(s) = HostPorts(s)
      BY <1>5, RouteOfIs
    <2>2. \A p \in ToSet(s.ports) : RouteOf(s)[p.host] = p.container
      BY <1>5, RouteOfIs
    <2>3. \A p \in ToSet(s.ports) : p.host \in HostPorts(s)
      BY DEF HostPorts
    <2>4. DOMAIN PutInto(route, RouteOf(s)) = DOMAIN RouteOf(s) \cup DOMAIN route
      BY PutIntoIs
    <2>5. \A h \in DOMAIN RouteOf(s) : PutInto(route, RouteOf(s))[h] = RouteOf(s)[h]
      BY PutIntoIs
    <2>6. \A h \in DOMAIN route : h \notin DOMAIN RouteOf(s) => PutInto(route, RouteOf(s))[h] = route[h]
      BY PutIntoIs
    <2> QED BY <1>1, <2>1, <2>2, <2>3, <2>4, <2>5, <2>6
  <1>7. /\ DOMAIN owner' = ContainerPorts(s) \cup DOMAIN owner
        /\ \A p \in ToSet(s.ports) : p.container \in ContainerPorts(s)
        /\ \A c \in ContainerPorts(s) : owner'[c] = s.name
        /\ \A c \in DOMAIN owner : c \notin ContainerPorts(s) => owner'[c] = owner[c]
    <2> DEFINE f == [c \in ContainerPorts(s) |-> s.name]
    <2>1. DOMAIN f = ContainerPorts(s) /\ \A c \in ContainerPorts(s) : f[c] = s.name
      OBVIOUS
    <2>2. owner' = PutInto(owner, f)
      BY <1>1
    <2>3. \A p \in ToSet(s.ports) : p.container \in ContainerPorts(s)
      BY DEF ContainerPorts
    <2> HIDE DEF f
    <2>4. DOMAIN PutInto(owner, f) = DOMAIN f \cup DOMAIN owner
      BY PutIntoIs
    <2>5. \A k \in DOMAIN f : PutInto(owner, f)[k] = f[k]
      BY PutIntoIs
    <2>6. \A k \in DOMAIN owner : k \notin DOMAIN f => PutInto(owner, f)[k] = owner[k]
      BY PutIntoIs
    <2> QED BY <2>1, <2>2, <2>3, <2>4, <2>5, <2>6
  <1>8. /\ DOMAIN mounts' = {s.name} \cup DOMAIN mounts
        /\ mounts'[s.name] = Kept(s)
        /\ \A n \in DOMAIN mounts : n # s.name => mounts'[n] = mounts[n]
    <2> DEFINE f == [n \in {s.name} |-> Kept(s)]
    <2>1. DOMAIN f = {s.name} /\ f[s.name] = Kept(s)
      OBVIOUS
    <2>2. mounts' = PutInto(mounts, f)
      BY <1>1
    <2> HIDE DEF f
    <2>4. DOMAIN PutInto(mounts, f) = DOMAIN f \cup DOMAIN mounts
      BY PutIntoIs
    <2>5. \A k \in DOMAIN f : PutInto(mounts, f)[k] = f[k]
      BY PutIntoIs
    <2>6. \A k \in DOMAIN mounts : k \notin DOMAIN f => PutInto(mounts, f)[k] = mounts[k]
      BY PutIntoIs
    <2> QED BY <2>1, <2>2, <2>4, <2>5, <2>6
  <1>9. \A t \in at.services \ rest' : t = s \/ (t \in at.services \ rest /\ t # s /\ t.name # s.name)
    BY <1>1, <1>3 DEF InputOK
  <1>10. ConvertTypeOK'
    <2>1. rest' \subseteq at'.services /\ input' \in DOMAIN Inputs /\ stage' \in Stages
      BY <1>1, <1>2 DEF ConvertSafe, ConvertTypeOK, Stages
    <2>2. ASSUME NEW h \in DOMAIN route'
          PROVE  route'[h] \in DOMAIN owner'
      <3>1. CASE h \in HostPorts(s)
        BY <3>1, <1>6, <1>7 DEF HostPorts
      <3>2. CASE h \notin HostPorts(s)
        BY <3>2, <1>6, <1>7 DEF ConvertSafe, ConvertTypeOK
      <3> QED BY <3>1, <3>2
    <2>3. \A d \in dirs' : d[1] \in ToSet(at'.volumes)
      <3>1. \A d \in Directories(s) : d[1] \in ToSet(at.volumes)
        BY <1>2, <1>4, BackingIs DEF Directories
      <3> QED BY <1>1, <1>2, <3>1 DEF ConvertSafe, ConvertTypeOK
    <2>4. DOMAIN mounts' = {t.name : t \in at'.services \ rest'}
      <3>1. DOMAIN mounts = {t.name : t \in at.services \ rest}
        BY DEF ConvertSafe, ConvertTypeOK
      <3>2. at.services \ rest' = {s} \cup (at.services \ rest)
        BY <1>1, <1>3
      <3> QED BY <1>2, <1>8, <3>1, <3>2
    <2>5. \A i \in DOMAIN bound' : bound'[i].volume \in ToSet(at'.volumes)
                                   /\ bound'[i].disk \in at'.disks[bound'[i].volume]
      BY <1>2 DEF ConvertSafe, ConvertTypeOK
    <2> QED BY <2>1, <2>2, <2>3, <2>4, <2>5 DEF ConvertTypeOK
  <1>11. Converted(s)'
    <2>1. \A p \in ToSet(s.ports) :
            /\ p.host \in DOMAIN route' /\ route'[p.host] = p.container
            /\ p.container \in DOMAIN owner' /\ owner'[p.container] = s.name
      BY <1>6, <1>7
    <2>2. /\ \A v \in ToSet(s.volumes) : VolumeRight(v)'
          /\ RefsRight(s)' /\ Unambiguous(s)'
          /\ mounts'[s.name] = Kept(s)'
          /\ Directories(s)' \subseteq dirs'
      BY <1>1, <1>2, <1>4, <1>8, SameApp
    <2> QED BY <2>1, <2>2 DEF Converted
  <1>12. ASSUME NEW t \in at.services \ rest, t # s, t.name # s.name
         PROVE  Converted(t)'
    <2>1. Converted(t)
      BY <1>12 DEF ConvertSafe, ConvertInv, Collected
    <2>2. ASSUME NEW p \in ToSet(t.ports)
          PROVE  /\ p.host \in DOMAIN route' /\ route'[p.host] = p.container
                 /\ p.container \in DOMAIN owner' /\ owner'[p.container] = t.name
      <3>1. /\ p.host \in DOMAIN route /\ route[p.host] = p.container
            /\ p.container \in DOMAIN owner /\ owner[p.container] = t.name
        BY <2>1 DEF Converted
      <3>2. p.container \notin ContainerPorts(s)
        BY <3>1, <1>4, <1>12 DEF PortsRight
      <3>3. route'[p.host] = p.container
        <4>1. CASE p.host \in HostPorts(s)
          <5>1. PICK q \in ToSet(s.ports) : q.host = p.host
            BY <4>1 DEF HostPorts
          <5>2. route[q.host] = q.container
            BY <3>1, <5>1, <1>4 DEF PortsRight
          <5> QED BY <3>1, <5>1, <5>2, <1>6
        <4>2. CASE p.host \notin HostPorts(s)
          BY <3>1, <4>2, <1>6
        <4> QED BY <4>1, <4>2
      <3> QED BY <3>1, <3>2, <3>3, <1>6, <1>7
    <2>3. t.name \in DOMAIN mounts
      BY DEF ConvertSafe, ConvertTypeOK
    <2>4. mounts'[t.name] = Kept(t)'
      BY <2>1, <2>3, <1>2, <1>8, <1>12, SameApp DEF Converted
    <2>5. /\ \A v \in ToSet(t.volumes) : VolumeRight(v)'
          /\ RefsRight(t)' /\ Unambiguous(t)'
          /\ Directories(t)' \subseteq dirs'
      BY <2>1, <1>1, <1>2, SameApp DEF Converted
    <2> QED BY <2>2, <2>4, <2>5 DEF Converted
  <1>13. ASSUME NEW h \in DOMAIN route'
         PROVE  /\ h # 0
                /\ \E t \in at.services \ rest' : [host |-> h, container |-> route'[h]] \in ToSet(t.ports)
    <2>1. CASE h \in HostPorts(s)
      <3>1. PICK p \in ToSet(s.ports) : p.host = h
        BY <2>1 DEF HostPorts
      <3>2. p \in [host : Nat, container : Nat]
        BY <1>3, <3>1 DEF InputOK
      <3>3. p = [host |-> h, container |-> route'[h]]
        BY <3>1, <3>2, <1>6
      <3>4. h # 0
        BY <2>1, <1>4 DEF PortsRight
      <3>5. s \in at.services \ rest'
        BY <1>1, <1>3
      <3> QED BY <3>1, <3>3, <3>4, <3>5
    <2>2. CASE h \notin HostPorts(s)
      <3>1. h \in DOMAIN route /\ route'[h] = route[h]
        BY <2>2, <1>6
      <3> QED BY <3>1, <1>1 DEF ConvertSafe, ConvertInv, Collected
    <2> QED BY <2>1, <2>2
  <1>14. IsFiniteSet(shared') /\ shared' = UNION {FilesOf(t) : t \in at.services \ rest'}
    <2>1. IsFiniteSet(FilesOf(s))
      BY <1>2, <1>3, FilesOfService DEF ConvertSafe, ConvertTypeOK
    <2>2. shared' = shared \cup FilesOf(s)
      BY <1>1
    <2>3. IsFiniteSet(shared) /\ shared = UNION {FilesOf(t) : t \in at.services \ rest}
      BY DEF ConvertSafe, ConvertInv, Collected
    <2>4. at.services \ rest' = {s} \cup (at.services \ rest)
      BY <1>1, <1>3
    <2>5. shared' = UNION {FilesOf(t) : t \in at.services \ rest'}
      BY <2>2, <2>3, <2>4
    <2>6. IsFiniteSet(shared \cup FilesOf(s))
      BY <2>1, <2>3, FS_Union
    <2> QED BY <2>2, <2>5, <2>6
  <1>15. Collected'
    <2>1. \A t \in at'.services \ rest' : Converted(t)'
      BY <1>2, <1>9, <1>11, <1>12
    <2>2. shared' = UNION {FilesOf(t)' : t \in at'.services \ rest'}
      BY <1>2, <1>14, SameApp
    <2> QED BY <2>1, <2>2, <1>2, <1>13, <1>14 DEF Collected
  <1>16. Shown' /\ Bound'
    <2>1. policy' = policy /\ RulesOfPolicy' = RulesOfPolicy /\ Admitted' = Admitted
      BY <1>2, SameApp
    <2>2. Shown'
      BY <2>1, <1>2 DEF ConvertSafe, ConvertInv, Shown
    <2>3. Bound'
      BY <1>2 DEF ConvertSafe, ConvertInv, Bound
    <2> QED BY <2>2, <2>3
  <1>17. Admitted' /\ stage' = "services"
    BY <1>2, SameApp DEF ConvertSafe, ConvertInv
  <1> QED BY <1>10, <1>15, <1>16, <1>17 DEF ConvertSafe, ConvertInv

LEMMA BuildPolicySafe ==
  ASSUME ConvertSafe, BuildPolicy
  PROVE  ConvertSafe'
  <1>1. /\ stage = "services" /\ stage' = "service" /\ rest = {} /\ policy' = RulesOfPolicy
        /\ UNCHANGED <<input, collected, told, ports, hosts, bound, pod>>
        /\ UNCHANGED <<rest, owner, route, dirs, mounts, shared, warned>>
        /\ at' = at
    BY SameApp DEF BuildPolicy, Enter, collected
  <1>2. ConvertTypeOK'
    BY <1>1 DEF ConvertSafe, ConvertTypeOK, Stages
  <1>3. Collected'
    BY <1>1, SameCollected DEF ConvertSafe, ConvertInv
  <1>4. Admitted /\ Admitted' = Admitted /\ RulesOfPolicy' = RulesOfPolicy
    BY <1>1, SameApp DEF ConvertSafe, ConvertInv
  <1>5. Shown'
    BY <1>1, <1>4 DEF ConvertSafe, ConvertInv, Shown
  <1>6. Bound'
    BY <1>1 DEF ConvertSafe, ConvertInv, Bound
  <1> QED BY <1>1, <1>2, <1>3, <1>4, <1>5, <1>6 DEF ConvertSafe, ConvertInv

LEMMA BuildServiceSafe ==
  ASSUME ConvertSafe, BuildService
  PROVE  ConvertSafe'
  <1>1. /\ stage = "service" /\ stage' = "ingress" /\ RulesRight
        /\ ports' = IF ServicePorts = {} THEN Absent ELSE ServicePorts
        /\ UNCHANGED <<input, collected, told, policy, hosts, bound, pod>>
        /\ UNCHANGED <<rest, owner, route, dirs, mounts, shared, warned>>
        /\ at' = at
    BY SameApp DEF BuildService, Enter, collected
  <1>2. ConvertTypeOK'
    BY <1>1 DEF ConvertSafe, ConvertTypeOK, Stages
  <1>3. Collected' /\ RulesRight' = RulesRight /\ ServicePorts' = ServicePorts
    BY <1>1, SameCollected DEF ConvertSafe, ConvertInv
  <1>4. Admitted' = Admitted /\ RulesOfPolicy' = RulesOfPolicy
    BY <1>1, SameApp
  <1>5. Shown'
    BY <1>1, <1>3, <1>4 DEF ConvertSafe, ConvertInv, Shown
  <1>6. Bound'
    BY <1>1 DEF ConvertSafe, ConvertInv, Bound
  <1> QED BY <1>1, <1>2, <1>3, <1>4, <1>5, <1>6 DEF ConvertSafe, ConvertInv

LEMMA BuildIngressSafe ==
  ASSUME ConvertSafe, BuildIngress
  PROVE  ConvertSafe'
  <1>1. /\ stage = "ingress" /\ stage' = IF at.who = "other" THEN "ok" ELSE "bind"
        /\ hosts' = HostsOfRules /\ told' = {}
        /\ UNCHANGED <<input, collected, policy, ports, bound, pod>>
        /\ UNCHANGED <<rest, owner, route, dirs, mounts, shared, warned>>
        /\ at' = at
    BY SameApp DEF BuildIngress, Enter, collected
  <1>2. ConvertTypeOK'
    BY <1>1 DEF ConvertSafe, ConvertTypeOK, Stages
  <1>3. Collected' /\ RulesRight' = RulesRight /\ ServicePorts' = ServicePorts
    BY <1>1, SameCollected DEF ConvertSafe, ConvertInv
  <1>4. Admitted' = Admitted /\ RulesOfPolicy' = RulesOfPolicy
    BY <1>1, SameApp
  <1>5. HostsOfRules' = HostsOfRules
    BY <1>1, SameMade
  <1>6. Shown'
    BY <1>1, <1>3, <1>4, <1>5 DEF ConvertSafe, ConvertInv, Shown
  <1>7. Bound'
    BY <1>1 DEF ConvertSafe, ConvertInv, Bound
  <1> QED BY <1>1, <1>2, <1>3, <1>4, <1>6, <1>7 DEF ConvertSafe, ConvertInv

\* Of the disks of a volume, one of those assigned is bound.
LEMMA BindAppSafe ==
  ASSUME ConvertSafe, BindApp
  PROVE  ConvertSafe'
  <1>1. /\ stage = "bind" /\ stage' = "build" /\ at.who = "app"
        /\ UNCHANGED <<input, collected, told, policy, ports, hosts, pod>>
        /\ UNCHANGED <<rest, owner, route, dirs, mounts, shared, warned>>
        /\ at' = at
    BY SameApp DEF BindApp, Enter, collected
  <1>2. /\ DOMAIN bound' = DOMAIN at.volumes
        /\ \A i \in DOMAIN at.volumes :
             /\ bound'[i].volume = at.volumes[i]
             /\ bound'[i].disk = CHOOSE d \in Assigned(at.volumes[i]) : TRUE
    BY DEF BindApp
  <1>3. ASSUME NEW i \in DOMAIN at.volumes
        PROVE  at.volumes[i] \in ToSet(at.volumes) /\ bound'[i].disk \in at.disks[at.volumes[i]]
    <2>1. at.volumes[i] \in ToSet(at.volumes)
      BY DEF ToSet
    <2>2. Cardinality(Assigned(at.volumes[i])) = 1
      BY <2>1 DEF BindApp, Bindable
    <2>3. Assigned(at.volumes[i]) # {}
      <3>1. Cardinality({}) = 0
        BY FS_EmptySet
      <3> QED BY <2>2, <3>1
    <2>4. bound'[i].disk \in Assigned(at.volumes[i])
      BY <1>2, <2>3
    <2> QED BY <2>1, <2>4 DEF Assigned
  <1>4. ConvertTypeOK'
    BY <1>1, <1>2, <1>3 DEF ConvertSafe, ConvertTypeOK, Stages
  <1>5. Collected' /\ RulesRight' = RulesRight /\ ServicePorts' = ServicePorts
    BY <1>1, SameCollected DEF ConvertSafe, ConvertInv
  <1>6. Admitted' = Admitted /\ RulesOfPolicy' = RulesOfPolicy
    BY <1>1, SameApp
  <1>7. HostsOfRules' = HostsOfRules
    BY <1>1, SameMade
  <1>8. Shown'
    BY <1>1, <1>5, <1>6, <1>7 DEF ConvertSafe, ConvertInv, Shown
  <1>9. Bound'
    BY <1>1, <1>2 DEF ConvertSafe, ConvertInv, Bound
  <1> QED BY <1>1, <1>4, <1>5, <1>6, <1>8, <1>9 DEF ConvertSafe, ConvertInv

LEMMA BindBoxSafe ==
  ASSUME ConvertSafe, BindBox
  PROVE  ConvertSafe'
  <1>1. /\ stage = "bind" /\ stage' = "build" /\ at.who = "box"
        /\ \A m \in ToSet(at.boxMounts) : MountRight(m)
        /\ bound' = [i \in DOMAIN at.boxMounts |->
                       [volume |-> at.boxMounts[i].volume, disk |-> at.boxMounts[i].disk]]
        /\ UNCHANGED <<input, collected, told, policy, ports, hosts, pod>>
        /\ UNCHANGED <<rest, owner, route, dirs, mounts, shared, warned>>
        /\ at' = at
    BY SameApp DEF BindBox, Enter, collected
  <1>2. ASSUME NEW i \in DOMAIN bound'
        PROVE  bound'[i].volume \in ToSet(at.volumes) /\ bound'[i].disk \in at.disks[bound'[i].volume]
    <2>1. at.boxMounts[i] \in ToSet(at.boxMounts)
      BY <1>1, <1>2 DEF ToSet
    <2>2. MountRight(at.boxMounts[i])
      BY <1>1, <2>1
    <2> QED BY <1>1, <2>2 DEF MountRight
  <1>3. ConvertTypeOK'
    BY <1>1, <1>2 DEF ConvertSafe, ConvertTypeOK, Stages
  <1>4. Collected' /\ RulesRight' = RulesRight /\ ServicePorts' = ServicePorts
    BY <1>1, SameCollected DEF ConvertSafe, ConvertInv
  <1>5. Admitted' = Admitted /\ RulesOfPolicy' = RulesOfPolicy
    BY <1>1, SameApp
  <1>6. HostsOfRules' = HostsOfRules
    BY <1>1, SameMade
  <1>7. Shown'
    BY <1>1, <1>4, <1>5, <1>6 DEF ConvertSafe, ConvertInv, Shown
  <1>8. Bound'
    BY <1>1, SameApp DEF ConvertSafe, ConvertInv, Bound
  <1> QED BY <1>1, <1>3, <1>4, <1>5, <1>7, <1>8 DEF ConvertSafe, ConvertInv

LEMMA BuildSafe ==
  ASSUME ConvertSafe, Build \/ BuildBox
  PROVE  ConvertSafe'
  <1>1. /\ stage = "build" /\ stage' = "ok" /\ at.who \in {"app", "box"}
        /\ pod' = IF at.who = "app" THEN PodOfApp ELSE PodOfBox
        /\ UNCHANGED <<input, collected, told, policy, ports, hosts, bound>>
        /\ UNCHANGED <<rest, owner, route, dirs, mounts, shared, warned>>
        /\ at' = at
    BY SameApp DEF Build, BuildBox, Enter, collected
  <1>2. ConvertTypeOK'
    BY <1>1 DEF ConvertSafe, ConvertTypeOK, Stages
  <1>3. Collected' /\ RulesRight' = RulesRight /\ ServicePorts' = ServicePorts
    BY <1>1, SameCollected DEF ConvertSafe, ConvertInv
  <1>4. Admitted' = Admitted /\ RulesOfPolicy' = RulesOfPolicy /\ \A m : MountRight(m)' = MountRight(m)
    BY <1>1, SameApp
  <1>5. HostsOfRules' = HostsOfRules /\ PodOfApp' = PodOfApp /\ PodOfBox' = PodOfBox
    BY <1>1, SameMade
  <1>6. Shown'
    BY <1>1, <1>3, <1>4, <1>5 DEF ConvertSafe, ConvertInv, Shown
  <1>7. Bound'
    BY <1>1, <1>4, <1>5 DEF ConvertSafe, ConvertInv, Bound
  <1> QED BY <1>1, <1>2, <1>3, <1>4, <1>6, <1>7 DEF ConvertSafe, ConvertInv

LEMMA ConvertStutterSafe ==
  ASSUME ConvertSafe, UNCHANGED convertVars
  PROVE  ConvertSafe'
  <1>1. /\ UNCHANGED <<input, stage, rest, owner, route, dirs, mounts, shared, warned, told,
                       policy, ports, hosts, bound, pod>>
        /\ UNCHANGED collected /\ at' = at
    BY SameApp DEF convertVars, collected
  <1>2. ConvertTypeOK'
    BY <1>1 DEF ConvertSafe, ConvertTypeOK
  <1>3. Collected' /\ RulesRight' = RulesRight /\ ServicePorts' = ServicePorts
    BY <1>1, SameCollected DEF ConvertSafe, ConvertInv
  <1>4. Admitted' = Admitted /\ RulesOfPolicy' = RulesOfPolicy /\ \A m : MountRight(m)' = MountRight(m)
    BY <1>1, SameApp
  <1>5. HostsOfRules' = HostsOfRules /\ PodOfApp' = PodOfApp /\ PodOfBox' = PodOfBox
    BY <1>1, SameMade
  <1>6. Shown'
    BY <1>1, <1>3, <1>4, <1>5 DEF ConvertSafe, ConvertInv, Shown
  <1>7. Bound'
    BY <1>1, <1>4, <1>5 DEF ConvertSafe, ConvertInv, Bound
  <1> QED BY <1>1, <1>2, <1>3, <1>4, <1>6, <1>7 DEF ConvertSafe, ConvertInv

\* What every proof about the converter starts from.
LEMMA AlwaysConvertSafe == ConvertSpec => []ConvertSafe
  <1>1. ConvertInit => ConvertSafe
    BY ConvertInitSafe
  <1>2. ASSUME ConvertSafe, [ConvertNext]_convertVars
        PROVE  ConvertSafe'
    <2>1. CASE Admit \/ Read
      BY <1>2, <2>1, AdmitSafe
    <2>2. CASE Refuse \/ ReadFails \/ ServiceFails \/ ExposeFails \/ AppUnbound \/ BoxUnbound
      <3>1. GiveUp /\ stage # "ok"
        BY <2>2 DEF Refuse, ReadFails, ServiceFails, ExposeFails, AppUnbound, BoxUnbound
      <3> QED BY <1>2, <3>1, GiveUpSafe
    <2>3. CASE ConvertService
      BY <1>2, <2>3, ConvertServiceSafe
    <2>4. CASE BuildPolicy
      BY <1>2, <2>4, BuildPolicySafe
    <2>5. CASE BuildService
      BY <1>2, <2>5, BuildServiceSafe
    <2>6. CASE BuildIngress
      BY <1>2, <2>6, BuildIngressSafe
    <2>7. CASE BindApp
      BY <1>2, <2>7, BindAppSafe
    <2>8. CASE BindBox
      BY <1>2, <2>8, BindBoxSafe
    <2>9. CASE Build \/ BuildBox
      BY <1>2, <2>9, BuildSafe
    <2>10. CASE UNCHANGED convertVars
      BY <1>2, <2>10, ConvertStutterSafe
    <2> QED BY <1>2, <2>1, <2>2, <2>3, <2>4, <2>5, <2>6, <2>7, <2>8, <2>9, <2>10 DEF ConvertNext
  <1> QED BY <1>1, <1>2, PTL DEF ConvertSpec

\* A conversion only collects what its app has: directories, bindings and routes are of
\* the app's volumes, disks and ports (NewConverter to Build, adapters/kube/converter.go).
THEOREM ConvertTypeCorrect == ConvertSpec => []ConvertTypeOK
  <1>1. ConvertSafe => ConvertTypeOK
    BY DEF ConvertSafe
  <1> QED BY <1>1, AlwaysConvertSafe, PTL

-----------------------------------------------------------------------------
(* What is shown to others.                                                  *)

\* A rule that is right opens what it writes, because it has a peer.
LEMMA RuleOpens ==
  ASSUME NEW rule, IsSequence(rule.from), IsSequence(rule.ports), RuleRight(rule)
  PROVE  /\ Peers(rule) # {}
         /\ Opened([from |-> Peers(rule), ports |-> ToSet(rule.ports)]) = Written(rule)
  <1>1. ToSet(rule.from) # {}
    BY SequenceIs DEF RuleRight
  <1>2. Peers(rule) # {}
    BY <1>1 DEF RuleRight, Peers
  <1>3. \A space : (\E spaces \in Peers(rule) : space \in spaces)
                     <=> \E peer \in ToSet(rule.from) : peer.selector = "some" /\ space \in peer.spaces
    BY DEF Peers
  <1>4. rule.ports = <<>> <=> ToSet(rule.ports) = {}
    BY SequenceIs
  <1> QED BY <1>2, <1>3, <1>4 DEF Opened, Written

\* The first rule opens every port to the namespaces that are trusted.
LEMMA TrustedOpens == Opened([from |-> {Trusted}, ports |-> {}]) = Trusted \X Ports
  <1>1. Trusted \subseteq Namespaces
    BY ConverterAssumption
  <1> QED BY <1>1 DEF Opened

LEMMA PolicyIs ==
  ASSUME ConvertSafe
  PROVE  PolicyAsWritten
  <1> SUFFICES ASSUME policy # {}
               PROVE  UNION {Opened(rule) : rule \in policy} =
                        (Trusted \X Ports) \cup UNION {Written(rule) : rule \in ToSet(at.allow)}
    BY DEF PolicyAsWritten
  <1>1. policy = RulesOfPolicy /\ Admitted
    BY DEF ConvertSafe, ConvertInv, Shown
  <1>2. InputOK(at)
    BY AppIs DEF ConvertSafe, ConvertTypeOK
  <1> DEFINE RuleFor(rule) == [from |-> Peers(rule), ports |-> ToSet(rule.ports)]
             first == [from |-> {Trusted}, ports |-> {}]
  <1>3. \A rule \in ToSet(at.allow) : Peers(rule) # {} /\ Opened(RuleFor(rule)) = Written(rule)
    BY <1>1, <1>2, RuleOpens DEF Admitted, InputOK
  <1>4. policy = {first} \cup {RuleFor(rule) : rule \in ToSet(at.allow)}
    <2>1. \A rule \in ToSet(at.allow) : RuleFor(rule) # [from |-> {}, ports |-> {}]
      BY <1>3
    <2> QED BY <1>1, <2>1 DEF RulesOfPolicy
  <1>5. UNION {Opened(rule) : rule \in policy} =
          Opened(first) \cup UNION {Opened(RuleFor(rule)) : rule \in ToSet(at.allow)}
    <2> HIDE DEF RuleFor, first
    <2> QED BY <1>4
  <1>6. UNION {Opened(RuleFor(rule)) : rule \in ToSet(at.allow)} =
          UNION {Written(rule) : rule \in ToSet(at.allow)}
    <2> HIDE DEF RuleFor
    <2> QED BY <1>3
  <1> QED BY <1>5, <1>6, TrustedOpens

\* The Service has a port for each rule, and ports with one target have one name.
LEMMA PortNameIs ==
  ASSUME RulesRight, ports = ServicePorts, at.rules # <<>>, NEW r \in ToSet(at.rules)
  PROVE  \E p \in ports : p.target = route[r.port] /\ p.name = PortName(r)
  <1>1. ports = {[name |-> q.name, port |-> q.port, target |-> route[q.port]] : q \in ToSet(at.rules)}
    BY DEF ServicePorts
  <1>2. \E p \in ports : p.target = route[r.port]
    <2>1. [name |-> r.name, port |-> r.port, target |-> route[r.port]] \in ports
      BY <1>1
    <2> QED BY <2>1
  <1> DEFINE p == CHOOSE p \in ports : p.target = route[r.port]
  <1>3. p \in ports /\ p.target = route[r.port]
    BY <1>2
  <1> QED BY <1>3 DEF PortName

\* Rules are told apart by their ports and by each of their hosts; the hosts an app names
\* are not those made of ports.
LEMMA HostOfRule ==
  ASSUME ConvertSafe, RulesRight, NEW q \in ToSet(at.rules), NEW r \in ToSet(at.rules),
         NEW h \in Custom(q) \cup Default(q)
  PROVE  /\ h.name = PortName(q)
         /\ h.host \in ToSet(r.hosts) \/ h.host.port = r.port => q = r
         /\ h.host \in ToSet(q.hosts) \/ h.host.port = q.port
         /\ \A g \in Custom(q) \cup Default(q) : h.host = g.host => h = g
  <1>1. InputOK(at)
    BY AppIs DEF ConvertSafe, ConvertTypeOK
  <1>2. PICK i \in DOMAIN at.rules : q = at.rules[i]
    BY DEF ToSet
  <1>3. PICK j \in DOMAIN at.rules : r = at.rules[j]
    BY DEF ToSet
  <1>4. /\ i # j => q.port # r.port /\ ToSet(q.hosts) \cap ToSet(r.hosts) = {}
        /\ q.port \in DOMAIN route /\ r.port \in DOMAIN route
    BY <1>2, <1>3 DEF RulesRight, RuleAt
  <1>5. q.port # 0 /\ r.port # 0
    BY <1>4 DEF ConvertSafe, ConvertInv, Collected
  <1>6. \A g \in ToSet(q.hosts) \cup ToSet(r.hosts) : g.port = 0
    BY <1>1 DEF InputOK
  <1> DEFINE made == [label |-> "", port |-> q.port, domain |-> at.domain]
  <1>7. \A g \in Custom(q) \cup Default(q) : \E host \in ToSet(q.hosts) \cup {made} :
          g = [host |-> host, name |-> PortName(q)]
    <2>1. \A g \in Custom(q) : \E host \in ToSet(q.hosts) : g = [host |-> host, name |-> PortName(q)]
      BY DEF Custom
    <2>2. \A g \in Default(q) : g = [host |-> made, name |-> PortName(q)]
      BY Zenon DEF Default
    <2> HIDE DEF made
    <2> QED BY <2>1, <2>2
  <1>8. h.name = PortName(q) /\ (h.host \in ToSet(q.hosts) \/ h.host.port = q.port)
    <2>1. PICK host \in ToSet(q.hosts) \cup {made} : h = [host |-> host, name |-> PortName(q)]
      BY <1>7
    <2>2. h.name = PortName(q) /\ h.host = host
      BY <2>1
    <2>3. host \in ToSet(q.hosts) \/ host.port = q.port
      <3>1. CASE host = made
        <4>1. made.port = q.port
          OBVIOUS
        <4> HIDE DEF made
        <4> QED BY <3>1, <4>1
      <3> QED BY <2>1, <3>1
    <2> QED BY <2>2, <2>3
  <1>9. h.host \in ToSet(r.hosts) \/ h.host.port = r.port => q = r
    BY <1>2, <1>3, <1>4, <1>5, <1>6, <1>8
  <1>10. \A g \in Custom(q) \cup Default(q) : h.host = g.host => h = g
    <2> SUFFICES ASSUME NEW g \in Custom(q) \cup Default(q), h.host = g.host
                 PROVE  h = g
      OBVIOUS
    <2>1. PICK x \in ToSet(q.hosts) \cup {made} : h = [host |-> x, name |-> PortName(q)]
      BY <1>7
    <2>2. PICK y \in ToSet(q.hosts) \cup {made} : g = [host |-> y, name |-> PortName(q)]
      BY <1>7
    <2>3. h.host = x /\ g.host = y
      BY <2>1, <2>2
    <2> QED BY <2>1, <2>2, <2>3
  <1> QED BY <1>8, <1>9, <1>10

LEMMA HostsAre ==
  ASSUME ConvertSafe
  PROVE  HostsLeadRight
  <1> SUFFICES ASSUME stage \in {"bind", "build", "ok"}, at.rules # <<>>
               PROVE  /\ \A h, g \in hosts : h.host = g.host => h = g
                      /\ \A r \in ToSet(at.rules), h \in hosts :
                           h.host \in ToSet(r.hosts) \/ h.host.port = r.port =>
                             \E p \in ports, s \in at.services :
                               /\ p.name = h.name
                               /\ [host |-> r.port, container |-> p.target] \in ToSet(s.ports)
                               /\ \A t \in at.services : p.target \in ContainerPorts(t) => t = s
    BY DEF HostsLeadRight
  <1>1. RulesRight /\ hosts = HostsOfRules /\ ports = IF ServicePorts = {} THEN Absent ELSE ServicePorts
    BY DEF ConvertSafe, ConvertInv, Shown
  <1>2. InputOK(at)
    BY AppIs DEF ConvertSafe, ConvertTypeOK
  <1>3. ports = ServicePorts
    <2>1. ToSet(at.rules) # {}
      BY <1>2, SequenceIs DEF InputOK
    <2>2. ServicePorts # {}
      BY <2>1 DEF ServicePorts
    <2> QED BY <1>1, <2>2
  <1>4. \A h \in hosts : \E q \in ToSet(at.rules) : h \in Custom(q) \cup Default(q)
    BY <1>1 DEF HostsOfRules
  <1>5. ASSUME NEW h \in hosts, NEW g \in hosts, h.host = g.host
        PROVE  h = g
    <2>1. PICK q \in ToSet(at.rules) : h \in Custom(q) \cup Default(q)
      BY <1>4
    <2>2. PICK r \in ToSet(at.rules) : g \in Custom(r) \cup Default(r)
      BY <1>4
    <2>3. g.host \in ToSet(r.hosts) \/ g.host.port = r.port
      BY <1>1, <2>2, HostOfRule
    <2>4. q = r
      BY <1>1, <1>5, <2>1, <2>3, HostOfRule
    <2> QED BY <1>1, <1>5, <2>1, <2>2, <2>4, HostOfRule
  <1>6. ASSUME NEW r \in ToSet(at.rules), NEW h \in hosts,
               h.host \in ToSet(r.hosts) \/ h.host.port = r.port
        PROVE  \E p \in ports, s \in at.services :
                 /\ p.name = h.name
                 /\ [host |-> r.port, container |-> p.target] \in ToSet(s.ports)
                 /\ \A t \in at.services : p.target \in ContainerPorts(t) => t = s
    <2>1. PICK q \in ToSet(at.rules) : h \in Custom(q) \cup Default(q)
      BY <1>4
    <2>2. h.name = PortName(r)
      BY <1>1, <1>6, <2>1, HostOfRule
    <2>3. PICK p \in ports : p.target = route[r.port] /\ p.name = PortName(r)
      BY <1>1, <1>3, PortNameIs
    <2>4. rest = {} /\ Collected
      BY DEF ConvertSafe, ConvertInv
    <2>5. r.port \in DOMAIN route
      BY <1>1 DEF RulesRight, RuleAt, ToSet
    <2>6. PICK s \in at.services : [host |-> r.port, container |-> route[r.port]] \in ToSet(s.ports)
      BY <2>4, <2>5 DEF Collected
    <2>7. owner[p.target] = s.name
      BY <2>3, <2>4, <2>6 DEF Collected, Converted
    <2>8. ASSUME NEW t \in at.services, p.target \in ContainerPorts(t)
          PROVE  t = s
      <3>1. owner[p.target] = t.name
        BY <2>4, <2>8 DEF Collected, Converted, ContainerPorts
      <3> QED BY <2>7, <3>1, <1>2 DEF InputOK
    <2> QED BY <2>2, <2>3, <2>6, <2>8
  <1> QED BY <1>5, <1>6

-----------------------------------------------------------------------------
(* What is mounted.                                                          *)

\* One sequence after another: the places of the first, then those of the second.
LEMMA OneAfterOther ==
  ASSUME NEW s, NEW t, IsSequence(s), IsSequence(t)
  PROVE  /\ IsSequence(s \o t) /\ Len(s \o t) = Len(s) + Len(t)
         /\ \A i \in 1 .. Len(s) : (s \o t)[i] = s[i]
         /\ \A i \in Len(s) + 1 .. Len(s) + Len(t) :
              i - Len(s) \in 1 .. Len(t) /\ (s \o t)[i] = t[i - Len(s)]
         /\ ToSet(s \o t) = ToSet(s) \cup ToSet(t)
  <1> DEFINE S == ToSet(s) \cup ToSet(t)
  <1>1. Len(s) \in Nat /\ DOMAIN s = 1 .. Len(s) /\ Len(t) \in Nat /\ DOMAIN t = 1 .. Len(t)
    BY SequenceIs
  <1>2. s \in Seq(S) /\ t \in Seq(S)
    <2>1. s \in Seq(ToSet(s)) /\ t \in Seq(ToSet(t))
      BY DEF IsSequence
    <2>2. \A i \in 1 .. Len(s) : s[i] \in S
      BY SequenceIs
    <2>3. \A i \in 1 .. Len(t) : t[i] \in S
      BY SequenceIs
    <2> QED BY <2>1, <2>2, <2>3, ElementOfSeq, SeqDef, <1>1
  <1>3. /\ s \o t \in Seq(S) /\ Len(s \o t) = Len(s) + Len(t)
        /\ \A i \in 1 .. Len(s) + Len(t) :
             (s \o t)[i] = IF i <= Len(s) THEN s[i] ELSE t[i - Len(s)]
    BY <1>2, ConcatProperties
  <1>4. \A i \in 1 .. Len(s) : (s \o t)[i] = s[i]
    BY <1>1, <1>3
  <1>5. \A i \in Len(s) + 1 .. Len(s) + Len(t) :
          i - Len(s) \in 1 .. Len(t) /\ (s \o t)[i] = t[i - Len(s)]
    BY <1>1, <1>3
  <1>6. DOMAIN (s \o t) = 1 .. Len(s) + Len(t)
    BY <1>3, LenProperties
  <1>7. ToSet(s \o t) = ToSet(s) \cup ToSet(t)
    <2>1. \A x \in ToSet(s \o t) : x \in S
      BY <1>3, <1>6, ElementOfSeq DEF ToSet
    <2>2. ASSUME NEW x \in ToSet(s) PROVE x \in ToSet(s \o t)
      <3>1. PICK i \in 1 .. Len(s) : s[i] = x
        BY <1>1 DEF ToSet
      <3>2. i \in 1 .. Len(s) + Len(t)
        BY <1>1
      <3> QED BY <3>1, <3>2, <1>4, <1>6 DEF ToSet
    <2>3. ASSUME NEW x \in ToSet(t) PROVE x \in ToSet(s \o t)
      <3>1. PICK i \in 1 .. Len(t) : t[i] = x
        BY <1>1 DEF ToSet
      <3>2. i + Len(s) \in Len(s) + 1 .. Len(s) + Len(t) /\ (i + Len(s)) - Len(s) = i
        BY <1>1
      <3>3. i + Len(s) \in 1 .. Len(s) + Len(t)
        BY <1>1
      <3>4. (s \o t)[i + Len(s)] = x
        BY <3>1, <3>2, <1>5
      <3> QED BY <3>3, <3>4, <1>6 DEF ToSet
    <2> QED BY <2>1, <2>2, <2>3
  <1>8. IsSequence(s \o t)
    <2> DEFINE u == s \o t
    <2>1. u \in Seq(S) /\ Len(u) \in Nat
      BY <1>1, <1>3
    <2>2. u \in [1 .. Len(u) -> S]
      BY <2>1, LenProperties
    <2> HIDE DEF u
    <2>3. \A i \in 1 .. Len(u) : u[i] \in ToSet(u)
      BY <2>2 DEF ToSet
    <2>4. u \in [1 .. Len(u) -> ToSet(u)]
      BY <2>2, <2>3
    <2>5. u \in Seq(ToSet(u))
      BY <2>1, <2>4, SeqDef
    <2> QED BY <2>5 DEF IsSequence, u
  <1> QED BY <1>3, <1>4, <1>5, <1>7, <1>8

\* A function on the places of a sequence is one.
LEMMA SequenceOf ==
  ASSUME NEW n \in Nat, NEW f, f = [i \in 1 .. n |-> f[i]]
  PROVE  IsSequence(f) /\ Len(f) = n
  <1>1. \A i \in 1 .. n : f[i] \in ToSet(f)
    BY DEF ToSet
  <1>2. f \in [1 .. n -> ToSet(f)]
    BY <1>1
  <1>3. f \in Seq(ToSet(f))
    BY <1>2, SeqDef
  <1> QED BY <1>2, <1>3, LenProperties DEF IsSequence

\* The volumes of configs and secrets are those of the services.
LEMMA SharedIs ==
  ASSUME ConvertSafe, rest = {}
  PROVE  /\ shared = UNION {FilesOf(s) : s \in at.services}
         /\ FilesApart <=> ToSet(at.volumes) \cap shared = {}
  <1>1. shared = UNION {FilesOf(s) : s \in at.services}
    BY DEF ConvertSafe, ConvertInv, Collected
  <1> QED BY <1>1 DEF FilesApart

\* Every mount is of a volume, of which there is the directory, and nothing else is at its
\* place.  What is asked for at a place is mounted there, or a file is.
LEMMA KeptIs ==
  ASSUME ConvertSafe, NEW s \in at.services \ rest
  PROVE  /\ \A m \in Kept(s) :
              \/ m.volume \in shared
              \/ m.volume \in ToSet(at.volumes) /\ (m.sub # Absent => <<m.volume, m.sub>> \in dirs)
         /\ \A m, n \in Kept(s) : m.target = n.target => m = n
         /\ ToSet(at.volumes) \cap shared = {} =>
              /\ \A v \in ToSet(s.volumes) : \E m \in Kept(s) :
                   m.target = v.target /\ (m.volume = Backing(v) \/ m.volume \in FilesOf(s))
              /\ \A r \in Refs(s) : \E m \in Kept(s) :
                   m.target = Target(s, r) /\ m.volume = VolumeName(r[1], Source(s, r))
  <1> DEFINE MV(v) == Mount(Backing(v), v.target, v.sub)
             MR(r) == Mount(VolumeName(r[1], Source(s, r)), Target(s, r), Source(s, r))
  <1>1. Converted(s)
    BY DEF ConvertSafe, ConvertInv, Collected
  <1>2. \A v, w \in ToSet(s.volumes) : v.target = w.target => v = w
    BY AppIs DEF InputOK, ConvertSafe, ConvertTypeOK
  <1>3. \A m \in AllMounts(s) : (\E v \in ToSet(s.volumes) : m = MV(v)) \/ (\E r \in Refs(s) : m = MR(r))
    BY DEF AllMounts
  <1>4. \A v \in ToSet(s.volumes) :
          MV(v) \in AllMounts(s) /\ MV(v).volume = Backing(v) /\ MV(v).target = v.target
          /\ MV(v).sub = v.sub /\ Backing(v) \in ToSet(at.volumes)
    BY <1>1, BackingIs DEF AllMounts, Mount, Converted, ConvertSafe, ConvertTypeOK
  <1>5. \A r \in Refs(s) :
          MR(r) \in AllMounts(s) /\ MR(r).volume = VolumeName(r[1], Source(s, r))
          /\ MR(r).target = Target(s, r) /\ MR(r).volume \in FilesOf(s)
    BY DEF AllMounts, Mount, FilesOf
  <1>15. FilesOf(s) \subseteq shared
    BY DEF ConvertSafe, ConvertInv, Collected
  <1>6. \A q, r \in Refs(s) : Target(s, q) = Target(s, r) => q = r
    BY <1>1 DEF Converted, Unambiguous
  <1>7. \A v \in ToSet(s.volumes) : v.sub # Absent => <<Backing(v), v.sub>> \in dirs
    BY <1>1 DEF Converted, Directories
  <1> HIDE DEF MV, MR
  <1>8. \A m : m \in Kept(s) <=> m \in AllMounts(s) /\ ~(m.volume \in ToSet(at.volumes) /\ m.target \in Taken(s))
    BY DEF Kept
  <1>9. ToSet(at.volumes) \cap shared = {} => \A r \in Refs(s) : MR(r) \in Kept(s)
    BY <1>5, <1>8, <1>15
  <1>10. \A v \in ToSet(s.volumes), r \in Refs(s) : MV(v) \in Kept(s) => v.target # Target(s, r)
    BY <1>4, <1>8 DEF Taken
  <1>11. \A m \in Kept(s) :
           \/ m.volume \in shared
           \/ m.volume \in ToSet(at.volumes) /\ (m.sub # Absent => <<m.volume, m.sub>> \in dirs)
    BY <1>3, <1>4, <1>5, <1>7, <1>8, <1>15
  <1>12. ASSUME NEW m \in Kept(s), NEW n \in Kept(s), m.target = n.target
         PROVE  m = n
    <2>1. /\ (\E v \in ToSet(s.volumes) : m = MV(v)) \/ (\E r \in Refs(s) : m = MR(r))
          /\ (\E v \in ToSet(s.volumes) : n = MV(v)) \/ (\E r \in Refs(s) : n = MR(r))
      BY <1>3, <1>8
    <2>2. CASE (\E v \in ToSet(s.volumes) : m = MV(v)) /\ (\E v \in ToSet(s.volumes) : n = MV(v))
      BY <2>2, <1>2, <1>4, <1>12
    <2>3. CASE (\E r \in Refs(s) : m = MR(r)) /\ (\E r \in Refs(s) : n = MR(r))
      BY <2>3, <1>5, <1>6, <1>12
    <2>4. CASE (\E v \in ToSet(s.volumes) : m = MV(v)) /\ (\E r \in Refs(s) : n = MR(r))
      BY <2>4, <1>4, <1>5, <1>10, <1>12
    <2>5. CASE (\E r \in Refs(s) : m = MR(r)) /\ (\E v \in ToSet(s.volumes) : n = MV(v))
      BY <2>5, <1>4, <1>5, <1>10, <1>12
    <2> QED BY <2>1, <2>2, <2>3, <2>4, <2>5
  <1>13. ASSUME ToSet(at.volumes) \cap shared = {}, NEW v \in ToSet(s.volumes)
         PROVE  \E m \in Kept(s) :
                  m.target = v.target /\ (m.volume = Backing(v) \/ m.volume \in FilesOf(s))
    <2>1. CASE v.target \in Taken(s)
      <3>1. PICK r \in Refs(s) : Target(s, r) = v.target
        BY <2>1 DEF Taken
      <3> QED BY <3>1, <1>5, <1>9, <1>13
    <2>2. CASE v.target \notin Taken(s)
      BY <2>2, <1>4, <1>8
    <2> QED BY <2>1, <2>2
  <1>14. ToSet(at.volumes) \cap shared = {} => \A r \in Refs(s) : \E m \in Kept(s) :
           m.target = Target(s, r) /\ m.volume = VolumeName(r[1], Source(s, r))
    BY <1>5, <1>9
  <1> QED BY <1>11, <1>12, <1>13, <1>14

\* The volumes of the pod of an app: its own, and those of the files its services mount.
LEMMA VolumesOfApp ==
  ASSUME ConvertSafe, DOMAIN bound = DOMAIN at.volumes,
         \A i \in DOMAIN bound : bound[i].volume = at.volumes[i]
  PROVE  LET V == ClaimsOfApp \o Contents
         IN /\ {v.name : v \in ToSet(V)} = ToSet(at.volumes) \cup shared
            /\ (\A i, j \in DOMAIN V : V[i].name = V[j].name => i = j) <=>
                 IsInjective(at.volumes) /\ ToSet(at.volumes) \cap shared = {}
  <1> DEFINE V == ClaimsOfApp \o Contents
             n == Len(at.volumes)
             C == {[name |-> x, claim |-> Absent] : x \in shared}
             k == Cardinality(C)
  <1>1. InputOK(at)
    BY AppIs DEF ConvertSafe, ConvertTypeOK
  <1>2. n \in Nat /\ DOMAIN at.volumes = 1 .. n
    BY <1>1, SequenceIs DEF InputOK
  <1>3. /\ IsSequence(ClaimsOfApp) /\ Len(ClaimsOfApp) = n
        /\ \A i \in 1 .. n : ClaimsOfApp[i].name = at.volumes[i]
    <2>1. ClaimsOfApp = [i \in 1 .. n |-> ClaimsOfApp[i]]
      BY <1>2 DEF ClaimsOfApp
    <2>2. \A i \in 1 .. n : ClaimsOfApp[i].name = at.volumes[i]
      BY <1>2 DEF ClaimsOfApp
    <2> HIDE DEF n
    <2> QED BY <2>1, <2>2, <1>2, SequenceOf
  <1>4. IsFiniteSet(C)
    <2> DEFINE f == [x \in shared |-> [name |-> x, claim |-> Absent]]
    <2>1. IsFiniteSet(shared)
      BY DEF ConvertSafe, ConvertInv, Collected
    <2>2. DOMAIN f = shared /\ C = {f[x] : x \in shared}
      OBVIOUS
    <2> HIDE DEF f, C
    <2>3. IsFiniteSet({f[x] : x \in shared})
      BY <2>1, <2>2, ImageFinite
    <2> QED BY <2>2, <2>3
  <1>5. /\ \A c \in C : c.name \in shared
        /\ \A b, c \in C : b.name = c.name => b = c
        /\ \A x \in shared : \E c \in C : c.name = x
    <2>1. \A c \in C : \E x \in shared : c = [name |-> x, claim |-> Absent]
      OBVIOUS
    <2>2. \A x \in shared : [name |-> x, claim |-> Absent] \in C
      OBVIOUS
    <2> HIDE DEF C
    <2>3. \A c \in C : c.name \in shared /\ c = [name |-> c.name, claim |-> Absent]
      BY <2>1
    <2>4. \A x \in shared : \E c \in C : c.name = x
      BY <2>2
    <2> QED BY <2>3, <2>4
  <1>6. Contents = SetToSeq(C)
    BY DEF Contents
  <1> HIDE DEF C
  <1>7. /\ Contents \in Seq(C) /\ Len(Contents) = k /\ k \in Nat
        /\ \A i, j \in 1 .. k : Contents[i] = Contents[j] => i = j
        /\ \A c \in C : \E i \in 1 .. k : Contents[i] = c
    BY <1>4, <1>6, SetToSeqIs
  <1>8. /\ IsSequence(Contents) /\ \A i \in 1 .. k : Contents[i] \in C
    <2>1. Contents \in [1 .. k -> C]
      BY <1>7, LenProperties
    <2>2. Contents = [i \in 1 .. k |-> Contents[i]] /\ \A i \in 1 .. k : Contents[i] \in C
      BY <2>1
    <2> HIDE DEF k
    <2> QED BY <2>2, <1>7, SequenceOf
  <1> HIDE DEF k, n
  <1>9. /\ IsSequence(V) /\ Len(V) = n + k /\ ToSet(V) = ToSet(ClaimsOfApp) \cup ToSet(Contents)
        /\ \A i \in 1 .. n : V[i] = ClaimsOfApp[i]
        /\ \A i \in n + 1 .. n + k : i - n \in 1 .. k /\ V[i] = Contents[i - n]
    <2>1. IsSequence(V) /\ Len(V) = Len(ClaimsOfApp) + Len(Contents)
      BY <1>3, <1>8, OneAfterOther
    <2>2. ToSet(V) = ToSet(ClaimsOfApp) \cup ToSet(Contents)
      BY <1>3, <1>8, OneAfterOther
    <2>3. \A i \in 1 .. Len(ClaimsOfApp) : V[i] = ClaimsOfApp[i]
      BY <1>3, <1>8, OneAfterOther
    <2>4. \A i \in Len(ClaimsOfApp) + 1 .. Len(ClaimsOfApp) + Len(Contents) :
            i - Len(ClaimsOfApp) \in 1 .. Len(Contents) /\ V[i] = Contents[i - Len(ClaimsOfApp)]
      BY <1>3, <1>8, OneAfterOther
    <2> HIDE DEF V
    <2> QED BY <2>1, <2>2, <2>3, <2>4, <1>3, <1>7
  <1> HIDE DEF V
  <1>10. \A i \in 1 .. n : V[i].name = at.volumes[i] /\ V[i].name \in ToSet(at.volumes)
    BY <1>2, <1>3, <1>9 DEF ToSet
  <1>11. \A i \in n + 1 .. n + k : V[i].name \in shared
    BY <1>5, <1>8, <1>9
  <1>12. ASSUME IsInjective(at.volumes), ToSet(at.volumes) \cap shared = {},
                NEW i \in 1 .. Len(V), NEW j \in 1 .. Len(V), V[i].name = V[j].name
         PROVE  i = j
    <2>1. (i \in 1 .. n \/ i \in n + 1 .. n + k) /\ (j \in 1 .. n \/ j \in n + 1 .. n + k)
      BY <1>2, <1>7, <1>9
    <2>2. CASE i \in 1 .. n /\ j \in 1 .. n
      BY <2>2, <1>2, <1>10, <1>12 DEF IsInjective
    <2>3. CASE i \in n + 1 .. n + k /\ j \in n + 1 .. n + k
      <3>1. i - n \in 1 .. k /\ j - n \in 1 .. k /\ Contents[i - n].name = Contents[j - n].name
        BY <2>3, <1>9, <1>12
      <3>2. Contents[i - n] = Contents[j - n]
        BY <3>1, <1>5, <1>8
      <3>3. i - n = j - n
        BY <3>1, <3>2, <1>7
      <3> QED BY <3>3, <1>2, <1>7, <1>9
    <2>4. ~(i \in 1 .. n /\ j \in n + 1 .. n + k) /\ ~(j \in 1 .. n /\ i \in n + 1 .. n + k)
      BY <1>10, <1>11, <1>12
    <2> QED BY <2>1, <2>2, <2>3, <2>4
  <1>13. {v.name : v \in ToSet(V)} = ToSet(at.volumes) \cup shared
    <2>1. {v.name : v \in ToSet(ClaimsOfApp)} = ToSet(at.volumes)
      <3>1. DOMAIN ClaimsOfApp = 1 .. n
        BY <1>2 DEF ClaimsOfApp
      <3> QED BY <3>1, <1>2, <1>3 DEF ToSet
    <2>2. {v.name : v \in ToSet(Contents)} = shared
      <3>1. ToSet(Contents) = C
        <4>1. DOMAIN Contents = 1 .. k
          BY <1>7, LenProperties
        <4> QED BY <4>1, <1>7, <1>8 DEF ToSet
      <3> QED BY <3>1, <1>5
    <2> QED BY <2>1, <2>2, <1>9
  <1>14. DOMAIN V = 1 .. Len(V)
    BY <1>9, SequenceIs
  <1>15. ASSUME \A i, j \in 1 .. Len(V) : V[i].name = V[j].name => i = j
         PROVE  IsInjective(at.volumes) /\ ToSet(at.volumes) \cap shared = {}
    <2>1. \A i \in 1 .. n : i \in 1 .. Len(V)
      BY <1>2, <1>7, <1>9
    <2>2. IsInjective(at.volumes)
      BY <2>1, <1>2, <1>10, <1>15 DEF IsInjective
    <2>3. ASSUME NEW x \in ToSet(at.volumes), x \in shared
          PROVE  FALSE
      <3>1. PICK i \in 1 .. n : at.volumes[i] = x
        BY <1>2 DEF ToSet
      <3>2. PICK l \in 1 .. k : Contents[l].name = x
        BY <2>3, <1>5, <1>7
      <3>3. n + l \in n + 1 .. n + k /\ n + l \in 1 .. Len(V) /\ (n + l) - n = l
        BY <1>2, <1>7, <1>9
      <3>4. V[n + l].name = x
        BY <3>2, <3>3, <1>9
      <3>5. i = n + l
        BY <3>1, <3>3, <3>4, <2>1, <1>10, <1>15
      <3> QED BY <3>5, <1>2, <1>7
    <2> QED BY <2>2, <2>3
  <1> QED BY <1>12, <1>13, <1>14, <1>15 DEF V

\* The volumes of the pod of a box: a claim for each disk, and one for the key.
LEMMA VolumesOfBox ==
  ASSUME ConvertSafe,
         bound = [i \in DOMAIN at.boxMounts |->
                    [volume |-> at.boxMounts[i].volume, disk |-> at.boxMounts[i].disk]],
         \A m \in ToSet(at.boxMounts) : MountRight(m)
  PROVE  LET V == ClaimsOfBox \o (IF at.key THEN <<Key>> ELSE <<>>)
         IN /\ \A i \in DOMAIN bound :
                 Claim(bound[i]) \in {v.name : v \in ToSet(V)} /\ Claim(bound[i]) # Key.name
            /\ at.key => Key.name \in {v.name : v \in ToSet(V)}
            /\ (\A i, j \in DOMAIN V : V[i].name = V[j].name => i = j) <=>
                 (\A i, j \in DOMAIN bound : bound[i] = bound[j] => i = j)
  <1> DEFINE K == IF at.key THEN <<Key>> ELSE <<>>
             V == ClaimsOfBox \o K
             n == Len(at.boxMounts)
  <1>1. InputOK(at)
    BY AppIs DEF ConvertSafe, ConvertTypeOK
  <1>2. n \in Nat /\ DOMAIN at.boxMounts = 1 .. n /\ DOMAIN bound = 1 .. n
    BY <1>1, SequenceIs DEF InputOK
  <1>3. /\ IsSequence(ClaimsOfBox) /\ Len(ClaimsOfBox) = n
        /\ \A i \in 1 .. n : ClaimsOfBox[i].name = bound[i]
    <2>1. ClaimsOfBox = [i \in 1 .. n |-> ClaimsOfBox[i]]
      BY <1>2 DEF ClaimsOfBox
    <2>2. \A i \in 1 .. n : ClaimsOfBox[i].name = bound[i]
      BY <1>2 DEF ClaimsOfBox, Claim
    <2> HIDE DEF n
    <2> QED BY <2>1, <2>2, <1>2, SequenceOf
  <1>4. /\ IsSequence(K) /\ Len(K) \in {0, 1} /\ (at.key <=> Len(K) = 1)
        /\ at.key => K[1] = Key
    <2>1. CASE at.key
      <3>1. K = <<Key>>
        BY <2>1
      <3>2. Len(K) = 1 /\ K[1] = Key /\ K = [i \in 1 .. 1 |-> K[i]]
        BY <3>1
      <3> HIDE DEF K
      <3>3. IsSequence(K)
        BY <3>2, SequenceOf
      <3> QED BY <2>1, <3>2, <3>3
    <2>2. CASE ~at.key
      <3>1. K = <<>>
        BY <2>2
      <3>2. Len(K) = 0
        BY <3>1
      <3>3. IsSequence(K)
        <4> HIDE DEF K
        <4>1. IsSequence(<<>>)
          BY EmptySeq DEF IsSequence
        <4> QED BY <3>1, <4>1
      <3> QED BY <2>2, <3>2, <3>3
    <2> QED BY <2>1, <2>2
  <1> HIDE DEF K
  <1>5. /\ IsSequence(V) /\ Len(V) = n + Len(K) /\ ToSet(V) = ToSet(ClaimsOfBox) \cup ToSet(K)
        /\ \A i \in 1 .. n : V[i] = ClaimsOfBox[i]
        /\ \A i \in n + 1 .. n + Len(K) : i - n \in 1 .. Len(K) /\ V[i] = K[i - n]
    <2>1. IsSequence(V) /\ Len(V) = Len(ClaimsOfBox) + Len(K)
      BY <1>3, <1>4, OneAfterOther
    <2>2. ToSet(V) = ToSet(ClaimsOfBox) \cup ToSet(K)
      BY <1>3, <1>4, OneAfterOther
    <2>3. \A i \in 1 .. Len(ClaimsOfBox) : V[i] = ClaimsOfBox[i]
      BY <1>3, <1>4, OneAfterOther
    <2>4. \A i \in Len(ClaimsOfBox) + 1 .. Len(ClaimsOfBox) + Len(K) :
            i - Len(ClaimsOfBox) \in 1 .. Len(K) /\ V[i] = K[i - Len(ClaimsOfBox)]
      BY <1>3, <1>4, OneAfterOther
    <2> HIDE DEF V
    <2> QED BY <2>1, <2>2, <2>3, <2>4, <1>3
  <1> HIDE DEF V, n
  <1>6. \A i \in 1 .. n :
          /\ bound[i] = [volume |-> at.boxMounts[i].volume, disk |-> at.boxMounts[i].disk]
          /\ bound[i].volume = at.boxMounts[i].volume
          /\ bound[i].disk = at.boxMounts[i].disk /\ bound[i].disk # Absent
    <2> SUFFICES ASSUME NEW i \in 1 .. n
                 PROVE  /\ bound[i] = [volume |-> at.boxMounts[i].volume, disk |-> at.boxMounts[i].disk]
                        /\ bound[i].volume = at.boxMounts[i].volume
                        /\ bound[i].disk = at.boxMounts[i].disk /\ bound[i].disk # Absent
      OBVIOUS
    <2>1. at.boxMounts[i] \in ToSet(at.boxMounts)
      BY <1>2 DEF ToSet
    <2>2. MountRight(at.boxMounts[i])
      BY <2>1
    <2>3. at.boxMounts[i].disk # Absent
      BY <2>2, <1>1 DEF MountRight, InputOK
    <2> QED BY <2>3, <1>2
  <1>7. Key.name.disk = Absent
    BY DEF Key, Claim
  <1>8. ASSUME \A a, b \in 1 .. n : bound[a] = bound[b] => a = b,
               NEW i \in 1 .. Len(V), NEW j \in 1 .. Len(V), V[i].name = V[j].name
        PROVE  i = j
    <2>1. \A l \in 1 .. Len(V) : l \in 1 .. n \/ (l = n + 1 /\ V[l] = Key)
      <3> SUFFICES ASSUME NEW l \in 1 .. Len(V), l \notin 1 .. n
                   PROVE  l = n + 1 /\ V[l] = Key
        OBVIOUS
      <3>1. l = n + 1 /\ Len(K) = 1
        BY <1>2, <1>4, <1>5
      <3>2. l \in n + 1 .. n + Len(K) /\ l - n = 1
        BY <3>1, <1>2
      <3>3. V[l] = K[1]
        BY <3>2, <1>5
      <3> QED BY <3>1, <3>3, <1>4
    <2>2. \A l \in 1 .. n : V[l].name = bound[l]
      BY <1>3, <1>5
    <2>3. CASE i \in 1 .. n /\ j \in 1 .. n
      <3>1. bound[i] = bound[j]
        BY <2>2, <2>3, <1>8
      <3>2. \A a, b \in 1 .. n : bound[a] = bound[b] => a = b
        BY <1>8
      <3> QED BY <3>1, <3>2, <2>3
    <2>4. CASE i \notin 1 .. n /\ j \notin 1 .. n
      BY <2>1, <2>4
    <2>5. ~(i \in 1 .. n /\ j \notin 1 .. n) /\ ~(j \in 1 .. n /\ i \notin 1 .. n)
      <3>1. \A l, m \in 1 .. Len(V) : l \in 1 .. n /\ m \notin 1 .. n => V[l].name # V[m].name
        <4> SUFFICES ASSUME NEW l \in 1 .. n, NEW m \in 1 .. Len(V), m \notin 1 .. n,
                            V[l].name = V[m].name
                     PROVE  FALSE
          OBVIOUS
        <4>1. bound[l] = Key.name
          BY <2>1, <2>2
        <4>2. bound[l].disk = Absent
          BY <4>1, <1>7
        <4> QED BY <4>2, <1>6
      <3> QED BY <3>1, <1>8
    <2> QED BY <2>3, <2>4, <2>5
  <1>9. ASSUME \A a, b \in 1 .. Len(V) : V[a].name = V[b].name => a = b,
               NEW i \in 1 .. n, NEW j \in 1 .. n, bound[i] = bound[j]
        PROVE  i = j
    <2>1. i \in 1 .. Len(V) /\ j \in 1 .. Len(V)
      BY <1>2, <1>4, <1>5
    <2>2. V[i].name = bound[i] /\ V[j].name = bound[j]
      BY <1>3, <1>5
    <2>3. V[i].name = V[j].name
      BY <2>2, <1>9
    <2>4. \A a, b \in 1 .. Len(V) : V[a].name = V[b].name => a = b
      BY <1>9
    <2> QED BY <2>1, <2>3, <2>4
  <1>12. DOMAIN V = 1 .. Len(V)
    BY <1>5, SequenceIs
  <1>13. \A i \in DOMAIN bound : Claim(bound[i]) # Key.name
    BY <1>2, <1>6, <1>7 DEF Claim
  <1>10. ASSUME NEW i \in DOMAIN bound
         PROVE  Claim(bound[i]) \in {v.name : v \in ToSet(V)}
    <2>1. i \in DOMAIN ClaimsOfBox /\ ClaimsOfBox[i].name = Claim(bound[i])
      BY DEF ClaimsOfBox
    <2>2. ClaimsOfBox[i] \in ToSet(V)
      BY <2>1, <1>5 DEF ToSet
    <2> QED BY <2>1, <2>2
  <1>11. ASSUME at.key
         PROVE  Key.name \in {v.name : v \in ToSet(V)}
    <2>1. Len(K) = 1 /\ K[1] = Key
      BY <1>4, <1>11
    <2>2. K[1] \in ToSet(K)
      <3>1. \A i \in 1 .. Len(K) : K[i] \in ToSet(K)
        BY <1>4, SequenceIs
      <3> QED BY <2>1, <3>1
    <2> QED BY <2>1, <2>2, <1>5
  <1>14. (\A i, j \in DOMAIN V : V[i].name = V[j].name => i = j) <=>
           (\A i, j \in DOMAIN bound : bound[i] = bound[j] => i = j)
    <2>1. (\A i, j \in 1 .. n : bound[i] = bound[j] => i = j) =>
            \A i, j \in 1 .. Len(V) : V[i].name = V[j].name => i = j
      BY <1>8
    <2>2. (\A i, j \in 1 .. Len(V) : V[i].name = V[j].name => i = j) =>
            \A i, j \in 1 .. n : bound[i] = bound[j] => i = j
      BY <1>9
    <2>3. ASSUME \A i, j \in DOMAIN bound : bound[i] = bound[j] => i = j,
                 NEW i \in DOMAIN V, NEW j \in DOMAIN V, V[i].name = V[j].name
          PROVE  i = j
      <3>1. \A a, b \in 1 .. n : bound[a] = bound[b] => a = b
        BY <2>3, <1>2
      <3>2. i \in 1 .. Len(V) /\ j \in 1 .. Len(V)
        BY <1>12
      <3> QED BY <3>1, <3>2, <2>1, <2>3
    <2>4. ASSUME \A i, j \in DOMAIN V : V[i].name = V[j].name => i = j,
                 NEW i \in DOMAIN bound, NEW j \in DOMAIN bound, bound[i] = bound[j]
          PROVE  i = j
      <3>1. \A a, b \in 1 .. Len(V) : V[a].name = V[b].name => a = b
        BY <2>4, <1>12
      <3>2. i \in 1 .. n /\ j \in 1 .. n
        BY <1>2
      <3> QED BY <3>1, <3>2, <2>2, <2>4
    <2> QED BY <2>3, <2>4
  <1> QED BY <1>10, <1>11, <1>13, <1>14 DEF V, K

LEMMA PodOfAppIs ==
  ASSUME ConvertSafe, pod # Absent, at.who = "app"
  PROVE  PodMountable
  <1>1. /\ stage = "ok" /\ pod = PodOfApp /\ rest = {}
        /\ DOMAIN bound = DOMAIN at.volumes /\ \A i \in DOMAIN bound : bound[i].volume = at.volumes[i]
    BY DEF ConvertSafe, ConvertInv, Bound
  <1>2. pod.volumes = ClaimsOfApp \o Contents /\ pod.mounts = mounts /\ pod.dirs = dirs
    BY <1>1 DEF PodOfApp
  <1> DEFINE Names == {v.name : v \in ToSet(pod.volumes)}
  <1>3. /\ Names = ToSet(at.volumes) \cup shared
        /\ (\A i, j \in DOMAIN pod.volumes : pod.volumes[i].name = pod.volumes[j].name => i = j) <=>
             IsInjective(at.volumes) /\ ToSet(at.volumes) \cap shared = {}
    BY <1>1, <1>2, VolumesOfApp
  <1>4. \A s \in at.services : s \in at.services \ rest /\ mounts[s.name] = Kept(s)
    BY <1>1 DEF ConvertSafe, ConvertInv, Collected, Converted
  <1>5. \A c \in DOMAIN mounts : \E s \in at.services : c = s.name
    BY DEF ConvertSafe, ConvertTypeOK
  <1> HIDE DEF Names
  <1>6. ASSUME NEW c \in DOMAIN pod.mounts
        PROVE  /\ \A m \in pod.mounts[c] : m.volume \in Names
               /\ \A m, n \in pod.mounts[c] : m.target = n.target => m = n
    <2>1. PICK s \in at.services : c = s.name
      BY <1>2, <1>5
    <2>2. s \in at.services \ rest /\ pod.mounts[c] = Kept(s)
      BY <2>1, <1>2, <1>4
    <2>3. \A m \in Kept(s) : m.volume \in shared \/ m.volume \in ToSet(at.volumes)
      BY <2>2, KeptIs
    <2>4. \A m, n \in Kept(s) : m.target = n.target => m = n
      BY <2>2, KeptIs
    <2> QED BY <2>2, <2>3, <2>4, <1>3
  <1>7. \A d \in pod.dirs : d[1] \in Names
    BY <1>2, <1>3 DEF ConvertSafe, ConvertTypeOK
  <1>8. ASSUME NEW s \in at.services
        PROVE  /\ \A m \in pod.mounts[s.name] :
                    m.sub # Absent /\ m.volume \notin shared => <<m.volume, m.sub>> \in pod.dirs
               /\ FilesApart =>
                    /\ \A v \in ToSet(s.volumes) : \E m \in pod.mounts[s.name] :
                         m.target = v.target /\ (m.volume = Backing(v) \/ m.volume \in FilesOf(s))
                    /\ \A r \in Refs(s) : \E m \in pod.mounts[s.name] :
                         m.target = Target(s, r) /\ m.volume = VolumeName(r[1], Source(s, r))
    <2>1. s \in at.services \ rest /\ pod.mounts[s.name] = Kept(s)
      BY <1>2, <1>4
    <2>2. \A m \in Kept(s) : m.sub # Absent /\ m.volume \notin shared => <<m.volume, m.sub>> \in dirs
      BY <2>1, KeptIs
    <2>3. ASSUME FilesApart
          PROVE  /\ \A v \in ToSet(s.volumes) : \E m \in Kept(s) :
                      m.target = v.target /\ (m.volume = Backing(v) \/ m.volume \in FilesOf(s))
                 /\ \A r \in Refs(s) : \E m \in Kept(s) :
                      m.target = Target(s, r) /\ m.volume = VolumeName(r[1], Source(s, r))
      <3>1. ToSet(at.volumes) \cap shared = {}
        BY <2>3, <1>1, SharedIs
      <3> QED BY <3>1, <2>1, KeptIs
    <2> QED BY <2>1, <2>2, <2>3, <1>2
  <1>9. Acceptable <=> VolumesApart
    <2>1. \A c \in DOMAIN pod.mounts : \A m, n \in pod.mounts[c] : m.target = n.target => m = n
      BY <1>6
    <2>2. FilesApart <=> ToSet(at.volumes) \cap shared = {}
      BY <1>1, SharedIs
    <2> QED BY <2>1, <2>2, <1>3 DEF Acceptable, VolumesApart
  <1> QED BY <1>6, <1>7, <1>8, <1>9 DEF PodMountable, Names

LEMMA PodOfBoxIs ==
  ASSUME ConvertSafe, pod # Absent, at.who = "box"
  PROVE  PodMountable
  <1>1. /\ stage = "ok" /\ pod = PodOfBox
        /\ bound = [i \in DOMAIN at.boxMounts |->
                      [volume |-> at.boxMounts[i].volume, disk |-> at.boxMounts[i].disk]]
        /\ \A m \in ToSet(at.boxMounts) : MountRight(m)
    BY DEF ConvertSafe, ConvertInv, Bound
  <1>2. /\ pod.volumes = ClaimsOfBox \o (IF at.key THEN <<Key>> ELSE <<>>)
        /\ DOMAIN pod.mounts = {"box"} /\ pod.mounts["box"] = MountsOfBox /\ pod.dirs = {}
    BY <1>1 DEF PodOfBox
  <1> DEFINE Names == {v.name : v \in ToSet(pod.volumes)}
             MB(i) == Mount(Claim(bound[i]), at.boxMounts[i].path, Absent)
             MK == Mount(Key.name, KeyPath, "authorized_keys")
  <1>3. /\ \A i \in DOMAIN bound : Claim(bound[i]) \in Names /\ Claim(bound[i]) # Key.name
        /\ at.key => Key.name \in Names
        /\ (\A i, j \in DOMAIN pod.volumes : pod.volumes[i].name = pod.volumes[j].name => i = j) <=>
             (\A i, j \in DOMAIN bound : bound[i] = bound[j] => i = j)
    <2> DEFINE V == ClaimsOfBox \o (IF at.key THEN <<Key>> ELSE <<>>)
    <2>1. /\ \A i \in DOMAIN bound :
               Claim(bound[i]) \in {v.name : v \in ToSet(V)} /\ Claim(bound[i]) # Key.name
          /\ at.key => Key.name \in {v.name : v \in ToSet(V)}
          /\ (\A i, j \in DOMAIN V : V[i].name = V[j].name => i = j) <=>
               (\A i, j \in DOMAIN bound : bound[i] = bound[j] => i = j)
      BY <1>1, VolumesOfBox, Zenon
    <2>2. pod.volumes = V
      BY <1>2
    <2> HIDE DEF V
    <2> QED BY <2>1, <2>2, Zenon
  <1>4. DOMAIN bound = DOMAIN at.boxMounts
    BY <1>1
  <1>5. /\ \A m \in MountsOfBox : (\E i \in DOMAIN bound : m = MB(i)) \/ (at.key /\ m = MK)
        /\ \A i \in DOMAIN bound : MB(i) \in MountsOfBox
        /\ at.key => MK \in MountsOfBox
    BY DEF MountsOfBox
  <1>6. \A i \in DOMAIN bound : MB(i).volume = Claim(bound[i]) /\ MB(i).target = at.boxMounts[i].path
    BY DEF Mount
  <1>7. MK.volume = Key.name /\ MK.target = KeyPath
    BY DEF Mount
  <1>8. \A i, j \in DOMAIN bound :
          bound[i] = bound[j] <=>
            /\ at.boxMounts[i].volume = at.boxMounts[j].volume
            /\ at.boxMounts[i].disk = at.boxMounts[j].disk
    BY <1>1
  <1>9. (\A m \in ToSet(at.boxMounts) : m.path # KeyPath) <=>
          (\A i \in DOMAIN bound : at.boxMounts[i].path # KeyPath)
    BY <1>4 DEF ToSet
  <1> HIDE DEF Names, MB, MK
  <1>10. \A m \in MountsOfBox : m.volume \in Names
    BY <1>3, <1>5, <1>6, <1>7
  <1>11. ASSUME BoxApart
         PROVE  Acceptable
    <2>1. \A i, j \in DOMAIN bound : bound[i] = bound[j] => i = j
      BY <1>4, <1>8, <1>11 DEF BoxApart
    <2>2. \A i, j \in DOMAIN bound : at.boxMounts[i].path = at.boxMounts[j].path => i = j
      BY <1>4, <1>11 DEF BoxApart
    <2>3. at.key => \A i \in DOMAIN bound : at.boxMounts[i].path # KeyPath
      BY <1>9, <1>11 DEF BoxApart
    <2>4. \A m, n \in MountsOfBox : m.target = n.target => m = n
      BY <2>2, <2>3, <1>5, <1>6, <1>7
    <2> QED BY <2>1, <2>4, <1>2, <1>3 DEF Acceptable
  <1>12. ASSUME Acceptable
         PROVE  BoxApart
    <2>1. \A i, j \in DOMAIN bound : bound[i] = bound[j] => i = j
      BY <1>3, <1>12 DEF Acceptable
    <2>2. \A m, n \in MountsOfBox : m.target = n.target => m = n
      BY <1>2, <1>12 DEF Acceptable
    <2>3. \A i, j \in DOMAIN bound : at.boxMounts[i].path = at.boxMounts[j].path => i = j
      BY <2>1, <2>2, <1>5, <1>6 DEF Claim
    <2>4. at.key => \A i \in DOMAIN bound : at.boxMounts[i].path # KeyPath
      BY <2>2, <1>3, <1>5, <1>6, <1>7
    <2> QED BY <2>1, <2>3, <2>4, <1>4, <1>8, <1>9 DEF BoxApart
  <1>13. \A c \in DOMAIN pod.mounts : \A m \in pod.mounts[c] : m.volume \in Names
    BY <1>2, <1>10
  <1> QED BY <1>2, <1>11, <1>12, <1>13 DEF PodMountable, Names

\* Of every pod that Build makes (converter.go:1246) and of every one of box deploy
\* (usecase/box/deploy.go:145): whatever names and mounts somebody wrote, in whatever
\* order services are converted.  Nothing but what VolumesApart and BoxApart name makes it
\* unacceptable, and each of that does.
THEOREM PodMountableHolds == ConvertSpec => []PodMountable
  <1>1. ConvertSafe => PodMountable
    <2> SUFFICES ASSUME ConvertSafe, pod # Absent
                 PROVE  PodMountable
      BY DEF PodMountable
    <2>1. at.who \in {"app", "box"}
      BY DEF ConvertSafe, ConvertInv, Bound
    <2> QED BY <2>1, PodOfAppIs, PodOfBoxIs
  <1> QED BY <1>1, AlwaysConvertSafe, PTL

\* A host of the two Ingresses leads, by the name of a port of the Service, to the one
\* service that publishes the port of its rule (Convert, converter.go:980): for any
\* services, rules and hosts.
THEOREM HostsLeadRightHolds == ConvertSpec => []HostsLeadRight
  BY HostsAre, AlwaysConvertSafe, PTL

\* The network policy lets in the trusted namespaces and what the rules write, nothing
\* else (Convert, converter.go:790): for any rules, namespaces and ports.
THEOREM PolicyAsWrittenHolds == ConvertSpec => []PolicyAsWritten
  BY PolicyIs, AlwaysConvertSafe, PTL

\* Both: who reaches an app, by its hosts or from its cluster, is who its rules say.
THEOREM ExposedAsWrittenHolds == ConvertSpec => []ExposedAsWritten
  <1>1. HostsLeadRight /\ PolicyAsWritten => ExposedAsWritten
    BY DEF ExposedAsWritten
  <1> QED BY <1>1, HostsLeadRightHolds, PolicyAsWrittenHolds, PTL
=============================================================================
