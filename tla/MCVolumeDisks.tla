--------------------------- MODULE MCVolumeDisks ---------------------------
(* Instances of VolumeDisks for TLC.                                         *)
EXTENDS VolumeDisks, TLC

CONSTANT Twins  \* names that are cut to one

\* Invocations and names are interchangeable, but for the names that are cut.
Symmetry ==
  Permutations(Ops) \cup Permutations(Twins) \cup Permutations(Names \ Twins)
    \cup Permutations(SnapNames)

CutNames ==
  [v \in Volumes |-> [n \in Names \cup SnapNames |-> IF n \in Twins THEN None ELSE n]]

\* An invocation that has ended is what CommandsSettle says of it.  Start resets
\* everything else.
Remembered(p) ==
  IF Active(p)
  THEN <<pc[p], cmd[p], vol[p], name[p], cur[p], snap[p], todo[p], seen[p], pend[p], calm[p]>>
  ELSE IF pc[p] = "ok" /\ cmd[p] \in {"assign", "bootstrap"}
       THEN <<cmd[p], vol[p], name[p], calm[p]>>
       ELSE <<>>

\* Nothing reads the binding of a deploy, nor, without snapshots, what was tagged last.
View == <<disks, tagged, created, clock, snaps, [p \in Ops |-> Remembered(p)]>>
=============================================================================
