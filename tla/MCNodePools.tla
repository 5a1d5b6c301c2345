----------------------------- MODULE MCNodePools -----------------------------
(***************************************************************************)
(* Instances of NodePools.  The files: a full one in each zone form, one   *)
(* with only a label, one with only a scale, and one that gives the labels *)
(* Kompox owns.                                                            *)
(***************************************************************************)
EXTENDS NodePools, TLC

CONSTANTS k1, k2, z1, app, v1, v2, range, count

MCLabel(l, v) == [m \in Labels |-> IF m = l THEN v ELSE None]
MCRange == [auto |-> TRUE, range |-> range, count |-> None]
MCFixed == [auto |-> FALSE, range |-> None, count |-> count]

MCFiles ==
  { [kind |-> k1, zones |-> [list |-> z1, form |-> "kompox"], labels |-> MCLabel(app, v1),
     scale |-> MCRange],
    [kind |-> k2, zones |-> [list |-> z1, form |-> "aks"], labels |-> MCLabel(app, None),
     scale |-> MCFixed],
    [kind |-> None, zones |-> None, labels |-> MCLabel(app, v2), scale |-> None],
    [kind |-> None, zones |-> None, labels |-> MCLabel(app, None), scale |-> MCFixed],
    [kind |-> None, zones |-> None,
     labels |-> [m \in Labels |-> IF m = app THEN None ELSE v1],
     scale |-> [MCFixed EXCEPT !.count = None]] }
Symmetry == Permutations(Ops)
=============================================================================
