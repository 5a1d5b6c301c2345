------------------------- MODULE MCClusterLifecycle -------------------------
(* Instances of ClusterLifecycle for TLC. *)
EXTENDS ClusterLifecycle, TLC

\* Invocations are interchangeable.
Symmetry == Permutations(Ops)

\* An invocation is over: no action reads anything of it before Start resets it,
\* and no property speaks of it.
Over(p) == pend[p] = "none" /\ pc[p] \in Ended /\ ~(pc[p] = "ok" /\ calm[p])

\* States that differ only in what nothing reads any more count as one: of an
\* invocation that is over, everything; of a calm one that is done, its level
\* and its client; of one that is not calm, what it swallowed.
View ==
  <<azure, k8s, pend,
    [p \in Ops |->
       IF Over(p) THEN <<"over">>
       ELSE IF pc[p] = "ok" THEN <<"ok", cmd[p], force[p], vaults[p], swallowed[p]>>
       ELSE <<pc[p], cmd[p], force[p], level[p], vaults[p], conn[p], helm[p],
              calm[p], calm[p] /\ swallowed[p]>>]>>
=============================================================================
