------------------------------ MODULE MCRollout ------------------------------
(* Two invocations on an app with one config and one compose service.  Two   *)
(* versions of the app differ in the config and in the headless service; the  *)
(* Service is left out, as it takes the same steps as the Ingress.           *)
EXTENDS Rollout, TLC
CONSTANTS c1, h1, f1, f2

MCSpecs == {[texts |-> [c \in Confs |-> f1], objects |-> {"ingress", h1}],
            [texts |-> [c \in Confs |-> f2], objects |-> {"ingress"}]}

Symmetry == Permutations(Ops) \cup Permutations(Orders) \cup Permutations(EnvTexts)
=============================================================================
