---------------------------- MODULE MCDnsRecords ----------------------------
(***************************************************************************)
(* Two zones, one below the other, and a host in each: the host of the     *)
(* inner zone matches both, that of the outer one is its apex.             *)
(***************************************************************************)
EXTENDS DnsRecords, TLC

Com == <<"com">>
App == <<"app", "com">>

MCZones    == {Com, App}
MCOrder    == <<Com, <<"www">> \o App>>
MCForeign  == {<< <<App, MCOrder[2]>>, "CNAME">>, << <<Com, Com>>, "AAAA">>}
MCSettings == {<<Com, App>>, <<App>>, None}
Symmetry   == Permutations(Ops)

\* Of a command that has ended and answers for nothing nothing is read any more: Start
\* sets all of it.  Once calm is over, had and swallowed make no difference.
Of(p) ==
  IF Ended(p) /\ ~Answers(p) THEN <<>>
  ELSE <<pc[p], cmd[p], flags[p], todo[p], calm[p], IF calm[p] THEN <<had[p], swallowed[p]>> ELSE <<>> >>

View == <<setting, ingress, records, [p \in Ops |-> Of(p)]>>
=============================================================================
