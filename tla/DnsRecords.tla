----------------------------- MODULE DnsRecords -----------------------------
(***************************************************************************)
(* The DNS records of an app: dns deploy and dns destroy (usecase/dns),    *)
(* also as part of app deploy and app destroy with --update-dns            *)
(* (cmd/kompoxops/cmd_app.go), down to the record sets in the zones of the *)
(* cluster (aks/cluster.go, ClusterDNSApply; aks/azure_dns.go).            *)
(*                                                                         *)
(* A command lists the hosts of the app's ingresses with their addresses,  *)
(* then writes or deletes one record set after the other.  Only in strict  *)
(* mode does it notice that one could not be written.                      *)
(*                                                                         *)
(* A domain name is the sequence of its labels.                            *)
(***************************************************************************)
EXTENDS Naturals, SequencesExt

CONSTANTS
  Ops,      \* the invocations
  Order,    \* the hosts the app's ingresses may have, by name
  IPs,      \* addresses of the load balancer
  Zones,    \* the names of the zones in Azure
  Settings, \* lists of zones the cluster may be configured with; None cannot be read
  Foreign,  \* records somebody else has made: <<place, type>>
  None

Hosts == ToSet(Order)

TypeOrder == <<"A", "AAAA", "CNAME">>
Types     == ToSet(TypeOrder)

\* The zones a host's records may be in.
Places == {x \in Zones \X Hosts : IsSuffix(x[1], x[2])}

Labels == UNION {ToSet(n) : n \in Zones \cup Hosts}

ASSUME DnsAssumption ==
  /\ Zones \cup Hosts \subseteq Seq(Labels)
  /\ Settings \subseteq Seq(Zones) \cup {None}
  /\ None \notin Seq(Zones)
  /\ Order \in Seq(Hosts)
  /\ Foreign \subseteq Places \X Types
  /\ IPs \cap {"none", "pending", "foreign"} = {}

VARIABLES
  setting,   \* what the cluster is configured with; never changes
  ingress,   \* per host: "none", "pending" without an address, or the address
  records,   \* per place and type: an address, "foreign", or "none"
  pc, cmd, flags,
  todo,      \* per invocation: the record sets left, <<host, type, value>>
  had,       \* history: the hosts when the invocation of destroy began
  swallowed, \* history: an error did not count
  calm       \* history: nobody else changed a host or a record since then

world == <<ingress, records>>
local == <<cmd, flags, todo, had>>
vars  == <<setting, world, pc, local, swallowed, calm>>

Commands == {"appDeploy", "appDestroy", "dnsDeploy", "dnsDestroy"}
Flags    == {"dns", "strict", "dry"}
Addresses == IPs \cup {"none", "pending"}

TypeOK ==
  /\ setting \in Settings
  /\ ingress \in [Hosts -> Addresses]
  /\ records \in [Places -> [Types -> IPs \cup {"none", "foreign"}]]
  /\ pc \in [Ops -> {"idle", "release", "list", "apply", "withdraw", "ok", "failed"}]
  /\ cmd \in [Ops -> Commands]
  /\ flags \in [Ops -> SUBSET Flags]
  /\ todo \in [Ops -> SUBSET (Hosts \X Types \X Addresses)]
  /\ had \in [Ops -> SUBSET Hosts]
  /\ swallowed \in [Ops -> BOOLEAN]
  /\ calm \in [Ops -> BOOLEAN]

NoHosts == [h \in Hosts |-> "none"]

Init ==
  /\ setting \in Settings
  /\ ingress = NoHosts
  /\ records = [x \in Places |-> [t \in Types |-> IF <<x, t>> \in Foreign THEN "foreign" ELSE "none"]]
  /\ pc = [p \in Ops |-> "idle"]
  /\ cmd = [p \in Ops |-> "dnsDeploy"]
  /\ flags = [p \in Ops |-> {}]
  /\ todo = [p \in Ops |-> {}]
  /\ had = [p \in Ops |-> {}]
  /\ swallowed = [p \in Ops |-> FALSE]
  /\ calm = [p \in Ops |-> FALSE]

-----------------------------------------------------------------------------

Goto(p, l) == pc' = [pc EXCEPT ![p] = l]
Changes(p) == calm' = [q \in Ops |-> calm[q] /\ q = p]
Swallow(p) == swallowed' = [swallowed EXCEPT ![p] = TRUE]

Ended(p) == pc[p] \in {"idle", "ok", "failed"}

\* Nothing is left of a command that failed.
Fails(p) ==
  /\ Goto(p, "failed")
  /\ todo' = [todo EXCEPT ![p] = {}]
  /\ cmd' = [cmd EXCEPT ![p] = "dnsDeploy"]
  /\ flags' = [flags EXCEPT ![p] = {}]
  /\ had' = [had EXCEPT ![p] = {}]
  /\ swallowed' = [swallowed EXCEPT ![p] = FALSE]
  /\ calm' = [calm EXCEPT ![p] = FALSE]
  /\ UNCHANGED <<setting, world>>

Present == {h \in Hosts : ingress[h] # "none"}

Deploys(p)  == cmd[p] \in {"appDeploy", "dnsDeploy"}
Destroys(p) == cmd[p] \in {"appDestroy", "dnsDestroy"}

\* Mutant of FirstStep: app destroy forgets --update-dns.
FirstStepForgetful(c, fs) ==
  CASE c = "appDeploy"  -> "release"
    [] c = "appDestroy" -> "withdraw"
    [] OTHER -> "list"

\* The records go before the app, and come after it.
FirstStep(c, fs) ==
  CASE c = "appDeploy" -> "release"
    [] c = "appDestroy" /\ "dns" \notin fs -> "withdraw"
    [] OTHER -> "list"

\* The app commands know --update-dns, the dns commands --strict and --dry-run.
Start(p) ==
  /\ Ended(p)
  /\ \E c \in Commands, fs \in SUBSET Flags :
       /\ IF c \in {"appDeploy", "appDestroy"} THEN fs \subseteq {"dns"} ELSE "dns" \in fs
       /\ cmd' = [cmd EXCEPT ![p] = c]
       /\ flags' = [flags EXCEPT ![p] = fs]
       /\ Goto(p, FirstStep(c, fs))
       /\ had' = [had EXCEPT ![p] =
                    IF c \in {"appDestroy", "dnsDestroy"} THEN Present ELSE {}]
  /\ swallowed' = [swallowed EXCEPT ![p] = FALSE]
  /\ calm' = [calm EXCEPT ![p] = TRUE]
  /\ UNCHANGED <<setting, world, todo>>

\* The end of Deploy of the app: some hosts, the new ones without an address.
Release(p) ==
  /\ pc[p] = "release"
  /\ \E hs \in SUBSET Hosts :
       ingress' = [h \in Hosts |-> IF h \notin hs THEN "none"
                                   ELSE IF ingress[h] = "none" THEN "pending" ELSE ingress[h]]
  /\ Goto(p, IF "dns" \in flags[p] THEN "list" ELSE "ok")
  /\ Changes(p)
  /\ UNCHANGED <<setting, records, local, swallowed>>

\* Mutant of RecordTypes: CNAME is left out.
RecordTypesOfAddresses(p) == IF Deploys(p) THEN {"A"} ELSE {"A", "AAAA"}

RecordTypes(p) == IF Deploys(p) THEN {"A"} ELSE Types

\* IngressHostIPs.  A record set to delete has no value.
ListHosts(p) ==
  /\ pc[p] = "list"
  /\ todo' = [todo EXCEPT ![p] =
       {<<h, t, IF Deploys(p) THEN ingress[h] ELSE "none">> : h \in Present, t \in RecordTypes(p)}]
  /\ Goto(p, "apply")
  /\ UNCHANGED <<setting, world, cmd, flags, had, swallowed, calm>>

-----------------------------------------------------------------------------
(* One record set after the other, by host and type.                         *)

At(x, list) == CHOOSE i \in DOMAIN list : list[i] = x
Rank(e)     == 3 * At(e[1], Order) + At(e[2], TypeOrder)

\* The record set at hand.
First(p)  == CHOOSE e \in todo[p] : \A f \in todo[p] : Rank(e) <= Rank(f)
Host(p)   == First(p)[1]
Type(p)   == First(p)[2]
Value(p)  == First(p)[3]
AtWork(p) == pc[p] = "apply" /\ todo[p] # {}

\* collectDNSZoneIDs: without a readable list there is no zone.
Configured == IF setting = None THEN {} ELSE ToSet(setting)

Matching(h) == {z \in Configured : IsSuffix(z, h)}

\* Mutant of Best: the first that matches.
BestFirst(h) == setting[CHOOSE i \in DOMAIN setting :
  setting[i] \in Matching(h) /\ \A j \in 1 .. (i - 1) : setting[j] \notin Matching(h)]

\* selectDNSZone: the longest.
Best(h) == CHOOSE z \in Matching(h) : \A y \in Matching(h) : Len(y) <= Len(z)

Advance(p) == todo' = [todo EXCEPT ![p] = @ \ {First(p)}]

\* An error counts in strict mode.
Error(p) ==
  IF "strict" \in flags[p] THEN Fails(p)
  ELSE /\ Advance(p)
       /\ Swallow(p)
       /\ UNCHANGED <<setting, world, pc, cmd, flags, had, calm>>

\* Mutant of Writable: the address is not looked at.
WritableAny(p) == TRUE

\* A deploy needs the address.
Writable(p) == Value(p) # "pending"

Skip(p) ==
  /\ AtWork(p)
  /\ ~Writable(p)
  /\ IF "strict" \in flags[p] THEN Fails(p)
     ELSE /\ Advance(p)
          /\ UNCHANGED <<setting, world, pc, cmd, flags, had, swallowed, calm>>

\* ClusterDNSApply finds no zone.
NoZone(p) ==
  /\ AtWork(p)
  /\ Writable(p)
  /\ Matching(Host(p)) = {}
  /\ Error(p)

Applicable(p) == AtWork(p) /\ Writable(p) /\ Matching(Host(p)) # {}

DryRun(p) ==
  /\ Applicable(p)
  /\ "dry" \in flags[p]
  /\ Advance(p)
  /\ UNCHANGED <<setting, world, pc, cmd, flags, had, swallowed, calm>>

\* Azure has no other record beside a CNAME of the name.
Free(h) == records[<<Best(h), h>>]["CNAME"] = "none"

\* upsertAzureDNSRecord, deleteAzureDNSRecord.
Write(p) ==
  /\ Applicable(p)
  /\ "dry" \notin flags[p]
  /\ Deploys(p) => Free(Host(p))
  /\ records' = [records EXCEPT ![<<Best(Host(p)), Host(p)>>][Type(p)] = Value(p)]
  /\ Advance(p)
  /\ Changes(p)
  /\ UNCHANGED <<setting, ingress, pc, cmd, flags, had, swallowed>>

\* ... is refused, or fails.
WriteFails(p) ==
  /\ Applicable(p)
  /\ "dry" \notin flags[p]
  /\ Error(p)

Applied(p) ==
  /\ pc[p] = "apply"
  /\ todo[p] = {}
  /\ Goto(p, IF cmd[p] = "appDestroy" THEN "withdraw" ELSE "ok")
  /\ UNCHANGED <<setting, world, local, swallowed, calm>>

\* Destroy of the app, which does not count its errors.
Withdraw(p) ==
  /\ pc[p] = "withdraw"
  /\ \/ ingress' = NoHosts /\ Changes(p) /\ UNCHANGED swallowed
     \/ Swallow(p) /\ UNCHANGED <<ingress, calm>>
  /\ Goto(p, "ok")
  /\ UNCHANGED <<setting, records, local>>

\* Any other request fails, the context ends or the process dies.
Fail(p) == ~Ended(p) /\ Fails(p)

Step(p) ==
  \/ Start(p) \/ Release(p) \/ ListHosts(p) \/ Skip(p) \/ NoZone(p) \/ DryRun(p)
  \/ Write(p) \/ WriteFails(p) \/ Applied(p) \/ Withdraw(p) \/ Fail(p)

\* Traefik gives a host its address, or another one.
Address ==
  /\ \E h \in Hosts, ip \in IPs :
       /\ ingress[h] \notin {"none", ip}
       /\ ingress' = [ingress EXCEPT ![h] = ip]
  /\ calm' = [p \in Ops |-> FALSE]
  /\ UNCHANGED <<setting, records, pc, local, swallowed>>

Next == (\E p \in Ops : Step(p)) \/ Address

Spec == Init /\ [][Next]_vars

-----------------------------------------------------------------------------
(* Properties.                                                               *)

\* The zone that answers for a host: of those that are configured the one which all
\* the others contain.
Answering(h) ==
  CHOOSE z \in Configured : IsSuffix(z, h) /\ \A y \in Matching(h) : IsSuffix(y, z)

\* What a command that succeeds answers for: all, in strict mode, and otherwise when
\* no error was passed over.
Answers(p) ==
  /\ pc[p] = "ok" /\ calm[p]
  /\ "dns" \in flags[p] /\ "dry" \notin flags[p]
  /\ ~swallowed[p] \/ "strict" \in flags[p]

\* dns deploy (usecase/dns/deploy.go:31): where no error was passed over, every host
\* that has an address is found at it, in the zone that answers for it.  In strict
\* mode (Kompox-CLI.ja.md:949) that is every host, as no error is passed over.
DeployResolves ==
  \A p \in Ops : Answers(p) /\ Deploys(p) => \A h \in Hosts :
    ingress[h] \in IPs \/ (ingress[h] = "pending" /\ "strict" \in flags[p]) =>
      /\ Matching(h) # {}
      /\ records[<<Answering(h), h>>]["A"] = ingress[h]

\* dns destroy, and app destroy --update-dns (cmd_app.go:391): where no error was
\* passed over, no record of any type is left of a host there was at the start, in
\* the zone that answers for it.
DestroyClearsRecords ==
  \A p \in Ops : Answers(p) /\ Destroys(p) =>
    /\ \A h \in had[p] :
         Matching(h) # {} /\ \A t \in Types : records[<<Answering(h), h>>][t] = "none"
    /\ cmd[p] = "appDestroy" => ingress = NoHosts

\* Both (usecase/dns/deploy.go:31, usecase/dns/destroy.go:26): the records follow
\* the last command that ended undisturbed.
RecordsFollow == DeployResolves /\ DestroyClearsRecords

\* Hosts whose records point to the load balancer although no ingress has them.
Orphans == {h \in Hosts : ingress[h] = "none" /\ \E z \in Zones :
              <<z, h>> \in Places /\ records[<<z, h>>]["A"] \in IPs}

\* newCmdAppDestroy (cmd_app.go:391): as the hosts are only known from the ingresses,
\* a record without one is out of reach of every later command.  None is left behind
\* but by an app deploy without the host, by a command without --update-dns, by one
\* that passed over an error, and by two at a time.
RecordsGoWithHosts ==
  [][\A h \in Orphans' \ Orphans :
       \E p \in Ops :
         /\ <<pc[p], todo[p]>>' # <<pc[p], todo[p]>>
         /\ \/ pc[p] = "release"
            \/ pc[p] \in {"apply", "withdraw"}
               /\ (~calm[p] \/ swallowed[p] \/ "dns" \notin flags[p])
    ]_vars
-----------------------------------------------------------------------------
(* The inductive invariant.                                                  *)

\* p may still answer for what it does.
Counts(p) ==
  /\ calm[p]
  /\ "dns" \in flags[p] /\ "dry" \notin flags[p]
  /\ ~swallowed[p] \/ "strict" \in flags[p]

Has(h, t, v) == Matching(h) # {} /\ records[<<Best(h), h>>][t] = v

\* The control points know their commands.
Known(p) ==
  /\ pc[p] = "release" => cmd[p] = "appDeploy"
  /\ pc[p] = "withdraw" => cmd[p] = "appDestroy"
  /\ pc[p] \in {"list", "apply"} => "dns" \in flags[p]
  /\ cmd[p] \in {"appDeploy", "appDestroy"} => flags[p] \subseteq {"dns"}

\* A list of record sets is of the kind of its command, and up to date when calm.
Listed(p) ==
  pc[p] = "apply" => \A e \in todo[p] :
    /\ Deploys(p) => e[2] = "A"
    /\ Destroys(p) => e[3] = "none"
    /\ Deploys(p) /\ calm[p] => ingress[e[1]] # "none" /\ e[3] = ingress[e[1]]

\* A host of a deploy is still to come, has been left for want of an address, or is right.
Resolving(p) ==
  pc[p] \in {"apply", "ok"} /\ Deploys(p) /\ Counts(p) => \A h \in Hosts :
    \/ ingress[h] = "none"
    \/ pc[p] = "apply" /\ <<h, "A", ingress[h]>> \in todo[p]
    \/ ingress[h] = "pending" /\ "strict" \notin flags[p]
    \/ Has(h, "A", ingress[h])

\* A record set of a destroy is still to come or is gone.
Clearing(p) ==
  /\ pc[p] \in {"list", "apply", "withdraw"} /\ Destroys(p) /\ calm[p] => had[p] = Present
  /\ pc[p] \in {"apply", "withdraw", "ok"} /\ Destroys(p) /\ Counts(p) =>
       \A h \in had[p], t \in Types :
         \/ pc[p] = "apply" /\ <<h, t, "none">> \in todo[p]
         \/ Has(h, t, "none")
  /\ pc[p] = "ok" /\ cmd[p] = "appDestroy" /\ Counts(p) => ingress = NoHosts

Inv ==
  /\ \A x \in Places : records[x]["A"] \in IPs => Matching(x[2]) # {} /\ x[1] = Best(x[2])
  /\ \A p \in Ops : Known(p) /\ Listed(p) /\ Resolving(p) /\ Clearing(p)
=============================================================================
