--------------------------- MODULE MCAppConverter ---------------------------
(***************************************************************************)
(* Inputs for AppConverter, in five groups, told apart by the length of their  *)
(* key: ports, rules and hosts; mounts of two services; network rules;     *)
(* disks and boxes; files to read.                                         *)
(***************************************************************************)
EXTENDS AppConverter, TLC

Port(h, c) == [host |-> h, container |-> c]
Vol(type, n, sub, target) == [type |-> type, name |-> n, sub |-> sub, target |-> target, clean |-> TRUE]
Ref(n, target) == [source |-> n, target |-> target]
Service(n, ps, vs, cs, ss) ==
  [name |-> n, env |-> "none", ports |-> ps, volumes |-> vs, configs |-> cs, secrets |-> ss]
Plain(n, ps) == Service(n, ps, <<>>, <<>>, <<>>)
Rule(n, p, hs) == [name |-> n, port |-> p, hosts |-> hs]
Host(l, d) == [label |-> l, port |-> 0, domain |-> d]
Peer(selector, spaces) == [selector |-> selector, spaces |-> spaces]
Disk(n, assigned, handle) == [name |-> n, assigned |-> assigned, handle |-> handle]

Base ==
  [who |-> "app", compose |-> "inline", local |-> TRUE, services |-> {Plain("a", <<>>)},
   configs |-> ("c" :> "inline") @@ ("x" :> "external"), secrets |-> "c" :> "file",
   volumes |-> <<"data", "logs">>, rules |-> <<>>, domain |-> Absent, allow |-> <<>>,
   disks |-> [v \in {"data", "logs", "cfg-c"} |-> {Disk(v, TRUE, TRUE)}], boxMounts |-> <<>>,
   key |-> FALSE]

PortsA == << <<>>, <<Port(80, 8080)>>, <<Port(80, 8080), Port(81, 8080)>>,
             <<Port(80, 8080), Port(81, 8081)>>, <<Port(80, 8080), Port(80, 8081)>>, <<Port(0, 8080)>> >>
PortsB == << <<>>, <<Port(82, 8082)>>, <<Port(82, 8080)>>, <<Port(80, 8080)>>, <<Port(80, 8082)>> >>
Names  == << "b", "me-app2" >>
Hostings == << <<>>, <<Host("www", "own")>>, <<Host("app", "own"), Host("www", "own")>>,
               <<Host("app", "ops")>>, <<Host("www", "own"), Host("www", "own")>> >>
Rules == << <<>>, <<Rule(Absent, 80, <<>>)>>, <<Rule("web", 80, Hostings[3])>> >>
Seconds == << <<Rule("web", 81, <<>>)>>, <<Rule("adm", 81, Hostings[2])>>, <<Rule("adm", 82, <<>>)>>,
              <<Rule("web", 82, Hostings[2])>>, <<Rule("adm", 80, <<>>)>> >>
Domains == << Absent, "ops" >>

\* A rule or two: the hosts of the first, and the second.
RulesOf(k) ==
  IF k <= 3 THEN Rules[k]
  ELSE <<Rule("web", 80, Hostings[((k - 4) % 5) + 1])>> \o Seconds[((k - 4) \div 5) + 1]

Exposed == (1 .. 6) \X (1 .. 5) \X (1 .. 2) \X (1 .. 28) \X (1 .. 2)
ExposedAt(k) ==
  [Base EXCEPT !.services = {Plain("a", PortsA[k[1]]), Plain(Names[k[3]], PortsB[k[2]])},
               !.rules = RulesOf(k[4]), !.domain = Domains[k[5]], !.who = "other"]

Volumes == << <<>>, <<Vol("volume", "logs", Absent, "/v")>>, <<Vol("volume", "logs", "s", "/c")>>,
              <<Vol("bind", Absent, "s", "/v"), Vol("volume", "data", "t", "/run/secrets/c")>>,
              <<Vol("volume", "gone", Absent, "/v")>>, <<Vol("tmpfs", Absent, Absent, "/v")>>,
              <<[Vol("bind", Absent, "s", "/v") EXCEPT !.clean = FALSE]>>,
              <<Vol("volume", "cfg-c", Absent, "/v")>> >>
Configs == << <<>>, <<Ref("c", Absent)>>, <<Ref("c", "/v")>>, <<Ref("c", "/v"), Ref("x", "/v")>>, <<Ref("gone", Absent)>> >>
Secrets == << <<>>, <<Ref("c", Absent)>>, <<Ref("c", "/v")>> >>

\* The last two are what nothing checks: a name twice, and the name of a config's volume.
AppVolumes == << <<>>, <<"data", "logs">>, <<"data", "logs", "data">>, <<"data", "logs", "cfg-c">> >>

Mounted == (1 .. 8) \X (1 .. 5) \X (1 .. 3) \X (1 .. 4) \X (1 .. 3) \X BOOLEAN \X (1 .. 4)
MountedAt(k) ==
  [Base EXCEPT !.services = {Service("a", <<>>, Volumes[k[1]], Configs[k[2]], Secrets[k[3]]),
                              Service("b", <<>>, Volumes[k[4]], Configs[k[5]], <<>>)},
               !.local = k[6], !.secrets = "c" :> "inline",
               !.volumes = AppVolumes[k[7]]]

Peerings == << <<>>, <<Peer("some", {"u"})>>, <<Peer("some", {"u"}), Peer("some", {"v", "own"})>>,
               <<Peer("none", {})>>, <<Peer("empty", {}), Peer("some", {"v"})>> >>
NetRule(f, p) == [from |-> Peerings[f], ports |-> IF p THEN <<1>> ELSE <<>>]

Policed == (1 .. 5) \X BOOLEAN \X (0 .. 5) \X BOOLEAN
PolicedAt(k) ==
  [Base EXCEPT !.who = "other",
               !.allow = <<NetRule(k[1], k[2])>> \o (IF k[3] = 0 THEN <<>> ELSE <<NetRule(k[3], k[4])>>)]

D(assigned) == Disk("d", assigned, TRUE)
E(assigned) == Disk("e", assigned, TRUE)
Disks == << {}, {D(TRUE)}, {D(TRUE), E(FALSE)}, {D(TRUE), E(TRUE)} >>
BoxMount(v, d, path) == [volume |-> v, disk |-> d, path |-> path]
BoxMounts == << <<>>, <<BoxMount("data", E(FALSE), "/m")>>, <<BoxMount("gone", D(TRUE), "/m")>>,
                <<BoxMount("data", D(TRUE), "/m"), BoxMount("data", E(TRUE), "/n")>>,
                <<BoxMount("data", D(TRUE), "/m"), BoxMount("data", D(TRUE), "/n")>>,
                <<BoxMount("data", D(TRUE), "/m"), BoxMount("data", E(TRUE), "/m")>>,
                <<BoxMount("data", D(TRUE), "/m"), BoxMount("data", D(TRUE), "/m")>>,
                <<BoxMount("data", D(TRUE), KeyPath)>> >>

Bounds == (1 .. 4) \X BOOLEAN \X BOOLEAN \X {"app", "box"} \X (1 .. 8) \X BOOLEAN
BoundAt(k) ==
  [Base EXCEPT !.disks = [v \in {"data", "logs"} |-> IF v = "data" THEN Disks[k[1]] ELSE {Disk("l", k[2], k[3])}],
               !.who = k[4], !.boxMounts = BoxMounts[k[5]], !.key = k[6]]

Reading == {"none", "right", "wrong"} \X {"inline", "external", "wrong"} \X {<<"file">>, <<"inline">>, <<"external">>}
ReadingAt(k) ==
  [Base EXCEPT !.services = {[Plain("a", <<>>) EXCEPT !.env = k[1]]}, !.configs = "c" :> k[2],
               !.secrets = "c" :> k[3][1], !.local = k[3][1] # "external",
               !.compose = IF k[3][1] = "inline" THEN "inline" ELSE "file"]

MCInputs ==
  [k \in Exposed \cup Mounted \cup Policed \cup Bounds \cup Reading |->
     CASE Len(k) = 5 -> ExposedAt(k)
       [] Len(k) = 7 -> MountedAt(k)
       [] Len(k) = 4 -> PolicedAt(k)
       [] Len(k) = 6 -> BoundAt(k)
       [] Len(k) = 3 -> ReadingAt(k)]
=============================================================================
