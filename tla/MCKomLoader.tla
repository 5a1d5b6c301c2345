----------------------------- MODULE MCKomLoader -----------------------------
(***************************************************************************)
(* Inputs for KomLoader.  Spreads: nine documents, good and bad, each in   *)
(* the app file, in one of two KOM files or nowhere, all under one path.   *)
(* Layouts: five good documents, under all combinations of sources, paths, *)
(* limits and Defaults, with files that cannot be read or are too large,   *)
(* and directories in place of the app file.                               *)
(***************************************************************************)
EXTENDS KomLoader

Id(n) == SubSeq(<< <<"ws", "w">>, <<"prv", "p">>, <<"cls", "c">>, <<"app", "a">>, <<"box", "x">> >>, 1, n)
Named(n, kind, id, has) == [kind |-> kind, name |-> n, id |-> id, has |-> has]

Ws    == Named("w", "Workspace", Id(1), {})
Prv   == Named("p", "Provider", Id(2), {})
Cls   == Named("c", "Cluster", Id(3), {})
ClsX  == Named("c", "Cluster", Id(3), {"badLevel"})
App   == Named("a", "App", Id(4), {"pool"})
AppX  == Named("a", "App", Id(4), {"pool", "pools"})
AppB  == Named("b", "App", Append(Id(3), <<"app", "b">>), {})
Box   == Named("x", "Box", Id(5), {"image", "command"})
BoxR  == Named("x", "Box", Id(5), {"badPort"})
BoxX  == Named("x", "Box", Id(5), {"command"})
Wrong == Named("q", "App", Id(3), {})
Broken == [kind |-> "broken"]
Foreign == [kind |-> "foreign"]
Def(ps, id) == [kind |-> "Defaults", komPath |-> ps, appId |-> id]

AppFile == <<"root", "kompoxapp">>
AppDir  == <<"root", "app">>
K  == <<"root", "kom">>
K1 == <<"root", "kom", "k1">>
S  == <<"root", "kom", "sub">>
K2 == <<"root", "kom", "sub", "k2">>
Deep == <<"root", "kom", "sub", "deep">>
K3 == <<"root", "kom", "sub", "deep", "k3">>
G  == <<"root", "kom", "build">>
KG == <<"root", "kom", "build", "kg">>
Txt == <<"root", "kom", "note">>
Out == <<"out">>
KO == <<"out", "ko">>

MCFile(ds, n, y) == [docs |-> ds, size |-> n, yaml |-> y, opens |-> TRUE]
Locked(ds) == [MCFile(ds, 1, TRUE) EXCEPT !.opens = FALSE]

\* The app file, or a directory in its place: its files.
AsFile(f) == AppFile :> f
AsDirectory(ds, others) ==
  (AppDir \o <<"a">> :> MCFile(ds, 1, TRUE)) @@ (AppDir \o <<"build", "b">> :> MCFile(others, 3, TRUE))
    @@ (AppDir \o <<"note">> :> MCFile(<<Broken>>, 1, FALSE))

Input(own, k1, k2, more, flag, env, config) ==
  [files |-> own @@ (K1 :> MCFile(k1, 1, TRUE))
               @@ (K2 :> MCFile(k2, 1, TRUE)) @@ (KG :> MCFile(<<Broken>>, 1, TRUE))
               @@ (Txt :> MCFile(<<Broken>>, 1, FALSE)) @@ more,
   dirs  |-> {<<>>, <<"root">>, K, S, G, Out} \cup {Front(f) : f \in DOMAIN more}
               \cup (IF AppFile \in DOMAIN own THEN {} ELSE {AppDir, AppDir \o <<"build">>}),
   app   |-> IF AppFile \in DOMAIN own THEN AppFile ELSE AppDir, flag |-> flag, env |-> env, config |-> config,
   home  |-> <<"root", "home">>, bounds |-> {<<"root">>}]

\* Where each document of the pool is: 0 nowhere, 1 and 2 the KOM files, 3 the app file.
Pool   == <<Ws, Prv, Cls, AppB, Box, AppX, ClsX, App, BoxX>>
Spread == {0, 1, 3} \X {0, 1, 3} \X {0, 1, 3} \X {0, 3} \X (0 .. 3) \X {0, 2} \X {0, 2}
            \X (0 .. 3) \X {0, 2}
At(g, place) ==
  LET is == SelectSeq(<<1, 2, 3, 4, 5, 6, 7, 8, 9>>, LAMBDA i : g[i] = place)
  IN [n \in DOMAIN is |-> Pool[is[n]]]
Spreading(g) == Input(AsFile(MCFile(At(g, 3), 1, TRUE)), At(g, 1), At(g, 2), <<>>, <<K>>, <<>>, <<>>)

Good == <<Ws, Prv, Cls, App>>
AppDocs == << <<Foreign>>, <<App, Def(<<K1>>, None)>>, <<Def(<<KO>>, None)>>,
              <<Def(<<K>>, Id(4)), AppB>>, <<Def(<<>>, Id(3))>>, <<Def(<<>>, <<>>)>>,
              <<Def(<<>>, None), Def(<<>>, None)>>, <<Wrong>> >>
Owns     == [i \in DOMAIN AppDocs |-> AsFile(MCFile(AppDocs[i], 1, TRUE))]
              \o << AsFile(MCFile(<<AppB>>, 3, FALSE)), AsFile(MCFile(<<AppB>>, 4, TRUE)),
                    AsFile(Locked(<<AppB>>)), AsDirectory(<<App, Def(<<K1>>, None)>>, <<Foreign>>),
                    AsDirectory(<<Def(<<>>, None)>>, <<Def(<<>>, None)>>),
                    AsDirectory(<<App>>, <<AppB>>), AsDirectory(<<>>, <<Wrong>>) >>
Firsts   == << Good, <<Ws, Prv, Cls>>, Good \o <<Broken>>, <<Def(<<K>>, None), Foreign>> \o Good >>
Seconds  == << <<Box>>, <<Wrong>>, <<BoxR>> >>
Mores    == << <<>>, K3 :> MCFile(<<AppB>>, 1, TRUE), KO :> MCFile(<<AppB>>, 2, TRUE),
               <<"root", "kom", "big">> :> MCFile(<<>>, 3, TRUE),
               <<"root", "kom", "sub", "locked">> :> Locked(<<>>),
               <<"root", "kom", "k4">> :> MCFile(<<Foreign>>, 1, TRUE),
               <<"root", "home", "kh">> :> MCFile(Good, 1, TRUE) >>
Flags    == << <<>>, <<K>>, <<K1, K>>, <<S, K1>>, <<KG, AppFile>>, <<Txt>> >>
Envs     == << <<>>, <<<<"root", "gone">>>> >>
Configs  == << <<>>, <<K>> >>
Layout   == (1 .. 15) \X (1 .. 4) \X (1 .. 3) \X (1 .. 7) \X (1 .. 6) \X (1 .. 2) \X (1 .. 2)
LaidOut(l) ==
  Input(Owns[l[1]], Firsts[l[2]], Seconds[l[3]], Mores[l[4]], Flags[l[5]], Envs[l[6]],
        Configs[l[7]])

MCInputs == [k \in Spread \cup Layout |-> IF Len(k) = 9 THEN Spreading(k) ELSE LaidOut(k)]
=============================================================================
