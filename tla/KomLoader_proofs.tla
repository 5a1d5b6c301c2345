-------------------------- MODULE KomLoader_proofs --------------------------
(***************************************************************************)
(* Proofs about KomLoader, for every input and every limit.                *)
(*                                                                         *)
(* Known says what each stage leaves behind.  FilesFound carries the scan: *)
(* visited is closed downwards, up to what is ignored, so that stopping at *)
(* a directory scanned before loses nothing.  Validated carries the        *)
(* validation: a document that is rejected when its turn comes is one that *)
(* is inconsistent with all documents, because its parents had their turn. *)
(***************************************************************************)
EXTENDS KomLoader, TLAPS, SequenceTheorems, FiniteSetTheorems

-----------------------------------------------------------------------------
(* Paths and IDs as sequences.                                               *)

LEMMA SequenceFacts ==
  ASSUME NEW s, IsSequence(s)
  PROVE  /\ Len(s) \in Nat
         /\ DOMAIN s = 1 .. Len(s)
         /\ \A i \in 1 .. Len(s) : s[i] \in ToSet(s)
         /\ \A x \in ToSet(s) : \E i \in 1 .. Len(s) : x = s[i]
         /\ s # <<>> => Len(s) # 0
  <1>1. Len(s) \in Nat /\ DOMAIN s = 1 .. Len(s)
    BY LenProperties DEF IsSequence
  <1>2. s # <<>> => Len(s) # 0
    BY EmptySeq DEF IsSequence
  <1> QED BY <1>1, <1>2 DEF ToSet

LEMMA Part ==
  ASSUME NEW s, IsSequence(s), NEW n \in 0 .. Len(s)
  PROVE  /\ IsSequence(SubSeq(s, 1, n))
         /\ Len(SubSeq(s, 1, n)) = n
         /\ \A i \in 1 .. n : SubSeq(s, 1, n)[i] = s[i]
         /\ ToSet(SubSeq(s, 1, n)) \subseteq ToSet(s)
  <1> DEFINE t == SubSeq(s, 1, n)
  <1>1. Len(s) \in Nat /\ \A i \in 1 .. n : s[i] \in ToSet(s)
    BY SequenceFacts
  <1>2. /\ t \in Seq(ToSet(s))
        /\ Len(t) = n
        /\ \A i \in 1 .. n : t[i] = s[i]
    BY <1>1, SubSeqProperties, n \in Int, 1 \in Int
  <1>3. DOMAIN t = 1 .. n /\ t \in [1 .. n -> ToSet(s)]
    BY <1>2, LenProperties
  <1>4. ToSet(t) \subseteq ToSet(s)
    BY <1>1, <1>2, <1>3 DEF ToSet
  <1>5. t \in Seq(ToSet(t))
    <2>1. \A i \in 1 .. n : t[i] \in ToSet(t)
      BY <1>3 DEF ToSet
    <2>2. t \in [1 .. n -> ToSet(t)]
      BY <1>3, <2>1
    <2>3. n \in Nat
      BY <1>1
    <2> HIDE DEF t
    <2> QED BY <2>2, <2>3, SeqDef
  <1> QED BY <1>2, <1>4, <1>5 DEF IsSequence

\* A prefix, element by element.
LEMMA PrefixIs ==
  ASSUME NEW s, IsSequence(s), NEW t, IsSequence(t)
  PROVE  IsPrefix(s, t) <=> Len(s) <= Len(t) /\ \A i \in 1 .. Len(s) : s[i] = t[i]
  <1>1. Len(s) \in Nat /\ Len(t) \in Nat
    BY SequenceFacts
  <1>2. CASE Len(s) <= Len(t)
    <2> DEFINE a == SubSeq(s, 1, Len(s))
               b == SubSeq(t, 1, Len(s))
    <2>1. /\ IsSequence(a) /\ Len(a) = Len(s) /\ \A i \in 1 .. Len(s) : a[i] = s[i]
          /\ IsSequence(b) /\ Len(b) = Len(s) /\ \A i \in 1 .. Len(s) : b[i] = t[i]
      <3>1. Len(s) \in 0 .. Len(s) /\ Len(s) \in 0 .. Len(t)
        BY <1>1, <1>2
      <3> QED BY <3>1, Part
    <2>2. (\A i \in 1 .. Len(s) : s[i] = t[i]) => a = b
      <3> SUFFICES ASSUME \A i \in 1 .. Len(s) : s[i] = t[i]
                   PROVE  a = b
        OBVIOUS
      <3> HIDE DEF a, b
      <3>1. a \in Seq(ToSet(a) \cup ToSet(b)) /\ b \in Seq(ToSet(a) \cup ToSet(b))
        BY <2>1, SeqMonotonic, Zenon DEF IsSequence
      <3>2. Len(a) = Len(b) /\ \A i \in 1 .. Len(a) : a[i] = b[i]
        BY <2>1
      <3> QED BY <3>1, <3>2, SeqEqual
    <2>3. a = b => \A i \in 1 .. Len(s) : s[i] = t[i]
      BY <2>1
    <2> QED BY <1>2, <2>2, <2>3 DEF IsPrefix
  <1> QED BY <1>1, <1>2 DEF IsPrefix

LEMMA PrefixOfItself ==
  ASSUME NEW s, IsSequence(s)
  PROVE  IsPrefix(s, s)
  BY PrefixIs, SequenceFacts

LEMMA PrefixOfPrefix ==
  ASSUME NEW s, NEW t, NEW u, IsSequence(s), IsSequence(t), IsSequence(u),
         IsPrefix(s, t), IsPrefix(t, u)
  PROVE  IsPrefix(s, u)
  <1>1. Len(s) <= Len(t) /\ \A i \in 1 .. Len(s) : s[i] = t[i]
    BY PrefixIs
  <1>2. Len(t) <= Len(u) /\ \A i \in 1 .. Len(t) : t[i] = u[i]
    BY PrefixIs
  <1>3. Len(s) \in Nat /\ Len(t) \in Nat /\ Len(u) \in Nat
    BY SequenceFacts
  <1>4. Len(s) <= Len(u) /\ \A i \in 1 .. Len(s) : s[i] = u[i]
    BY <1>1, <1>2, <1>3
  <1> QED BY <1>4, PrefixIs

LEMMA PrefixBothWays ==
  ASSUME NEW s, NEW t, IsSequence(s), IsSequence(t), IsPrefix(s, t), IsPrefix(t, s)
  PROVE  s = t
  <1>1. Len(s) <= Len(t) /\ Len(t) <= Len(s) /\ \A i \in 1 .. Len(s) : s[i] = t[i]
    BY PrefixIs
  <1>2. Len(s) \in Nat /\ Len(t) \in Nat
    BY SequenceFacts
  <1>3. s \in Seq(ToSet(s) \cup ToSet(t)) /\ t \in Seq(ToSet(s) \cup ToSet(t))
    BY SeqMonotonic, Zenon DEF IsSequence
  <1>4. Len(s) = Len(t)
    BY <1>1, <1>2
  <1> QED BY <1>1, <1>3, <1>4, SeqEqual

\* The front of a path is the longest path above it.
LEMMA FrontIsAbove ==
  ASSUME NEW f, IsSequence(f), f # <<>>
  PROVE  /\ IsSequence(Front(f)) /\ Len(Front(f)) = Len(f) - 1
         /\ ToSet(Front(f)) \subseteq ToSet(f)
         /\ IsPrefix(Front(f), f)
         /\ \A p : IsSequence(p) /\ IsPrefix(p, f) /\ p # f =>
              /\ IsPrefix(p, Front(f))
              /\ \E n \in 0 .. Len(f) - 1 : p = SubSeq(f, 1, n)
  <1>1. Len(f) \in Nat /\ Len(f) # 0
    BY SequenceFacts
  <1>2. Len(f) - 1 \in 0 .. Len(f)
    BY <1>1
  <1>3. /\ IsSequence(Front(f)) /\ Len(Front(f)) = Len(f) - 1
        /\ ToSet(Front(f)) \subseteq ToSet(f)
        /\ \A i \in 1 .. Len(f) - 1 : Front(f)[i] = f[i]
    BY <1>2, Part DEF Front
  <1>4. IsPrefix(Front(f), f)
    BY <1>1, <1>3, PrefixIs
  <1>5. ASSUME NEW p, IsSequence(p), IsPrefix(p, f), p # f
        PROVE  IsPrefix(p, Front(f)) /\ \E n \in 0 .. Len(f) - 1 : p = SubSeq(f, 1, n)
    <2>1. Len(p) <= Len(f) /\ Len(p) \in Nat /\ \A i \in 1 .. Len(p) : p[i] = f[i]
      BY <1>5, PrefixIs, SequenceFacts
    <2>2. Len(p) # Len(f)
      <3>1. p \in Seq(ToSet(p) \cup ToSet(f)) /\ f \in Seq(ToSet(p) \cup ToSet(f))
        BY <1>5, SeqMonotonic, Zenon DEF IsSequence
      <3> QED BY <1>5, <2>1, <3>1, SeqEqual
    <2>3. IsPrefix(p, Front(f))
      BY <1>1, <1>3, <1>5, <2>1, <2>2, PrefixIs
    <2>4. p = SubSeq(f, 1, Len(p))
      <3>1. p = SubSeq(p, 1, Len(p))
        BY <1>5, SubSeqFull DEF IsSequence
      <3> QED BY <1>5, <3>1 DEF IsPrefix
    <2>5. Len(p) \in 0 .. Len(f) - 1
      BY <1>1, <2>1, <2>2
    <2> QED BY <2>3, <2>4, <2>5
  <1> QED BY <1>3, <1>4, <1>5

\* The head and the tail of a sequence hold what it holds.
LEMMA HeadAndTail ==
  ASSUME NEW s, IsSequence(s), s # <<>>
  PROVE  /\ IsSequence(Tail(s)) /\ Head(s) \in ToSet(s)
         /\ ToSet(s) \subseteq {Head(s)} \cup ToSet(Tail(s))
         /\ ToSet(Tail(s)) \subseteq ToSet(s)
  <1>1. Len(s) \in Nat /\ Len(s) # 0 /\ \A i \in 1 .. Len(s) : s[i] \in ToSet(s)
    BY SequenceFacts
  <1>2. /\ Head(s) = s[1] /\ Head(s) \in ToSet(s)
        /\ Tail(s) \in Seq(ToSet(s)) /\ Len(Tail(s)) = Len(s) - 1
        /\ \A i \in 1 .. Len(s) - 1 : Tail(s)[i] = s[i + 1]
    BY <1>1, HeadTailProperties DEF IsSequence
  <1>3. DOMAIN Tail(s) = 1 .. Len(s) - 1 /\ Tail(s) \in [1 .. Len(s) - 1 -> ToSet(s)]
    BY <1>2, LenProperties
  <1>4. IsSequence(Tail(s))
    <2>1. \A i \in 1 .. Len(s) - 1 : Tail(s)[i] \in ToSet(Tail(s))
      BY <1>3 DEF ToSet
    <2>2. Tail(s) \in [1 .. Len(s) - 1 -> ToSet(Tail(s))]
      BY <1>3, <2>1
    <2>3. Len(s) - 1 \in Nat
      BY <1>1
    <2> QED BY <2>2, <2>3, SeqDef DEF IsSequence
  <1>5. ToSet(Tail(s)) \subseteq ToSet(s)
    <2> SUFFICES ASSUME NEW i \in DOMAIN Tail(s)
                 PROVE  Tail(s)[i] \in ToSet(s)
      BY DEF ToSet
    <2> QED BY <1>3
  <1>6. ToSet(s) \subseteq {Head(s)} \cup ToSet(Tail(s))
    <2> SUFFICES ASSUME NEW x \in ToSet(s), x # Head(s)
                 PROVE  x \in ToSet(Tail(s))
      OBVIOUS
    <2>1. PICK i \in 1 .. Len(s) : x = s[i]
      BY SequenceFacts
    <2>2. i - 1 \in 1 .. Len(s) - 1 /\ (i - 1) + 1 = i
      BY <1>1, <1>2, <2>1
    <2>3. x = Tail(s)[i - 1] /\ i - 1 \in DOMAIN Tail(s)
      BY <1>2, <1>3, <2>1, <2>2
    <2> QED BY <2>3 DEF ToSet
  <1> QED BY <1>2, <1>4, <1>5, <1>6

-----------------------------------------------------------------------------
(* Kinds, inputs, stages.                                                    *)

LEMMA KindFacts ==
  /\ ToSet(Kinds) = {"Workspace", "Provider", "Cluster", "App", "Box"}
  /\ Level("Workspace") = 1 /\ Level("Provider") = 2 /\ Level("Cluster") = 3
  /\ Level("App") = 4 /\ Level("Box") = 5
  <1>1. /\ Kinds[1] = "Workspace" /\ Kinds[2] = "Provider" /\ Kinds[3] = "Cluster"
        /\ Kinds[4] = "App" /\ Kinds[5] = "Box" /\ DOMAIN Kinds = 1 .. 5
    BY DEF Kinds
  <1>2. \A l \in 1 .. 5 : l = 1 \/ l = 2 \/ l = 3 \/ l = 4 \/ l = 5
    OBVIOUS
  <1>3. ToSet(Kinds) = {"Workspace", "Provider", "Cluster", "App", "Box"}
    BY <1>1, <1>2 DEF ToSet
  <1>4. \A l \in 1 .. 5 : /\ Kinds[l] = "Workspace" <=> l = 1
                          /\ Kinds[l] = "Provider" <=> l = 2
                          /\ Kinds[l] = "Cluster" <=> l = 3
                          /\ Kinds[l] = "App" <=> l = 4
                          /\ Kinds[l] = "Box" <=> l = 5
    BY <1>1, <1>2
  <1>5. Level("Workspace") = 1
    BY <1>4 DEF Level
  <1>6. Level("Provider") = 2
    BY <1>4 DEF Level
  <1>7. Level("Cluster") = 3
    BY <1>4 DEF Level
  <1>8. Level("App") = 4
    BY <1>4 DEF Level
  <1>9. Level("Box") = 5
    BY <1>4 DEF Level
  <1> QED BY <1>3, <1>5, <1>6, <1>7, <1>8, <1>9

\* A right ID has a pair for each level; its front names the level above.
LEMMA IdFacts ==
  ASSUME NEW doc, IsResource(doc), Identified(doc), IsSequence(doc.id)
  PROVE  /\ Len(doc.id) = Level(doc.kind) /\ Level(doc.kind) \in 1 .. 5
         /\ Len(doc.id) > 1 <=> doc.kind # "Workspace"
         /\ doc.kind # "Workspace" => Len(Front(doc.id)) = Len(doc.id) - 1
  <1>1. Len(doc.id) = Level(doc.kind)
    BY DEF Identified
  <1>2. Level(doc.kind) \in 1 .. 5 /\ (Level(doc.kind) > 1 <=> doc.kind # "Workspace")
    BY KindFacts DEF IsResource
  <1>3. doc.id # <<>>
    BY <1>1, <1>2, EmptySeq
  <1> QED BY <1>1, <1>2, <1>3, FrontIsAbove

LEMMA InputFacts ==
  ASSUME input \in DOMAIN Inputs
  PROVE  InputOK(at)
  BY KomAssumption DEF at

\* The input and the Defaults say what is meant.
LEMMA SameInput ==
  ASSUME UNCHANGED <<input, defaults>>
  PROVE  /\ at' = at /\ Source' = Source /\ KomPaths' = KomPaths /\ Given' = Given
         /\ Meant' = Meant /\ OfMeant' = OfMeant /\ OfApp' = OfApp
         /\ \A f, own : Loaded(f, own)' = Loaded(f, own)
         /\ \A f, own : Resources(f, own)' = Resources(f, own)
         /\ \A f : LoadFails(f)' = LoadFails(f)
         /\ \A p : Exists(p)' = Exists(p)
  <1>1. at' = at
    BY DEF at
  <1>2. Source' = Source /\ KomPaths' = KomPaths
    BY <1>1 DEF Source, KomPaths
  <1>3. \A p : Exists(p)' = Exists(p)
    BY <1>1 DEF Exists
  <1>4. Given' = Given /\ Meant' = Meant
    BY <1>1, <1>2, <1>3 DEF Given, Meant
  <1>5. \A f, own : Loaded(f, own)' = Loaded(f, own) /\ Resources(f, own)' = Resources(f, own)
    BY <1>1 DEF Loaded, Resources, Entry
  <1>6. \A f : LoadFails(f)' = LoadFails(f)
    BY <1>1 DEF LoadFails, Readable, Identified
  <1>7. OfMeant' = OfMeant /\ OfApp' = OfApp
    BY <1>1, <1>4, <1>5 DEF OfMeant, OfApp, AppFiles
  <1> QED BY <1>1, <1>2, <1>3, <1>4, <1>5, <1>6, <1>7

\* Without failing documents, a file is loaded whole.
LEMMA LoadedWhole ==
  ASSUME NEW f, NEW own, ~LoadFails(f)
  PROVE  Loaded(f, own) = Resources(f, own)
  BY DEF LoadFails, Loaded, Resources

LEMMA LoadedFacts ==
  ASSUME input \in DOMAIN Inputs, NEW f \in DOMAIN at.files, NEW own, NEW e \in Loaded(f, own)
  PROVE  /\ IsResource(e.doc) /\ Identified(e.doc) /\ IsSequence(e.doc.id)
         /\ e.path = f /\ e.own = own
         /\ \E i \in DOMAIN at.files[f].docs : e = Entry(f, i, own)
  <1>1. PICK i \in DOMAIN at.files[f].docs :
          /\ e = Entry(f, i, own)
          /\ IsResource(at.files[f].docs[i]) /\ Identified(at.files[f].docs[i])
    BY DEF Loaded
  <1>2. e.doc = at.files[f].docs[i] /\ e.path = f /\ e.own = own
    BY <1>1 DEF Entry
  <1>3. IsSequence(e.doc.id)
    BY <1>1, <1>2, InputFacts DEF InputOK, Identified
  <1> QED BY <1>1, <1>2, <1>3

\* A missing default path stands for no file: what is below it would be there.
LEMMA MeantIsGiven ==
  ASSUME input \in DOMAIN Inputs, defaults # None => IsSequence(defaults.komPath)
  PROVE  Meant = {f \in DOMAIN at.files :
                    \E p \in Given : f = p \/ (IsPrefix(p, f) /\ at.files[f].yaml /\ ~IsIgnored(f))}
  <1>1. CASE Source = "home" /\ ~Exists(at.home)
    <2>1. KomPaths = <<at.home>> /\ Given = {}
      BY <1>1 DEF KomPaths, Given
    <2>2. ToSet(KomPaths) = {at.home}
      BY <2>1 DEF ToSet
    <2>3. ASSUME NEW f \in DOMAIN at.files, f = at.home \/ IsPrefix(at.home, f)
          PROVE  FALSE
      <3>1. f # at.home
        BY <1>1 DEF Exists
      <3>2. IsSequence(f) /\ f # <<>> /\ IsSequence(at.home)
            /\ \A n \in 0 .. Len(f) - 1 : SubSeq(f, 1, n) \in at.dirs
        BY InputFacts DEF InputOK
      <3>3. at.home \in at.dirs
        BY <2>3, <3>1, <3>2, FrontIsAbove
      <3> QED BY <1>1, <3>3 DEF Exists
    <2> QED BY <2>1, <2>2, <2>3 DEF Meant
  <1>2. CASE ~(Source = "home" /\ ~Exists(at.home))
    BY <1>2 DEF Given, Meant
  <1> QED BY <1>1, <1>2

\* The given paths are paths.
LEMMA GivenFacts ==
  ASSUME input \in DOMAIN Inputs, defaults # None => IsSequence(defaults.komPath)
  PROVE  IsSequence(KomPaths)
  <1>1. IsSequence(at.flag) /\ IsSequence(at.env) /\ IsSequence(at.config)
    BY InputFacts DEF InputOK
  <1>2. IsSequence(<<at.home>>)
    BY DEF IsSequence, ToSet
  <1>3. Source = "defaults" => defaults # None
    BY DEF Source
  <1>4. Source \in {"flag", "env", "defaults", "config", "home"}
    BY DEF Source
  <1> QED BY <1>1, <1>2, <1>3, <1>4 DEF KomPaths

-----------------------------------------------------------------------------
(* What a step that leaves its variables alone keeps.                        *)

LEMMA KeepTypes ==
  ASSUME TypeOK, UNCHANGED <<input, visited, count, size, files, errors, docs, todo, valid, sink>>,
         pc' \in Stages \cup {"ok", "failed"}, why' \in Stages \cup {None}
  PROVE  TypeOK'
  BY DEF TypeOK, at

LEMMA KeepApp ==
  ASSUME AppRead, UNCHANGED <<input, defaults, appDocs>>, Stage = "app" <=> Stage' = "app"
  PROVE  AppRead'
  BY SameInput DEF AppRead

LEMMA KeepFiles ==
  ASSUME FilesFound, UNCHANGED <<input, defaults, paths, visited, files>>,
         Stage' \in {"app", "paths"} <=> Stage \in {"app", "paths"},
         Stage' = "scan" => Stage = "scan"
  PROVE  FilesFound'
  BY SameInput DEF FilesFound

LEMMA KeepDocs ==
  ASSUME DocsLoaded, UNCHANGED <<input, defaults, files, docs, errors>>,
         Stage' \in {"app", "paths", "scan"} => Stage \in {"app", "paths", "scan"},
         Stage' = "load" => Stage = "load",
         Stage' \in Whole => Stage \in Whole
  PROVE  DocsLoaded'
  BY SameInput DEF DocsLoaded, Whole

LEMMA KeepValid ==
  ASSUME Validated, UNCHANGED <<docs, errors, todo, valid>>,
         Stage' \in {"app", "paths", "scan", "load"} => Stage \in {"app", "paths", "scan", "load"},
         Stage' \in Whole => Stage \in Whole,
         why' = "validate" => errors \/ why = "validate"
  PROVE  Validated'
  BY DEF Validated, Consistent, IdsOf

LEMMA KeepSink ==
  ASSUME SinkMade, UNCHANGED <<input, docs, sink, default, repo>>,
         Stage' \in {"app", "paths", "scan", "load", "validate"} =>
           Stage \in {"app", "paths", "scan", "load", "validate"},
         Stage' = "default" => Stage = "default",
         Stage' \in {"default", "models"} => Stage \in {"default", "models"}
  PROVE  SinkMade'
  <1>1. Consistent' = Consistent
    BY DEF Consistent, IdsOf
  <1>2. \A e : Model(e)' = Model(e)
    BY DEF Model, at
  <1> QED BY <1>1, <1>2 DEF SinkMade

LEMMA KeepModels ==
  ASSUME ModelsTrue, UNCHANGED <<input, docs, sink, repo>>, pc' # "ok" \/ sink = None \/ pc = "ok"
  PROVE  ModelsTrue'
  <1>1. OfApp' = OfApp /\ at' = at
    BY DEF OfApp, AppFiles, Resources, Entry, at
  <1> QED BY <1>1 DEF ModelsTrue

LEMMA KeepDefault ==
  ASSUME DefaultIsOurs, UNCHANGED <<input, defaults, default, sink>>
  PROVE  DefaultIsOurs'
  BY SameInput DEF DefaultIsOurs

\* A failure keeps everything but the control point.
LEMMA FailKnown ==
  ASSUME TypeOK, Known, ModelsTrue, DefaultIsOurs, Fail, pc \in Stages,
         pc = "validate" => errors
  PROVE  TypeOK' /\ Known' /\ ModelsTrue' /\ DefaultIsOurs'
  <1>1. /\ pc' = "failed" /\ why' = pc /\ why' # None /\ Stage' = Stage
        /\ UNCHANGED <<input, defaults, appDocs, paths, visited, count, size, files, docs,
                       errors, todo, valid, sink, default, repo>>
    BY KomAssumption DEF Fail, Stage, Stages, scanned, checked
  <1>2. TypeOK'
    BY <1>1, KeepTypes
  <1>3. AppRead' /\ FilesFound'
    BY <1>1, KeepApp, KeepFiles DEF Known
  <1>4. DocsLoaded' /\ Validated'
    BY <1>1, KeepDocs, KeepValid DEF Known
  <1>5. SinkMade' /\ ModelsTrue' /\ DefaultIsOurs'
    BY <1>1, KeepSink, KeepModels, KeepDefault DEF Known
  <1> QED BY <1>1, <1>2, <1>3, <1>4, <1>5 DEF Known

-----------------------------------------------------------------------------
(* The inductive invariant, action by action.                                *)

IInv == TypeOK /\ Known /\ ModelsTrue /\ DefaultIsOurs

LEMMA InitIInv == Init => IInv
  <1> SUFFICES ASSUME Init
               PROVE  IInv
    OBVIOUS
  <1>1. /\ pc = "app" /\ why = None /\ Stage = "app" /\ input \in DOMAIN Inputs
        /\ defaults = None /\ appDocs = {} /\ paths = <<>> /\ visited = {}
        /\ count = 0 /\ size = 0 /\ files = {} /\ docs = {} /\ errors = FALSE
        /\ todo = {} /\ valid = {} /\ sink = None /\ default = None /\ repo = {}
    BY DEF Init, Stage
  <1>2. TypeOK
    <2>1. count \in 0 .. MaxFiles /\ ~(size > MaxTotal) /\ Cardinality(files) <= count
      BY <1>1, KomAssumption, FS_EmptySet
    <2> QED BY <1>1, <2>1 DEF TypeOK, Stages
  <1>3. AppRead
    BY <1>1 DEF AppRead
  <1>4. FilesFound
    <2>1. IsSequence(<<>>)
      BY EmptySeq DEF IsSequence
    <2> QED BY <1>1, <2>1 DEF FilesFound
  <1>5. DocsLoaded
    BY <1>1 DEF DocsLoaded, Whole
  <1>6. Validated
    <2>1. why # "validate"
      BY <1>1, KomAssumption DEF Stages
    <2> QED BY <1>1, <2>1 DEF Validated, Whole
  <1>7. SinkMade
    BY <1>1 DEF SinkMade
  <1>8. ModelsTrue /\ DefaultIsOurs
    BY <1>1 DEF ModelsTrue, DefaultIsOurs
  <1> QED BY <1>1, <1>2, <1>3, <1>4, <1>5, <1>6, <1>7, <1>8 DEF IInv, Known

LEMMA LoadAppFileKnown ==
  ASSUME IInv, LoadAppFile
  PROVE  IInv'
  <1>1. /\ pc = "app" /\ pc' = "paths" /\ why' = why /\ why = None
        /\ Stage = "app" /\ Stage' = "paths"
        /\ UNCHANGED <<input, paths, visited, count, size, files, docs, errors, todo, valid,
                       sink, default, repo>>
        /\ input \in DOMAIN Inputs
    BY DEF LoadAppFile, Goto, scanned, checked, IInv, Known, TypeOK, Stage
  <1>2. TypeOK'
    BY <1>1, KeepTypes DEF IInv, TypeOK, Stages
  <1>3. AppRead'
    <2>1. /\ \A f \in AppFiles : ~LoadFails(f)
          /\ appDocs' = UNION {Loaded(f, TRUE) : f \in AppFiles}
          /\ defaults' = IF AllDefaults = {} THEN None ELSE (CHOOSE e \in AllDefaults : TRUE).doc
      BY DEF LoadAppFile
    <2>2. at' = at /\ AppFiles' = AppFiles /\ AppFiles \subseteq DOMAIN at.files
      BY <1>1 DEF at, AppFiles
    <2>3. OfApp' = OfApp
      BY <2>2 DEF OfApp, Resources, Entry
    <2>4. appDocs' = OfApp
      BY <2>1, LoadedWhole DEF OfApp
    <2>5. \A e \in appDocs' : Identified(e.doc)
      <3> SUFFICES ASSUME NEW f \in AppFiles, NEW e \in Loaded(f, TRUE)
                   PROVE  Identified(e.doc)
        BY <2>1
      <3> QED BY <1>1, <2>2, LoadedFacts
    <2>6. defaults' # None => IsSequence(defaults'.komPath)
      <3>1. CASE AllDefaults # {}
        <4> DEFINE d == CHOOSE e \in AllDefaults : TRUE
        <4>1. d \in AllDefaults /\ defaults' = d.doc
          BY <2>1, <3>1
        <4> HIDE DEF d
        <4>2. PICK f \in AppFiles :
                d \in {Entry(f, i, TRUE) : i \in {j \in DOMAIN at.files[f].docs :
                                                  at.files[f].docs[j].kind = "Defaults"}}
          BY <4>1 DEF AllDefaults
        <4>3. PICK i \in DOMAIN at.files[f].docs :
                d = Entry(f, i, TRUE) /\ at.files[f].docs[i].kind = "Defaults"
          BY <4>2
        <4>4. defaults' = at.files[f].docs[i]
          BY <4>1, <4>3 DEF Entry
        <4>5. f \in DOMAIN at.files
          BY <2>2, <4>2
        <4> QED BY <1>1, <4>3, <4>4, <4>5, InputFacts DEF InputOK
      <3> QED BY <2>1, <3>1
    <2>7. \A e : Identified(e.doc)' = Identified(e.doc)
      BY DEF Identified
    <2> QED BY <1>1, <2>3, <2>4, <2>5, <2>6 DEF AppRead
  <1>4. FilesFound'
    BY <1>1 DEF IInv, Known, FilesFound, at
  <1>5. DocsLoaded'
    BY <1>1 DEF IInv, Known, DocsLoaded, Whole
  <1>6. Validated'
    BY <1>1, KeepValid DEF IInv, Known, Whole
  <1>7. SinkMade' /\ ModelsTrue' /\ DefaultIsOurs'
    <2>1. default' = None
      BY <1>1 DEF IInv, Known, SinkMade
    <2> QED BY <1>1, <2>1, KeepSink, KeepModels DEF IInv, Known, DefaultIsOurs
  <1> QED BY <1>1, <1>2, <1>3, <1>4, <1>5, <1>6, <1>7 DEF IInv, Known

LEMMA ResolvePathsKnown ==
  ASSUME IInv, ResolvePaths
  PROVE  IInv'
  <1>1. /\ pc = "paths" /\ pc' = "scan" /\ why' = why /\ why = None
        /\ Stage = "paths" /\ Stage' = "scan"
        /\ UNCHANGED <<input, defaults, appDocs, visited, count, size, files, docs, errors, todo,
                       valid, sink, default, repo>>
        /\ input \in DOMAIN Inputs
        /\ defaults # None => IsSequence(defaults.komPath)
    BY DEF ResolvePaths, Goto, checked, IInv, Known, TypeOK, Stage, AppRead
  <1>2. TypeOK'
    BY <1>1, KeepTypes DEF IInv, TypeOK, Stages
  <1>3. AppRead'
    BY <1>1, KeepApp DEF IInv, Known
  <1>4. FilesFound'
    <2>1. visited' = {} /\ files' = {}
      BY <1>1 DEF IInv, Known, FilesFound
    <2>2. IsSequence(paths') /\ ToSet(paths') = Given /\ \A p \in Given : Exists(p)
      <3>1. CASE Source = "home" /\ ~Exists(at.home)
        <4>1. IsSequence(<<>>) /\ ToSet(<<>>) = {}
          BY EmptySeq DEF IsSequence, ToSet
        <4> QED BY <3>1, <4>1 DEF ResolvePaths, Given
      <3>2. CASE ~(Source = "home" /\ ~Exists(at.home))
        BY <1>1, <3>2, GivenFacts DEF ResolvePaths, Given
      <3> QED BY <3>1, <3>2
    <2>3. Given' = Given /\ \A p : Exists(p)' = Exists(p)
      BY <1>1, SameInput
    <2> QED BY <1>1, <2>1, <2>2, <2>3 DEF FilesFound
  <1>5. DocsLoaded'
    BY <1>1, KeepDocs DEF IInv, Known, Whole
  <1>6. Validated'
    BY <1>1, KeepValid DEF IInv, Known, Whole
  <1>7. SinkMade' /\ ModelsTrue' /\ DefaultIsOurs'
    BY <1>1, KeepSink, KeepModels, KeepDefault DEF IInv, Known
  <1> QED BY <1>1, <1>2, <1>3, <1>4, <1>5, <1>6, <1>7 DEF IInv, Known

\* Where the scan of a directory comes to.
LEMMA ReachedFacts ==
  ASSUME TypeOK, FilesFound, NEW d \in at.dirs
  PROVE  /\ d \in Reached(d)
         /\ Reached(d) \subseteq at.dirs
         /\ \A v \in visited \cup Reached(d), e \in at.dirs :
              IsPrefix(v, e) /\ ~IsIgnored(e) => e \in visited \cup Reached(d)
  <1>1. \A p \in at.dirs : IsSequence(p)
    BY InputFacts DEF InputOK, TypeOK
  <1>2. visited \subseteq at.dirs
    BY DEF TypeOK
  <1>3. d \in Reached(d)
    <2>1. IsPrefix(d, d)
      BY <1>1, PrefixOfItself
    <2>2. \A v \in visited : IsPrefix(d, v) /\ IsPrefix(v, d) => v = d
      BY <1>1, <1>2, PrefixBothWays
    <2> QED BY <2>1, <2>2 DEF Reached
  <1>4. ASSUME NEW v \in Reached(d), NEW e \in at.dirs, IsPrefix(v, e), ~IsIgnored(e),
               e \notin Reached(d)
        PROVE  e \in visited
    <2>1. IsPrefix(d, v) /\ v \in at.dirs
      BY <1>4 DEF Reached
    <2>2. IsPrefix(d, e)
      BY <1>1, <1>4, <2>1, PrefixOfPrefix
    <2>3. PICK w \in visited : IsPrefix(d, w) /\ IsPrefix(w, e)
      BY <1>4, <2>2 DEF Reached
    <2> QED BY <1>4, <2>3 DEF FilesFound
  <1>5. Reached(d) \subseteq at.dirs
    BY DEF Reached
  <1> QED BY <1>3, <1>4, <1>5 DEF FilesFound

\* What is found is meant.
LEMMA FoundIsMeant ==
  ASSUME IInv, pc = "scan", paths # <<>>
  PROVE  Found \subseteq Meant
  <1> DEFINE p == Head(paths)
  <1>1. /\ Stage = "scan" /\ input \in DOMAIN Inputs
        /\ defaults # None => IsSequence(defaults.komPath)
    BY DEF IInv, TypeOK, Known, AppRead, Stage
  <1>2. p \in Given /\ Exists(p)
    BY <1>1, HeadAndTail DEF IInv, Known, FilesFound
  <1>3. IsSequence(p) /\ \A f \in DOMAIN at.files : IsSequence(f) /\ f # <<>>
    BY <1>1, <1>2, InputFacts DEF InputOK, Exists
  <1>4. ASSUME NEW f \in FilesUnder(p), p \in at.dirs
        PROVE  f \in Meant
    <2>1. /\ f \in DOMAIN at.files /\ at.files[f].yaml /\ ~IsIgnored(f)
          /\ IsPrefix(p, Front(f))
      BY <1>4 DEF FilesUnder, Reached
    <2>2. IsPrefix(p, f)
      <3>1. IsSequence(Front(f)) /\ IsPrefix(Front(f), f)
        BY <1>3, <2>1, FrontIsAbove
      <3> QED BY <1>3, <2>1, <3>1, PrefixOfPrefix
    <2> QED BY <1>1, <1>2, <2>1, <2>2, MeantIsGiven
  <1>5. ASSUME p \notin at.dirs
        PROVE  p \in Meant
    <2>1. p \in DOMAIN at.files
      BY <1>2, <1>5 DEF Exists
    <2> QED BY <1>1, <1>2, <2>1, MeantIsGiven
  <1> QED BY <1>4, <1>5 DEF Found

LEMMA ScanKnown ==
  ASSUME IInv, Scan
  PROVE  IInv'
  <1> DEFINE p == Head(paths)
             more == IF p \in at.dirs THEN Reached(p) ELSE {}
  <1>1. /\ pc = "scan" /\ pc' = "scan" /\ why' = why /\ why = None
        /\ Stage = "scan" /\ Stage' = "scan" /\ paths # <<>> /\ ~TooMuch
        /\ UNCHANGED <<input, defaults, appDocs, docs, errors, todo,
                       valid, sink, default, repo>>
        /\ paths' = Tail(paths) /\ visited' = visited \cup more /\ files' = files \cup Found
        /\ count' = count + Cardinality(Found) /\ size' = size + TotalSize(Found)
        /\ input \in DOMAIN Inputs /\ at' = at
        /\ defaults # None => IsSequence(defaults.komPath)
    BY DEF Scan, checked, IInv, Known, TypeOK, Stage, AppRead, at
  <1>2. Found \subseteq Meant /\ Meant \subseteq DOMAIN at.files
    BY <1>1, FoundIsMeant DEF Meant
  <1>3. p \in Given /\ Exists(p) /\ p \in ToSet(paths)
    BY <1>1, HeadAndTail DEF IInv, Known, FilesFound
  <1>4. /\ p \in at.dirs => p \in more
        /\ more \subseteq at.dirs
        /\ \A v \in visited \cup more, e \in at.dirs :
             IsPrefix(v, e) /\ ~IsIgnored(e) => e \in visited \cup more
    BY ReachedFacts DEF IInv, Known, FilesFound
  <1>5. TypeOK'
    <2>1. visited' \subseteq at'.dirs /\ files' \subseteq DOMAIN at'.files
      BY <1>1, <1>2, <1>4 DEF IInv, TypeOK
    <2>2. ~(count' > MaxFiles) /\ ~(size' > MaxTotal)
      BY <1>1 DEF TooMuch
    <2>3. IsFiniteSet(files) /\ IsFiniteSet(Found)
      <3>1. IsFiniteSet(DOMAIN at.files)
        BY <1>1, InputFacts DEF InputOK
      <3>2. files \subseteq DOMAIN at.files /\ Found \subseteq DOMAIN at.files
        BY <1>2 DEF IInv, TypeOK
      <3> QED BY <3>1, <3>2, FS_Subset
    <2>4. /\ Cardinality(files) \in Nat /\ Cardinality(Found) \in Nat
          /\ Cardinality(files \cap Found) \in Nat
      BY <2>3, FS_Intersection, FS_CardinalityType
    <2>5. count \in Nat /\ MaxFiles \in Nat /\ Cardinality(files) <= count
      BY KomAssumption DEF IInv, TypeOK
    <2>6. count' \in 0 .. MaxFiles
      BY <1>1, <2>2, <2>4, <2>5
    <2>7. Cardinality(files') <= count'
      <3>1. Cardinality(files \cup Found)
              = Cardinality(files) + Cardinality(Found) - Cardinality(files \cap Found)
        BY <2>3, FS_Union
      <3> QED BY <1>1, <2>4, <2>5, <3>1
    <2> QED BY <1>1, <2>1, <2>2, <2>6, <2>7 DEF IInv, TypeOK
  <1>6. AppRead'
    BY <1>1, KeepApp DEF IInv, Known
  <1>7. FilesFound'
    <2>1. IsSequence(paths') /\ ToSet(paths') \subseteq ToSet(paths)
          /\ ToSet(paths) \subseteq {p} \cup ToSet(paths')
      BY <1>1, HeadAndTail DEF IInv, Known, FilesFound
    <2>2. Given' = Given /\ Meant' = Meant /\ \A q : Exists(q)' = Exists(q)
      BY <1>1, SameInput
    <2>3. \A v \in visited', e \in at'.dirs : IsPrefix(v, e) /\ ~IsIgnored(e) => e \in visited'
      BY <1>1, <1>4
    <2>4. /\ \A q \in Given : Exists(q)
          /\ ToSet(paths') \subseteq Given
          /\ files' \subseteq Meant
      BY <1>1, <1>2, <2>1 DEF IInv, Known, FilesFound
    <2>5. Given \subseteq ToSet(paths') \cup visited' \cup files'
      <3>1. p \in visited' \cup files'
        <4>1. CASE p \in at.dirs
          BY <1>1, <1>4, <4>1
        <4>2. CASE p \notin at.dirs
          BY <1>1, <4>2 DEF Found
        <4> QED BY <4>1, <4>2
      <3>2. Given \subseteq ToSet(paths) \cup visited \cup files
        BY <1>1 DEF IInv, Known, FilesFound
      <3> QED BY <1>1, <2>1, <3>1, <3>2
    <2>6. ASSUME NEW f \in DOMAIN at'.files, at'.files[f].yaml, ~IsIgnored(f), Front(f) \in visited'
          PROVE  f \in files'
      <3>1. CASE Front(f) \in visited
        BY <1>1, <2>6, <3>1 DEF IInv, Known, FilesFound
      <3>2. CASE Front(f) \notin visited
        <4>1. p \in at.dirs /\ Front(f) \in Reached(p) \ visited
          BY <1>1, <2>6, <3>2
        <4>2. f \in Found
          BY <1>1, <2>6, <4>1 DEF Found, FilesUnder
        <4> QED BY <1>1, <4>2
      <3> QED BY <3>1, <3>2
    <2> QED BY <1>1, <2>1, <2>2, <2>3, <2>4, <2>5, <2>6 DEF FilesFound
  <1>8. DocsLoaded'
    BY <1>1 DEF IInv, Known, DocsLoaded, Whole
  <1>9. Validated'
    BY <1>1, KeepValid DEF IInv, Known, Whole
  <1>10. SinkMade' /\ ModelsTrue' /\ DefaultIsOurs'
    BY <1>1, KeepSink, KeepModels, KeepDefault DEF IInv, Known
  <1> QED BY <1>1, <1>5, <1>6, <1>7, <1>8, <1>9, <1>10 DEF IInv, Known

\* When no path is left, every file that was meant is found.
LEMMA AllFound ==
  ASSUME IInv, Stage = "scan", paths = <<>>
  PROVE  files = Meant
  <1>1. defaults # None => IsSequence(defaults.komPath)
    BY DEF IInv, Known, AppRead
  <1>2. /\ files \subseteq Meant
        /\ Given \subseteq visited \cup files
        /\ \A p \in Given : Exists(p)
        /\ files \subseteq DOMAIN at.files /\ visited \subseteq at.dirs
    <2>1. ToSet(<<>>) = {}
      BY DEF ToSet
    <2> QED BY <2>1 DEF IInv, Known, FilesFound, TypeOK
  <1>3. input \in DOMAIN Inputs
    BY DEF IInv, TypeOK
  <1>4. ASSUME NEW f \in Meant
        PROVE  f \in files
    <2>1. PICK p \in Given : f = p \/ (IsPrefix(p, f) /\ at.files[f].yaml /\ ~IsIgnored(f))
      BY <1>1, <1>3, MeantIsGiven
    <2>2. f \in DOMAIN at.files /\ IsSequence(f) /\ f # <<>> /\ f \notin at.dirs
          /\ \A n \in 0 .. Len(f) - 1 : SubSeq(f, 1, n) \in at.dirs
      BY <1>3, InputFacts DEF InputOK, Meant
    <2>3. CASE f = p
      BY <1>2, <2>2, <2>3
    <2>4. CASE f # p
      <3>1. IsPrefix(p, f) /\ at.files[f].yaml /\ ~IsIgnored(f)
        BY <2>1, <2>4
      <3>2. IsSequence(p)
        BY <1>2, <1>3, InputFacts DEF InputOK, Exists
      <3>3. p \in at.dirs /\ p \notin DOMAIN at.files
        <4>1. p \in at.dirs
          BY <2>2, <2>4, <3>1, <3>2, FrontIsAbove
        <4> QED BY <1>3, <4>1, InputFacts DEF InputOK
      <3>4. p \in visited
        BY <1>2, <3>3
      <3>5. IsPrefix(p, Front(f)) /\ Front(f) \in at.dirs /\ ~IsIgnored(Front(f))
        <4>1. IsPrefix(p, Front(f)) /\ ToSet(Front(f)) \subseteq ToSet(f)
          BY <2>2, <2>4, <3>1, <3>2, FrontIsAbove
        <4>2. Front(f) \in at.dirs
          <5>1. Len(f) - 1 \in 0 .. Len(f) - 1
            BY <2>2, SequenceFacts
          <5> QED BY <2>2, <5>1 DEF Front
        <4> QED BY <3>1, <4>1, <4>2 DEF IsIgnored
      <3>6. Front(f) \in visited
        BY <3>4, <3>5 DEF IInv, Known, FilesFound
      <3> QED BY <2>2, <3>1, <3>6 DEF IInv, Known, FilesFound
    <2> QED BY <2>3, <2>4
  <1> QED BY <1>2, <1>4

LEMMA ScannedKnown ==
  ASSUME IInv, Scanned
  PROVE  IInv'
  <1>1. /\ pc = "scan" /\ pc' = "load" /\ why' = why /\ why = None
        /\ Stage = "scan" /\ Stage' = "load" /\ paths = <<>>
        /\ UNCHANGED <<input, defaults, appDocs, paths, visited, count, size, files, docs, errors,
                       todo, valid, sink, default, repo>>
    BY DEF Scanned, Goto, scanned, checked, IInv, Known, Stage
  <1>2. TypeOK'
    BY <1>1, KeepTypes DEF IInv, TypeOK, Stages
  <1>3. AppRead' /\ FilesFound'
    BY <1>1, KeepApp, KeepFiles DEF IInv, Known
  <1>4. DocsLoaded'
    <2>1. files' = Meant' /\ docs' = {} /\ ~errors'
      BY <1>1, AllFound, SameInput DEF IInv, Known, DocsLoaded
    <2> QED BY <1>1, <2>1 DEF DocsLoaded, Whole
  <1>5. Validated'
    BY <1>1, KeepValid DEF IInv, Known, Whole
  <1>6. SinkMade' /\ ModelsTrue' /\ DefaultIsOurs'
    BY <1>1, KeepSink, KeepModels, KeepDefault DEF IInv, Known
  <1> QED BY <1>1, <1>2, <1>3, <1>4, <1>5, <1>6 DEF IInv, Known

LEMMA LoadKnown ==
  ASSUME IInv, Load
  PROVE  IInv'
  <1>1. PICK f \in files : /\ docs' = docs \cup Loaded(f, FALSE)
                           /\ errors' = (errors \/ LoadFails(f))
                           /\ files' = files \ {f}
    BY DEF Load
  <1>2. /\ pc = "load" /\ pc' = "load" /\ why' = why /\ why = None
        /\ Stage = "load" /\ Stage' = "load"
        /\ UNCHANGED <<input, defaults, appDocs, paths, visited, count, size,
                       todo, valid, sink, default, repo>>
        /\ input \in DOMAIN Inputs
        /\ at' = at /\ Meant' = Meant
        /\ f \in Meant /\ f \in DOMAIN at.files
    <2>1. /\ pc = "load" /\ pc' = "load" /\ why' = why /\ why = None
          /\ UNCHANGED <<input, defaults, appDocs, paths, visited, count, size,
                         todo, valid, sink, default, repo>>
      BY DEF Load, checked, IInv, Known
    <2>2. Stage = "load" /\ Stage' = "load"
      BY <2>1 DEF Stage
    <2>3. input \in DOMAIN Inputs /\ files \subseteq DOMAIN at.files /\ files \subseteq Meant
      BY <2>2 DEF IInv, TypeOK, Known, FilesFound
    <2> QED BY <1>1, <2>1, <2>2, <2>3, SameInput
  <1>3. TypeOK'
    <2>1. \A e \in docs' : IsResource(e.doc) /\ e.path \in DOMAIN at'.files
      <3>1. \A e \in docs : IsResource(e.doc) /\ e.path \in DOMAIN at.files
        BY DEF IInv, TypeOK
      <3>2. \A e \in Loaded(f, FALSE) : IsResource(e.doc) /\ e.path \in DOMAIN at.files
        BY <1>2, LoadedFacts
      <3> QED BY <1>1, <1>2, <3>1, <3>2
    <2>2. todo' \cup valid' \subseteq docs' /\ (sink' # None => sink' \subseteq docs')
      BY <1>1, <1>2 DEF IInv, TypeOK
    <2>3. errors' \in BOOLEAN
      BY <1>1 DEF LoadFails
    <2>4. Cardinality(files') <= count'
      <3>1. IsFiniteSet(files)
        BY <1>2, InputFacts, FS_Subset DEF InputOK, IInv, TypeOK
      <3>2. IsFiniteSet(files') /\ Cardinality(files') <= Cardinality(files)
        BY <1>1, <3>1, FS_Subset
      <3>3. /\ Cardinality(files') \in Nat /\ Cardinality(files) \in Nat /\ count \in Nat
            /\ Cardinality(files) <= count /\ count' = count
        BY <1>2, <3>1, <3>2, FS_CardinalityType, KomAssumption DEF IInv, TypeOK
      <3> QED BY <3>2, <3>3
    <2> QED BY <1>1, <1>2, <2>1, <2>2, <2>3, <2>4 DEF IInv, TypeOK
  <1>4. AppRead'
    BY <1>2, KeepApp DEF IInv, Known
  <1>5. FilesFound'
    <2>1. Given' = Given /\ \A p : Exists(p)' = Exists(p)
      BY <1>2, SameInput
    <2> QED BY <1>1, <1>2, <2>1 DEF IInv, Known, FilesFound
  <1>6. DocsLoaded'
    <2>1. Meant \ files' = (Meant \ files) \cup {f}
      BY <1>1, <1>2
    <2>2. docs = UNION {Loaded(g, FALSE) : g \in Meant \ files}
      BY <1>2 DEF IInv, Known, DocsLoaded
    <2>3. docs' = UNION {Loaded(g, FALSE) : g \in Meant \ files'}
      BY <1>1, <2>1, <2>2
    <2>4. ~errors' => \A g \in Meant \ files' : ~LoadFails(g)
      BY <1>1, <1>2, <2>1 DEF IInv, Known, DocsLoaded
    <2>5. /\ \A g : Loaded(g, FALSE)' = Loaded(g, FALSE)
          /\ \A g : LoadFails(g)' = LoadFails(g)
      BY <1>2, SameInput
    <2> QED BY <1>2, <2>3, <2>4, <2>5 DEF DocsLoaded, Whole
  <1>7. Validated'
    <2>1. todo' = {} /\ valid' = {} /\ why # "validate"
      BY <1>2, KomAssumption DEF IInv, Known, Validated, Stages
    <2> QED BY <1>2, <2>1 DEF Validated, Whole
  <1>8. SinkMade'
    BY <1>2 DEF IInv, Known, SinkMade
  <1>9. ModelsTrue' /\ DefaultIsOurs'
    BY <1>2, KeepDefault DEF IInv, Known, SinkMade, ModelsTrue
  <1> QED BY <1>2, <1>3, <1>4, <1>5, <1>6, <1>7, <1>8, <1>9 DEF IInv, Known

LEMMA LoadedAllKnown ==
  ASSUME IInv, LoadedAll
  PROVE  IInv'
  <1>1. /\ pc = "load" /\ pc' \in {"ok", "validate"} /\ why' = why /\ why = None
        /\ Stage = "load" /\ Stage' = pc' /\ files = {} /\ ~errors
        /\ UNCHANGED <<input, defaults, appDocs, paths, visited, count, size, files, errors,
                       valid, sink, default, repo>>
        /\ docs' = docs \cup appDocs /\ todo' = docs' /\ valid = {}
        /\ input \in DOMAIN Inputs /\ at' = at
        /\ sink = None /\ repo = {} /\ default = None
    BY DEF LoadedAll, Goto, scanned, IInv, Known, TypeOK, Stage, Validated, SinkMade, at
  <1>2. docs' = OfMeant \cup OfApp
    <2>1. /\ docs = UNION {Loaded(f, FALSE) : f \in Meant}
          /\ \A f \in Meant : ~LoadFails(f)
      BY <1>1 DEF IInv, Known, DocsLoaded
    <2>2. \A f \in Meant : Loaded(f, FALSE) = Resources(f, FALSE)
      BY <2>1, LoadedWhole
    <2>3. docs = OfMeant
      BY <2>1, <2>2 DEF OfMeant
    <2> QED BY <1>1, <2>3 DEF IInv, Known, AppRead
  <1>3. \A e \in docs' : /\ IsResource(e.doc) /\ Identified(e.doc) /\ IsSequence(e.doc.id)
                         /\ e.path \in DOMAIN at.files
    <2>1. \A e \in docs : /\ IsResource(e.doc) /\ Identified(e.doc) /\ IsSequence(e.doc.id)
                          /\ e.path \in DOMAIN at.files
      <3>1. docs = UNION {Loaded(f, FALSE) : f \in Meant}
        BY <1>1 DEF IInv, Known, DocsLoaded
      <3>2. Meant \subseteq DOMAIN at.files
        BY DEF Meant
      <3> SUFFICES ASSUME NEW f \in Meant, NEW e \in Loaded(f, FALSE)
                   PROVE  /\ IsResource(e.doc) /\ Identified(e.doc) /\ IsSequence(e.doc.id)
                          /\ e.path \in DOMAIN at.files
        BY <3>1
      <3> QED BY <1>1, <3>2, LoadedFacts
    <2>2. \A e \in appDocs : /\ IsResource(e.doc) /\ Identified(e.doc) /\ IsSequence(e.doc.id)
                             /\ e.path \in DOMAIN at.files
      <3> SUFFICES ASSUME NEW e \in appDocs
                   PROVE  /\ IsResource(e.doc) /\ Identified(e.doc) /\ IsSequence(e.doc.id)
                          /\ e.path \in DOMAIN at.files
        OBVIOUS
      <3>1. PICK f \in AppFiles : Identified(e.doc) /\ e \in Resources(f, TRUE)
        <4>1. appDocs = OfApp /\ Identified(e.doc)
          BY <1>1 DEF IInv, Known, AppRead
        <4> QED BY <4>1 DEF OfApp
      <3>2. PICK i \in DOMAIN at.files[f].docs :
              e = Entry(f, i, TRUE) /\ IsResource(at.files[f].docs[i])
        BY <3>1 DEF Resources
      <3>3. e.doc = at.files[f].docs[i] /\ e.path = f /\ f \in DOMAIN at.files
        BY <3>2 DEF Entry, AppFiles
      <3>4. IsSequence(e.doc.id)
        BY <1>1, <3>1, <3>2, <3>3, InputFacts DEF InputOK, Identified
      <3> QED BY <3>1, <3>2, <3>3, <3>4
    <2> QED BY <1>1, <2>1, <2>2
  <1>4. TypeOK'
    BY <1>1, <1>3 DEF IInv, TypeOK, Stages
  <1>5. AppRead' /\ FilesFound'
    BY <1>1, KeepApp, KeepFiles DEF IInv, Known
  <1>6. DocsLoaded'
    <2>1. OfMeant' = OfMeant /\ OfApp' = OfApp
      BY <1>1, SameInput
    <2> QED BY <1>1, <1>2, <1>3, <2>1 DEF DocsLoaded
  <1>7. Validated'
    <2>1. why # "validate"
      BY <1>1, KomAssumption DEF Stages
    <2> QED BY <1>1, <2>1 DEF Validated
  <1>8. SinkMade' /\ ModelsTrue' /\ DefaultIsOurs'
    BY <1>1 DEF SinkMade, ModelsTrue, DefaultIsOurs
  <1> QED BY <1>1, <1>4, <1>5, <1>6, <1>7, <1>8 DEF IInv, Known

\* A document that is rejected when its turn comes is inconsistent with the others:
\* all that could be its parent had their turn.
LEMMA RejectedIsInconsistent ==
  ASSUME IInv, Stage = "validate", NEW e \in todo, InOrder(e, todo), ~Accepted(e.doc)
  PROVE  ~Consistent
  <1> SUFFICES ASSUME Consistent
               PROVE  FALSE
    OBVIOUS
  <1>1. todo \cup valid = docs /\ todo \cap valid = {} /\ e \in docs
    BY DEF IInv, Known, Validated, Whole
  <1>2. \A d \in docs : /\ IsResource(d.doc) /\ Identified(d.doc) /\ IsSequence(d.doc.id)
    BY DEF IInv, Known, DocsLoaded, Whole
  <1>3. Len(e.doc.id) = Level(e.doc.kind)
    BY <1>1, <1>2, IdFacts
  <1>4. CASE e.doc.id \in IdsOf(valid)
    BY <1>1, <1>4 DEF Consistent, IdsOf
  <1>5. CASE e.doc.kind # "Workspace" /\ Front(e.doc.id) \notin IdsOf(valid)
    <2>1. PICK d \in docs : d.doc.id = Front(e.doc.id)
      BY <1>1, <1>5 DEF Consistent, IdsOf
    <2>2. Level(d.doc.kind) = Level(e.doc.kind) - 1 /\ Level(e.doc.kind) \in 1 .. 5
      BY <1>1, <1>2, <1>5, <2>1, IdFacts
    <2>3. d \notin todo
      BY <2>2 DEF InOrder
    <2> QED BY <1>1, <1>5, <2>1, <2>3 DEF IdsOf
  <1>6. CASE e.doc.kind = "Box" /\ ~BoxValid(e.doc)
    BY <1>1, <1>6 DEF Consistent
  <1> QED BY <1>3, <1>4, <1>5, <1>6 DEF Accepted

LEMMA ValidateKnown ==
  ASSUME IInv, Validate
  PROVE  IInv'
  <1>1. PICK e \in todo :
          /\ InOrder(e, todo)
          /\ todo' = todo \ {e}
          /\ IF Accepted(e.doc) THEN valid' = valid \cup {e} /\ UNCHANGED errors
             ELSE errors' = TRUE /\ UNCHANGED valid
    BY DEF Validate
  <1>2. /\ pc = "validate" /\ pc' = "validate" /\ why' = why /\ why = None
        /\ Stage = "validate" /\ Stage' = "validate"
        /\ UNCHANGED <<input, defaults, appDocs, paths, visited, count, size, files, docs,
                       sink, default, repo>>
    BY DEF Validate, scanned, IInv, Known, Stage
  <1>3. Consistent' = Consistent
    BY <1>2 DEF Consistent, IdsOf
  <1>4. TypeOK'
    BY <1>1, <1>2 DEF IInv, TypeOK, at
  <1>5. AppRead' /\ FilesFound'
    BY <1>2, KeepApp, KeepFiles DEF IInv, Known
  <1>6. DocsLoaded'
    <2>1. OfMeant' = OfMeant /\ OfApp' = OfApp
      BY <1>2, SameInput
    <2> QED BY <1>2, <2>1 DEF IInv, Known, DocsLoaded, Whole
  <1>7. Validated'
    <2>1. why # "validate"
      BY <1>2, KomAssumption DEF Stages
    <2>2. CASE Accepted(e.doc)
      <3>1. valid' = valid \cup {e} /\ errors' = errors
        BY <1>1, <2>2
      <3>2. \A c, d \in valid' : c.doc.id = d.doc.id => c = d
        BY <2>2, <3>1 DEF IInv, Known, Validated, Accepted, IdsOf
      <3>3. \A d \in valid' : /\ d.doc.kind # "Workspace" => Front(d.doc.id) \in IdsOf(valid')
                              /\ d.doc.kind = "Box" => BoxValid(d.doc)
        <4>1. IdsOf(valid) \subseteq IdsOf(valid')
          BY <3>1 DEF IdsOf
        <4>2. \A d \in valid : /\ d.doc.kind # "Workspace" => Front(d.doc.id) \in IdsOf(valid)
                               /\ d.doc.kind = "Box" => BoxValid(d.doc)
          BY DEF IInv, Known, Validated
        <4>3. /\ e.doc.kind # "Workspace" => Front(e.doc.id) \in IdsOf(valid)
              /\ e.doc.kind = "Box" => BoxValid(e.doc)
          BY <2>2 DEF Accepted
        <4> QED BY <3>1, <4>1, <4>2, <4>3
      <3>4. IF errors' THEN ~Consistent' ELSE todo' \cup valid' = docs'
        BY <1>1, <1>2, <1>3, <3>1 DEF IInv, Known, Validated, Whole
      <3>5. todo' \cup valid' \subseteq docs' /\ todo' \cap valid' = {}
        BY <1>1, <1>2, <3>1 DEF IInv, Known, Validated
      <3>6. IdsOf(valid)' = IdsOf(valid')
        BY DEF IdsOf
      <3> QED BY <1>2, <2>1, <3>2, <3>3, <3>4, <3>5, <3>6 DEF Validated
    <2>3. CASE ~Accepted(e.doc)
      <3>1. errors' /\ valid' = valid /\ ~Consistent'
        BY <1>1, <1>2, <1>3, <2>3, RejectedIsInconsistent
      <3>2. IdsOf(valid)' = IdsOf(valid)
        BY <3>1 DEF IdsOf
      <3>3. todo' \cup valid' \subseteq docs' /\ todo' \cap valid' = {}
        BY <1>1, <1>2, <3>1 DEF IInv, Known, Validated
      <3> QED BY <1>2, <2>1, <3>1, <3>2, <3>3 DEF IInv, Known, Validated
    <2> QED BY <2>2, <2>3
  <1>8. SinkMade' /\ ModelsTrue' /\ DefaultIsOurs'
    BY <1>2, KeepSink, KeepModels, KeepDefault DEF IInv, Known
  <1> QED BY <1>2, <1>4, <1>5, <1>6, <1>7, <1>8 DEF IInv, Known

LEMMA NewSinkKnown ==
  ASSUME IInv, NewSink
  PROVE  IInv'
  <1>1. /\ pc = "validate" /\ pc' = "default" /\ why' = why /\ why = None
        /\ Stage = "validate" /\ Stage' = "default"
        /\ UNCHANGED <<input, defaults, appDocs, paths, visited, count, size, files, docs, errors,
                       todo, valid, default, repo>>
        /\ todo = {} /\ ~errors /\ sink' = valid
        /\ repo = {} /\ default = None
    BY DEF NewSink, Goto, scanned, checked, IInv, Known, Stage, SinkMade
  <1>2. valid = docs
    BY <1>1 DEF IInv, Known, Validated, Whole
  <1>3. Consistent
    BY <1>2 DEF IInv, Known, Validated, Consistent
  <1>4. TypeOK'
    BY <1>1, <1>2 DEF IInv, TypeOK, at, Stages
  <1>5. AppRead' /\ FilesFound'
    BY <1>1, KeepApp, KeepFiles DEF IInv, Known
  <1>6. DocsLoaded' /\ Validated'
    BY <1>1, KeepDocs, KeepValid DEF IInv, Known, Whole
  <1>7. SinkMade'
    <2>1. Consistent'
      BY <1>1, <1>3 DEF Consistent, IdsOf
    <2> QED BY <1>1, <1>2, <2>1 DEF SinkMade
  <1>8. ModelsTrue' /\ DefaultIsOurs'
    BY <1>1 DEF ModelsTrue, DefaultIsOurs
  <1> QED BY <1>1, <1>4, <1>5, <1>6, <1>7, <1>8 DEF IInv, Known

\* The apps of the app file are finitely many, and among the documents.
LEMMA AppFacts ==
  ASSUME IInv, Stage \in {"default", "models"}
  PROVE  /\ appDocs = OfApp /\ OfApp \subseteq docs
         /\ IsFiniteSet({e \in appDocs : e.doc.kind = "App"})
  <1>1. appDocs = OfApp /\ docs = OfMeant \cup OfApp /\ input \in DOMAIN Inputs
    BY DEF IInv, Known, AppRead, DocsLoaded, Whole, TypeOK
  <1>2. IsFiniteSet(OfApp)
    <2>1. ASSUME NEW g \in AppFiles
          PROVE  IsFiniteSet(Resources(g, TRUE))
      <3> DEFINE D == DOMAIN at.files[g].docs
                 f == [i \in D |-> Entry(g, i, TRUE)]
      <3>1. IsFiniteSet(D)
        BY <1>1, InputFacts DEF InputOK, AppFiles
      <3>2. Resources(g, TRUE) \subseteq {f[i] : i \in D}
        BY DEF Resources
      <3>3. IsFiniteSet({f[i] : i \in D})
        <4>1. f \in Surjection(D, {f[i] : i \in D})
          BY DEF Surjection
        <4> HIDE DEF D, f
        <4> QED BY <3>1, <4>1, FS_Surjection
      <3> QED BY <3>2, <3>3, FS_Subset
    <2> DEFINE r == [g \in AppFiles |-> Resources(g, TRUE)]
               All == {r[g] : g \in AppFiles}
    <2>2. IsFiniteSet(AppFiles)
      <3>1. IsFiniteSet(DOMAIN at.files) /\ AppFiles \subseteq DOMAIN at.files
        BY <1>1, InputFacts DEF InputOK, AppFiles
      <3> QED BY <3>1, FS_Subset
    <2>3. r \in Surjection(AppFiles, All)
      BY DEF Surjection
    <2>4. OfApp = UNION All
      BY DEF OfApp
    <2>5. \A T \in All : IsFiniteSet(T)
      BY <2>1
    <2> HIDE DEF r, All
    <2>6. IsFiniteSet(All)
      BY <2>2, <2>3, FS_Surjection
    <2> QED BY <2>4, <2>5, <2>6, FS_UNION
  <1> QED BY <1>1, <1>2, FS_Subset

LEMMA DefaultAppKnown ==
  ASSUME IInv, DefaultApp
  PROVE  IInv'
  <1> DEFINE apps == {e \in appDocs : e.doc.kind = "App"}
  <1>1. /\ pc = "default" /\ pc' = "models" /\ why' = why /\ why = None
        /\ Stage = "default" /\ Stage' = "models"
        /\ UNCHANGED <<input, defaults, appDocs, paths, visited, count, size, files, docs, errors,
                       todo, valid, sink, repo>>
        /\ repo = {} /\ sink = docs /\ Consistent
    BY DEF DefaultApp, Goto, scanned, checked, IInv, Known, Stage, SinkMade
  <1>2. TypeOK'
    BY <1>1, KeepTypes DEF IInv, TypeOK, Stages
  <1>3. AppRead' /\ FilesFound'
    BY <1>1, KeepApp, KeepFiles DEF IInv, Known
  <1>4. DocsLoaded' /\ Validated'
    BY <1>1, KeepDocs, KeepValid DEF IInv, Known, Whole
  <1>5. SinkMade'
    <2>1. Consistent'
      BY <1>1 DEF Consistent, IdsOf
    <2> QED BY <1>1, <2>1 DEF SinkMade
  <1>6. ModelsTrue'
    BY <1>1 DEF ModelsTrue
  <1>7. DefaultIsOurs'
    <2> SUFFICES ASSUME default' # None, defaults = None \/ defaults.appId = None
                 PROVE  /\ {e \in OfApp : e.doc.kind = "App"} = {e \in docs : e.doc.id = default'}
                        /\ Len(default') = Level("App")
      BY <1>1, SameInput DEF DefaultIsOurs
    <2>1. Cardinality(apps) = 1 /\ default' = (CHOOSE e \in apps : TRUE).doc.id
      BY DEF DefaultApp
    <2>2. PICK x : apps = {x}
      BY <1>1, <2>1, AppFacts, FS_Singleton
    <2>3. /\ default' = x.doc.id /\ x \in docs /\ x.doc.kind = "App"
          /\ {e \in OfApp : e.doc.kind = "App"} = {x}
      BY <1>1, <2>1, <2>2, AppFacts
    <2>4. {e \in docs : e.doc.id = default'} = {x}
      BY <1>1, <2>3 DEF Consistent
    <2>5. Len(default') = Level("App")
      BY <1>1, <2>3, IdFacts DEF IInv, Known, DocsLoaded, Whole
    <2> QED BY <2>3, <2>4, <2>5
  <1> QED BY <1>1, <1>2, <1>3, <1>4, <1>5, <1>6, <1>7 DEF IInv, Known

LEMMA CreateModelKnown ==
  ASSUME IInv, CreateModel
  PROVE  IInv'
  <1>1. PICK e \in NotCreated : InOrder(e, NotCreated) /\ repo' = repo \cup {Model(e)}
    BY DEF CreateModel
  <1>2. /\ pc = "models" /\ pc' = "models" /\ why' = why /\ why = None
        /\ Stage = "models" /\ Stage' = "models"
        /\ UNCHANGED <<input, defaults, appDocs, paths, visited, count, size, files, docs, errors,
                       todo, valid, sink, default>>
        /\ sink = docs /\ Consistent /\ e \in docs /\ at' = at
    BY <1>1 DEF CreateModel, scanned, checked, IInv, Known, Stage, SinkMade, NotCreated, at
  <1>3. TypeOK'
    BY <1>2, KeepTypes DEF IInv, TypeOK, Stages
  <1>4. AppRead' /\ FilesFound'
    BY <1>2, KeepApp, KeepFiles DEF IInv, Known
  <1>5. DocsLoaded' /\ Validated'
    BY <1>2, KeepDocs, KeepValid DEF IInv, Known, Whole
  <1>6. SinkMade'
    <2>1. Consistent'
      BY <1>2 DEF Consistent, IdsOf
    <2>2. \A d : Model(d)' = Model(d)
      BY <1>2 DEF Model
    <2> QED BY <1>1, <1>2, <2>1, <2>2 DEF IInv, Known, SinkMade
  <1>7. ModelsTrue'
    <2> DEFINE ids == {m.id : m \in repo}
    <2>1. {m.id : m \in repo}' = ids \cup {e.doc.id}
      <3>1. Model(e).id = e.doc.id
        BY DEF Model
      <3>2. {m.id : m \in repo \cup {Model(e)}} = {m.id : m \in repo} \cup {Model(e).id}
        OBVIOUS
      <3> QED BY <1>1, <3>1, <3>2
    <2>2. \A d \in docs : IsResource(d.doc) /\ Identified(d.doc) /\ IsSequence(d.doc.id)
      BY <1>2 DEF IInv, Known, DocsLoaded, Whole
    <2>3. Len(e.doc.id) > 1 => Front(e.doc.id) \in ids
      <3> SUFFICES ASSUME Len(e.doc.id) > 1, Front(e.doc.id) \notin ids
                   PROVE  FALSE
        OBVIOUS
      <3>1. e.doc.kind # "Workspace"
        BY <1>2, <2>2, IdFacts
      <3>2. PICK d \in docs : d.doc.id = Front(e.doc.id)
        BY <1>2, <3>1 DEF Consistent, IdsOf
      <3>3. d \in NotCreated
        BY <1>2, <3>2 DEF NotCreated
      <3>4. Level(d.doc.kind) = Level(e.doc.kind) - 1 /\ Level(e.doc.kind) \in 1 .. 5
        BY <1>2, <2>2, <3>1, <3>2, IdFacts
      <3> QED BY <1>1, <3>3, <3>4 DEF InOrder
    <2>4. OfApp' = OfApp
      BY <1>2, SameInput
    <2>5. Model(e).local =>
            \E d \in OfApp : d.path = at.app /\ d.doc.id = Model(e).id /\ d.doc.kind = "App"
      <3> SUFFICES ASSUME e.doc.kind = "App", e.path = at.app
                   PROVE  \E d \in OfApp : d.path = at.app /\ d.doc.id = e.doc.id /\ d.doc.kind = "App"
        BY DEF Model
      <3>1. PICK f \in DOMAIN at.files, own \in BOOLEAN : e \in Resources(f, own)
        <4>1. e \in OfMeant \/ e \in OfApp
          BY <1>2 DEF IInv, Known, DocsLoaded, Whole
        <4>2. Meant \subseteq DOMAIN at.files /\ AppFiles \subseteq DOMAIN at.files
          BY DEF Meant, AppFiles
        <4> QED BY <4>1, <4>2 DEF OfMeant, OfApp
      <3>2. PICK i \in DOMAIN at.files[f].docs : e = Entry(f, i, own) /\ IsResource(at.files[f].docs[i])
        BY <3>1 DEF Resources
      <3>3. f = at.app /\ e.doc = at.files[f].docs[i]
        BY <3>2 DEF Entry
      <3>4. /\ Entry(f, i, TRUE) \in Resources(f, TRUE)
            /\ Entry(f, i, TRUE).doc = e.doc /\ Entry(f, i, TRUE).path = at.app
        BY <3>2, <3>3 DEF Resources, Entry
      <3>5. f \in AppFiles
        BY <3>3 DEF AppFiles
      <3> QED BY <3>4, <3>5 DEF OfApp
    <2>6. \A id \in ids : Len(id) > 1 => Front(id) \in ids
      BY DEF IInv, ModelsTrue
    <2>7. \A m \in repo : m.local =>
            \E d \in OfApp : d.path = at.app /\ d.doc.id = m.id /\ d.doc.kind = "App"
      BY DEF IInv, ModelsTrue
    <2>8. \A id \in {m.id : m \in repo}' : Len(id) > 1 => Front(id) \in {m.id : m \in repo}'
      BY <2>1, <2>3, <2>6
    <2>9. \A m \in repo' : m.local =>
            \E d \in OfApp' : d.path = at'.app /\ d.doc.id = m.id /\ d.doc.kind = "App"
      BY <1>1, <1>2, <2>4, <2>5, <2>7
    <2> QED BY <1>2, <2>8, <2>9 DEF ModelsTrue
  <1>8. DefaultIsOurs'
    BY <1>2, KeepDefault DEF IInv
  <1> QED BY <1>2, <1>3, <1>4, <1>5, <1>6, <1>7, <1>8 DEF IInv, Known

LEMMA CreatedKnown ==
  ASSUME IInv, Created
  PROVE  IInv'
  <1>1. /\ pc = "models" /\ pc' = "ok" /\ why' = why /\ why = None
        /\ Stage = "models" /\ Stage' = "ok" /\ NotCreated = {}
        /\ UNCHANGED <<input, defaults, appDocs, paths, visited, count, size, files, docs, errors,
                       todo, valid, sink, default, repo>>
        /\ sink = docs
    BY DEF Created, Goto, scanned, checked, IInv, Known, Stage, SinkMade
  <1>2. TypeOK'
    BY <1>1, KeepTypes DEF IInv, TypeOK, Stages
  <1>3. AppRead' /\ FilesFound'
    BY <1>1, KeepApp, KeepFiles DEF IInv, Known
  <1>4. DocsLoaded' /\ Validated'
    BY <1>1, KeepDocs, KeepValid DEF IInv, Known, Whole
  <1>5. SinkMade' /\ DefaultIsOurs'
    BY <1>1, KeepSink, KeepDefault DEF IInv, Known
  <1>6. ModelsTrue'
    <2>1. {m.id : m \in repo} = {e.doc.id : e \in sink}
      BY <1>1 DEF IInv, Known, SinkMade, NotCreated, Model
    <2>2. OfApp' = OfApp /\ at' = at
      BY <1>1, SameInput
    <2> QED BY <1>1, <2>1, <2>2 DEF IInv, ModelsTrue
  <1> QED BY <1>1, <1>2, <1>3, <1>4, <1>5, <1>6 DEF IInv, Known

LEMMA NextIInv ==
  ASSUME IInv, [Next]_vars
  PROVE  IInv'
  <1>1. CASE UNCHANGED vars
    <2>1. /\ UNCHANGED <<input, pc, why, defaults, appDocs, paths, visited, count, size, files, docs,
                         errors, todo, valid, sink, default, repo>>
          /\ Stage' = Stage
      BY <1>1 DEF vars, Stage
    <2>2. TypeOK'
      BY <2>1, KeepTypes DEF IInv, TypeOK
    <2>3. AppRead' /\ FilesFound'
      BY <2>1, KeepApp, KeepFiles DEF IInv, Known
    <2>4. DocsLoaded' /\ Validated'
      BY <2>1, KeepDocs, KeepValid DEF IInv, Known
    <2>5. SinkMade' /\ ModelsTrue' /\ DefaultIsOurs'
      BY <2>1, KeepSink, KeepModels, KeepDefault DEF IInv, Known
    <2> QED BY <2>1, <2>2, <2>3, <2>4, <2>5 DEF IInv, Known
  <1>2. CASE AppFileFails \/ PathsFail \/ ScanFails \/ LoadErrors \/ Invalid \/ NoDefaultApp
             \/ CreateFails
    <2>1. Fail /\ pc \in Stages /\ (pc = "validate" => errors)
      BY <1>2 DEF AppFileFails, PathsFail, ScanFails, LoadErrors, Invalid, NoDefaultApp, CreateFails,
                  Stages
    <2> QED BY <2>1, FailKnown DEF IInv
  <1> QED BY <1>1, <1>2, LoadAppFileKnown, ResolvePathsKnown, ScanKnown, ScannedKnown, LoadKnown,
             LoadedAllKnown, ValidateKnown, NewSinkKnown, DefaultAppKnown, CreateModelKnown,
             CreatedKnown DEF Next

LEMMA IInvHolds == Spec => []IInv
  BY InitIInv, NextIInv, PTL DEF Spec

-----------------------------------------------------------------------------
(* The theorems.                                                             *)

\* The limits of the scan (kom_loader.go:118) hold whatever the directories hold,
\* and every document loaded is of a file the command found.
THEOREM TypeCorrect == Spec => []TypeOK
  <1>1. IInv => TypeOK
    BY DEF IInv
  <1> QED BY <1>1, IInvHolds, PTL

\* KOM mode is all or nothing (Kompox-CLI.ja.md:150): the sink is made of every
\* document of every file the KOM paths stand for, and of the app file; the
\* validation in topological order (validator.go:102) accepts them exactly if they
\* are consistent.
THEOREM SinkTrueHolds == Spec => []SinkTrue
  <1>1. ASSUME IInv
        PROVE  SinkTrue
    <2>1. why = "validate" => ~Consistent
      <3> SUFFICES ASSUME why = "validate"
                   PROVE  ~Consistent
        OBVIOUS
      <3>1. pc = "failed" /\ Stage = "validate" /\ errors
        BY <1>1, KomAssumption DEF IInv, Known, Validated, Stage, Stages
      <3> QED BY <1>1, <3>1 DEF IInv, Known, Validated, Whole
    <2>2. sink # None => Consistent /\ sink = OfMeant \cup OfApp
      <3> SUFFICES ASSUME sink # None
                   PROVE  Consistent /\ sink = OfMeant \cup OfApp
        OBVIOUS
      <3>1. sink = docs /\ Consistent
            /\ Stage \notin {"app", "paths", "scan", "load", "validate"}
        BY <1>1 DEF IInv, Known, SinkMade
      <3>2. Stage \in Whole
        <4>1. Stage \in Stages \cup {"ok"}
          BY <1>1 DEF IInv, TypeOK, Known, Stage
        <4> QED BY <3>1, <4>1 DEF Stages, Whole
      <3> QED BY <1>1, <3>1, <3>2 DEF IInv, Known, DocsLoaded
    <2> QED BY <2>1, <2>2 DEF SinkTrue
  <1> QED BY <1>1, IInvHolds, PTL

\* ToModels (sink_tomodels.go:104), stopped anywhere by an error, leaves no model
\* without its parent; only apps of the app file may refer to local files; a
\* command that goes on has a model for every document of the sink.
THEOREM ModelsTrueHolds == Spec => []ModelsTrue
  <1>1. IInv => ModelsTrue
    BY DEF IInv
  <1> QED BY <1>1, IInvHolds, PTL

\* The default app (kom_loader.go:479) that nobody named is the only app of the app
\* file, and one of the sink.
THEOREM DefaultIsOursHolds == Spec => []DefaultIsOurs
  <1>1. IInv => DefaultIsOurs
    BY DEF IInv
  <1> QED BY <1>1, IInvHolds, PTL
=============================================================================
