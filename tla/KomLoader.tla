----------------------------- MODULE KomLoader -----------------------------
(***************************************************************************)
(* How a command reads the KOM documents at its start                      *)
(* (cmd/kompoxops/kom_loader.go) and makes the domain model of them        *)
(* (config/crd/ops/v1alpha1): the app file with its Defaults, the KOM      *)
(* paths of the first source that gives any, the scan of directories with  *)
(* its limits, the validation in topological order, the sink, the default  *)
(* app, and the creation of the models, level by level.                    *)
(*                                                                         *)
(* A path is the sequence of its components, absolute, clean and with      *)
(* symbolic links resolved; a resource ID the sequence of its <<kind, name>> *)
(* pairs.  What a document holds is reduced to the attributes that some    *)
(* check asks for.  Documents come as entries: see Entry.                  *)
(***************************************************************************)
EXTENDS Naturals, FiniteSets, SequencesExt

CONSTANTS
  Inputs,    \* what commands may find, by number: see InputOK
  Ignored,   \* names of directories that are not scanned
  None,
  MaxDepth,  \* limits of the scan: depth of directories,
  MaxFiles,  \* number of files,
  MaxSize,   \* size of a file,
  MaxTotal,  \* size of all
  MaxRead    \* and of the loader: size of any file

Chain == <<"ws", "prv", "cls", "app", "box">>
Kinds == <<"Workspace", "Provider", "Cluster", "App", "Box">>

Stages == {"app", "paths", "scan", "load", "validate", "default", "models"}

\* kindOrder: also the number of pairs in the ID of a document of this kind.
Level(kind) == CHOOSE l \in 1 .. 5 : Kinds[l] = kind

\* kind: one of Kinds, "Defaults", "foreign" (another apiVersion), or "broken"
\* (not decoded, no kind or name, unknown kind).
IsResource(doc) == doc.kind \in ToSet(Kinds)

IsSequence(s) == s \in Seq(ToSet(s))

\* An input: the files with their documents, their sizes and whether they can be
\* read, the directories, the app file (or directory), the KOM paths of the flag, the environment and the configuration, the default
\* KOM path, and the directories Defaults may refer to.  A file is in directories,
\* and none itself; files and their documents are finitely many.
InputOK(in) ==
  /\ IsFiniteSet(DOMAIN in.files)
  /\ \A p \in DOMAIN in.files \cup in.dirs : IsSequence(p)
  /\ \A f \in DOMAIN in.files :
       /\ f # <<>> /\ f \notin in.dirs
       /\ \A n \in 0 .. Len(f) - 1 : SubSeq(f, 1, n) \in in.dirs
       /\ in.files[f].size \in Nat
       /\ IsFiniteSet(DOMAIN in.files[f].docs)
       /\ \A i \in DOMAIN in.files[f].docs :
            LET doc == in.files[f].docs[i] IN
            /\ IsResource(doc) /\ doc.id # None => IsSequence(doc.id)
            /\ doc.kind = "Defaults" => IsSequence(doc.komPath)
  /\ IsSequence(in.flag) /\ IsSequence(in.env) /\ IsSequence(in.config) /\ IsSequence(in.home)

ASSUME KomAssumption ==
  /\ \A i \in DOMAIN Inputs : InputOK(Inputs[i])
  /\ {MaxDepth, MaxFiles, MaxSize, MaxTotal, MaxRead} \subseteq Nat
  /\ None \notin Stages

VARIABLES
  input,    \* which of the inputs there is; never changes
  pc,       \* the stage
  why,      \* of a failed command: the stage that failed
  defaults, \* the Defaults of the app file, or None
  appDocs,  \* the other documents of the app file
  paths,    \* KOM paths left to scan
  visited,  \* directories scanned
  count, size, \* files found and their sizes so far
  files,    \* KOM files to load
  docs,     \* the documents
  errors,   \* loading or validation found an error
  todo,     \* the documents not validated yet
  valid,    \* the valid ones
  sink,     \* None or the valid documents: KOM mode is enabled
  default,  \* ID of the default app, or None
  repo      \* the models created: ID, and whether local references are allowed

vars == <<input, pc, why, defaults, appDocs, paths, visited, count, size, files,
          docs, errors, todo, valid, sink, default, repo>>

scanned == <<paths, visited, count, size, files>>
checked == <<todo, valid>>

at == Inputs[input]

TypeOK ==
  /\ input \in DOMAIN Inputs
  /\ pc \in Stages \cup {"ok", "failed"}
  /\ why \in Stages \cup {None}
  /\ visited \subseteq at.dirs
  /\ count \in 0 .. MaxFiles
  /\ ~(size > MaxTotal)
  /\ files \subseteq DOMAIN at.files
  /\ Cardinality(files) <= count
  /\ errors \in BOOLEAN
  /\ todo \cup valid \subseteq docs
  /\ todo \cap valid = {}
  /\ \A e \in docs : IsResource(e.doc) /\ e.path \in DOMAIN at.files
  /\ sink # None => sink \subseteq docs

Init ==
  /\ input \in DOMAIN Inputs
  /\ pc = "app"
  /\ why = None
  /\ defaults = None
  /\ appDocs = {}
  /\ paths = <<>> /\ visited = {} /\ count = 0 /\ size = 0 /\ files = {}
  /\ docs = {}
  /\ errors = FALSE
  /\ todo = {} /\ valid = {}
  /\ sink = None
  /\ default = None
  /\ repo = {}

Fail ==
  /\ pc' = "failed"
  /\ why' = pc
  /\ UNCHANGED <<input, defaults, appDocs, scanned, docs, errors, checked, sink,
                 default, repo>>

Goto(stage) == pc' = stage /\ UNCHANGED <<input, why>>

-----------------------------------------------------------------------------
(* Loader.                                                                   *)

\* ExtractResourceID: the pairs are those of the chain down to the document's kind,
\* and the last one has its name.
Identified(doc) ==
  /\ doc.id # None
  /\ Len(doc.id) = Level(doc.kind)
  /\ \A i \in DOMAIN doc.id : doc.id[i][1] = Chain[i]
  /\ Last(doc.id)[2] = doc.name

\* loadFile opens it; its limit is larger than that of the scan.
Readable(f) == at.files[f].opens /\ ~(at.files[f].size > MaxRead)

LoadFails(f) ==
  \/ ~Readable(f)
  \/ \E i \in DOMAIN at.files[f].docs :
       LET doc == at.files[f].docs[i]
       IN doc.kind = "broken" \/ (IsResource(doc) /\ ~Identified(doc))

\* Document i of file f; own if the command read it in the app file as such.
Entry(f, i, own) == [doc |-> at.files[f].docs[i], path |-> f, index |-> i, own |-> own]

Loaded(f, own) ==
  {Entry(f, i, own) : i \in {j \in DOMAIN at.files[f].docs :
                              IsResource(at.files[f].docs[j]) /\ Identified(at.files[f].docs[j])}}

\* The app file whatever its suffix, or, if a directory was given for it, all that
\* are below: no component is ignored here and no limit of the scan applies.
AppFiles ==
  {f \in DOMAIN at.files : f = at.app \/ (IsPrefix(at.app, f) /\ at.files[f].yaml)}

AllDefaults ==
  UNION {{Entry(f, i, TRUE) : i \in {j \in DOMAIN at.files[f].docs :
                                       at.files[f].docs[j].kind = "Defaults"}} : f \in AppFiles}

\* All of it, if it is there, with at most one Defaults.
LoadAppFile ==
  /\ pc = "app"
  /\ \A f \in AppFiles : ~LoadFails(f)
  /\ Cardinality(AllDefaults) <= 1
  /\ defaults' = IF AllDefaults = {} THEN None ELSE (CHOOSE e \in AllDefaults : TRUE).doc
  /\ appDocs' = UNION {Loaded(f, TRUE) : f \in AppFiles}
  /\ Goto("paths")
  /\ UNCHANGED <<scanned, docs, errors, checked, sink, default, repo>>

AppFileFails ==
  /\ pc = "app"
  /\ (\E f \in AppFiles : LoadFails(f)) \/ Cardinality(AllDefaults) > 1
  /\ Fail

-----------------------------------------------------------------------------
(* The KOM paths and the scan.                                               *)

\* The first source that gives paths.
Source ==
  IF at.flag # <<>> THEN "flag"
  ELSE IF at.env # <<>> THEN "env"
  ELSE IF defaults # None /\ defaults.komPath # <<>> THEN "defaults"
  ELSE IF at.config # <<>> THEN "config"
  ELSE "home"

KomPaths ==
  CASE Source = "flag"     -> at.flag
    [] Source = "env"      -> at.env
    [] Source = "defaults" -> defaults.komPath
    [] Source = "config"   -> at.config
    [] Source = "home"     -> <<at.home>>

Exists(p) == p \in at.dirs \/ p \in DOMAIN at.files

\* Only Defaults may not refer to what is elsewhere; a file is one for its suffix.
Allowed(p) ==
  /\ Source = "defaults" => \E b \in at.bounds : IsPrefix(b, p)
  /\ p \in DOMAIN at.files => at.files[p].yaml

ResolvePaths ==
  /\ pc = "paths"
  /\ IF Source = "home" /\ ~Exists(at.home)
       THEN paths' = <<>>
       ELSE /\ \A p \in ToSet(KomPaths) : Exists(p) /\ Allowed(p)
            /\ paths' = KomPaths
  /\ Goto("scan")
  /\ UNCHANGED <<defaults, appDocs, visited, count, size, files, docs, errors,
                 checked, sink, default, repo>>

PathsFail ==
  /\ pc = "paths"
  /\ ~(Source = "home" /\ ~Exists(at.home))
  /\ \E p \in ToSet(KomPaths) : ~(Exists(p) /\ Allowed(p))
  /\ Fail

\* isPathIgnored looks at every component of the full path.
IsIgnored(p) == ToSet(p) \cap Ignored # {}

\* The directories the scan of d comes to: not below one that is ignored or that
\* was scanned before.
Reached(d) ==
  {e \in at.dirs :
     /\ IsPrefix(d, e)
     /\ e # d => ~IsIgnored(e)
     /\ \A v \in visited : IsPrefix(d, v) /\ IsPrefix(v, e) => v = e}

FilesUnder(d) ==
  {f \in DOMAIN at.files :
     at.files[f].yaml /\ ~IsIgnored(f) /\ Front(f) \in Reached(d) \ visited}

TotalSize(fs) == MapThenSumSet(LAMBDA f : at.files[f].size, fs)

\* What the head of the paths adds to the files found: a file given twice counts
\* once, one that is also in a directory twice.
Found ==
  LET p == Head(paths)
  IN IF p \in at.dirs THEN FilesUnder(p) ELSE {p} \ files

\* Mutant of TooMuch: the limit of files is off by one.
TooMuchByOne ==
  \/ Head(paths) \in at.dirs /\
       \E e \in Reached(Head(paths)) : Len(e) > Len(Head(paths)) + MaxDepth
  \/ \E f \in Found : at.files[f].size > MaxSize
  \/ count + Cardinality(Found) > MaxFiles + 1
  \/ size + TotalSize(Found) > MaxTotal

TooMuch ==
  \/ Head(paths) \in at.dirs /\
       \E e \in Reached(Head(paths)) : Len(e) > Len(Head(paths)) + MaxDepth
  \/ \E f \in Found : at.files[f].size > MaxSize
  \/ count + Cardinality(Found) > MaxFiles
  \/ size + TotalSize(Found) > MaxTotal

Scan ==
  /\ pc = "scan"
  /\ paths # <<>>
  /\ ~TooMuch
  /\ paths' = Tail(paths)
  /\ visited' = visited \cup (IF Head(paths) \in at.dirs THEN Reached(Head(paths)) ELSE {})
  /\ count' = count + Cardinality(Found)
  /\ size' = size + TotalSize(Found)
  /\ files' = files \cup Found
  /\ UNCHANGED <<input, pc, why, defaults, appDocs, docs, errors, checked, sink,
                 default, repo>>

ScanFails == pc = "scan" /\ paths # <<>> /\ TooMuch /\ Fail

Scanned ==
  /\ pc = "scan"
  /\ paths = <<>>
  /\ Goto("load")
  /\ UNCHANGED <<defaults, appDocs, scanned, docs, errors, checked, sink, default, repo>>

\* Defaults of other files are skipped; the errors are kept until all is loaded.
\* Nothing depends on the order of the files.
Load ==
  /\ pc = "load"
  /\ \E f \in files :
       /\ Readable(f)
       /\ docs' = docs \cup Loaded(f, FALSE)
       /\ errors' = (errors \/ LoadFails(f))
       /\ files' = files \ {f}
  /\ UNCHANGED <<input, pc, why, defaults, appDocs, paths, visited, count, size,
                 checked, sink, default, repo>>

LoadedAll ==
  /\ pc = "load"
  /\ files = {}
  /\ ~errors
  /\ docs' = docs \cup appDocs
  /\ todo' = docs'
  /\ Goto(IF docs' = {} THEN "ok" ELSE "validate")
  /\ UNCHANGED <<defaults, appDocs, scanned, errors, valid, sink, default, repo>>

\* A file that cannot be read ends it at once.
LoadErrors ==
  /\ pc = "load"
  /\ (files = {} /\ errors) \/ (\E f \in files : ~Readable(f))
  /\ Fail

-----------------------------------------------------------------------------
(* Validate and NewSink.                                                     *)

\* Without an image it is a box of the compose file, which has all from there.
BoxValid(doc) ==
  /\ doc.name # "app"
  /\ "otherComponent" \notin doc.has
  /\ IF "image" \in doc.has THEN "ingress" \notin doc.has
     ELSE doc.has \cap {"command", "args", "ingress"} = {}

IdsOf(entries) == {e.doc.id : e \in entries}

Accepted(doc) ==
  /\ Len(doc.id) = Level(doc.kind)
  /\ doc.id \notin IdsOf(valid)
  /\ doc.kind # "Workspace" => Front(doc.id) \in IdsOf(valid)
  /\ doc.kind = "Box" => BoxValid(doc)

\* Mutant of InOrder: children may come first.
InOrderAny(e, entries) == TRUE

\* sortByTopology.  What follows within a kind makes no difference.
InOrder(e, entries) == \A d \in entries : Level(e.doc.kind) <= Level(d.doc.kind)

Validate ==
  /\ pc = "validate"
  /\ \E e \in todo :
       /\ InOrder(e, todo)
       /\ todo' = todo \ {e}
       /\ IF Accepted(e.doc) THEN valid' = valid \cup {e} /\ UNCHANGED errors
          ELSE errors' = TRUE /\ UNCHANGED valid
  /\ UNCHANGED <<input, pc, why, defaults, appDocs, scanned, docs, sink, default, repo>>

NewSink ==
  /\ pc = "validate"
  /\ todo = {}
  /\ ~errors
  /\ sink' = valid
  /\ Goto("default")
  /\ UNCHANGED <<defaults, appDocs, scanned, docs, errors, checked, default, repo>>

Invalid == pc = "validate" /\ todo = {} /\ errors /\ Fail

\* Mutant of DefaultApp: the first of several apps.
DefaultAppFirst ==
  /\ pc = "default"
  /\ LET apps == {e \in appDocs : e.doc.kind = "App"}
     IN IF defaults # None /\ defaults.appId # None
          THEN /\ defaults.appId # <<>>
               /\ default' = defaults.appId
          ELSE default' = IF apps # {} THEN (CHOOSE e \in apps : TRUE).doc.id ELSE None
  /\ Goto("models")
  /\ UNCHANGED <<defaults, appDocs, scanned, docs, errors, checked, sink, repo>>

\* The default app: of Defaults, if it has the form of an ID, or the only one of
\* the app file.
DefaultApp ==
  /\ pc = "default"
  /\ LET apps == {e \in appDocs : e.doc.kind = "App"}
     IN IF defaults # None /\ defaults.appId # None
          THEN /\ defaults.appId # <<>>
               /\ default' = defaults.appId
          ELSE default' = IF Cardinality(apps) = 1
                            THEN (CHOOSE e \in apps : TRUE).doc.id
                            ELSE None
  /\ Goto("models")
  /\ UNCHANGED <<defaults, appDocs, scanned, docs, errors, checked, sink, repo>>

NoDefaultApp ==
  /\ pc = "default"
  /\ defaults # None
  /\ defaults.appId = <<>>
  /\ Fail

-----------------------------------------------------------------------------
(* Sink.ToModels.                                                            *)

ProtectionRight(doc) == "badLevel" \notin doc.has

DeploymentRight(doc) ==
  /\ ~({"pool", "pools"} \subseteq doc.has)
  /\ ~({"zone", "zones"} \subseteq doc.has)
  /\ "selectors" \notin doc.has

VolumesRight(doc) == "badSize" \notin doc.has

\* Of the ingress rules of a network policy.
RulesRight(doc) ==
  doc.has \cap {"emptyRule", "portsWithoutFrom", "emptySelector", "badOperator",
                "badProtocol", "badPort"} = {}

Convertible(doc) ==
  ProtectionRight(doc) /\ DeploymentRight(doc) /\ VolumesRight(doc) /\ RulesRight(doc)

\* Mutant of Model: every app may have local references.
ModelLocal(entry) == [id |-> entry.doc.id, local |-> entry.doc.kind = "App"]

\* Local references are for apps of the app file.
Model(entry) ==
  [id |-> entry.doc.id, local |-> entry.doc.kind = "App" /\ entry.path = at.app]

NotCreated == {e \in sink : e.doc.id \notin {m.id : m \in repo}}

CreateModel ==
  /\ pc = "models"
  /\ \E e \in NotCreated :
       /\ InOrder(e, NotCreated)
       /\ Convertible(e.doc)
       /\ repo' = repo \cup {Model(e)}
  /\ UNCHANGED <<input, pc, why, defaults, appDocs, scanned, docs, errors, checked,
                 sink, default>>

CreateFails ==
  /\ pc = "models"
  /\ \E e \in NotCreated :
       /\ InOrder(e, NotCreated)
       /\ ~Convertible(e.doc)
  /\ Fail

Created ==
  /\ pc = "models"
  /\ NotCreated = {}
  /\ Goto("ok")
  /\ UNCHANGED <<defaults, appDocs, scanned, docs, errors, checked, sink, default, repo>>

Next ==
  \/ LoadAppFile \/ AppFileFails \/ ResolvePaths \/ PathsFail
  \/ Scan \/ ScanFails \/ Scanned \/ Load \/ LoadedAll \/ LoadErrors
  \/ Validate \/ NewSink \/ Invalid \/ DefaultApp \/ NoDefaultApp
  \/ CreateModel \/ CreateFails \/ Created

Spec == Init /\ [][Next]_vars

-----------------------------------------------------------------------------
(* Properties.                                                               *)

\* What Validate (validator.go:94) stands for, without an order: the IDs are
\* unique, every document but a workspace has its parent, every box is right.
Consistent ==
  /\ \A d, e \in docs : d.doc.id = e.doc.id => d = e
  /\ \A e \in docs :
       /\ e.doc.kind # "Workspace" => Front(e.doc.id) \in IdsOf(docs)
       /\ e.doc.kind = "Box" => BoxValid(e.doc)

\* The files the KOM paths stand for.
Meant ==
  {f \in DOMAIN at.files :
     \E p \in ToSet(KomPaths) :
       f = p \/ (IsPrefix(p, f) /\ at.files[f].yaml /\ ~IsIgnored(f))}

\* All the resources of a file, those without a right ID included.
Resources(f, own) ==
  {Entry(f, i, own) : i \in {j \in DOMAIN at.files[f].docs : IsResource(at.files[f].docs[j])}}

OfMeant == UNION {Resources(f, FALSE) : f \in Meant}
OfApp   == UNION {Resources(f, TRUE) : f \in AppFiles}

\* All or nothing (Kompox-CLI.ja.md:150): KOM mode is only enabled with every
\* document of every file that was meant, and exactly if these are consistent.
SinkTrue ==
  /\ why = "validate" => ~Consistent
  /\ sink # None => Consistent /\ sink = OfMeant \cup OfApp

\* ToModels (sink_tomodels.go:104), wherever it stops: no model is without its
\* parent, only apps of the app file, never those of a directory given for it, may refer
\* to local files, and in the end
\* there is a model for every document.
ModelsTrue ==
  LET ids == {m.id : m \in repo}
  IN /\ \A id \in ids : Len(id) > 1 => Front(id) \in ids
     /\ \A m \in repo : m.local =>
          \E e \in OfApp : e.path = at.app /\ e.doc.id = m.id /\ e.doc.kind = "App"
     /\ pc = "ok" /\ sink # None => ids = {e.doc.id : e \in sink}

\* initializeKOMMode (kom_loader.go:479): a default app that Defaults does not name
\* is the only one of the app file, and it is in the sink.
DefaultIsOurs ==
  default # None /\ (defaults = None \/ defaults.appId = None) =>
    /\ {e \in OfApp : e.doc.kind = "App"} = {e \in sink : e.doc.id = default}
    /\ Len(default) = Level("App")

-----------------------------------------------------------------------------
(* The invariant behind these properties: what each stage leaves behind.     *)

\* The stage the command is in or failed in.
Stage == IF pc = "failed" THEN why ELSE pc

\* The stages that have all documents.
Whole == {"validate", "default", "models", "ok"}

\* The KOM paths to scan: the default one need not exist.
Given == IF Source = "home" /\ ~Exists(at.home) THEN {} ELSE ToSet(KomPaths)

\* The app file has been read to the end, and all of its IDs are right.
AppRead ==
  /\ defaults # None => IsSequence(defaults.komPath)
  /\ IF Stage = "app" THEN appDocs = {}
     ELSE appDocs = OfApp /\ \A e \in appDocs : Identified(e.doc)

\* Below a scanned directory everything is scanned; of the paths that are not
\* left, every file that was meant is found, and no other.
FilesFound ==
  /\ IsSequence(paths)
  /\ \A v \in visited, e \in at.dirs : IsPrefix(v, e) /\ ~IsIgnored(e) => e \in visited
  /\ Stage \in {"app", "paths"} => visited = {} /\ files = {}
  /\ Stage \notin {"app", "paths"} =>
       /\ \A p \in Given : Exists(p)
       /\ ToSet(paths) \subseteq Given
       /\ files \subseteq Meant
  /\ Stage = "scan" =>
       /\ Given \subseteq ToSet(paths) \cup visited \cup files
       /\ \A f \in DOMAIN at.files :
            at.files[f].yaml /\ ~IsIgnored(f) /\ Front(f) \in visited => f \in files

\* Of the files that are not left every document is loaded.
DocsLoaded ==
  /\ Stage \in {"app", "paths", "scan"} => docs = {} /\ ~errors
  /\ Stage = "load" =>
       /\ docs = UNION {Loaded(f, FALSE) : f \in Meant \ files}
       /\ ~errors => \A f \in Meant \ files : ~LoadFails(f)
  /\ Stage \in Whole =>
       /\ docs = OfMeant \cup OfApp
       /\ \A e \in docs : IsResource(e.doc) /\ Identified(e.doc) /\ IsSequence(e.doc.id)

\* What is valid is so whatever comes later, and an error is one for good.
Validated ==
  /\ Stage \in {"app", "paths", "scan", "load"} => todo = {} /\ valid = {}
  /\ todo \cup valid \subseteq docs /\ todo \cap valid = {}
  /\ \A d, e \in valid : d.doc.id = e.doc.id => d = e
  /\ \A e \in valid : /\ e.doc.kind # "Workspace" => Front(e.doc.id) \in IdsOf(valid)
                      /\ e.doc.kind = "Box" => BoxValid(e.doc)
  /\ Stage \in Whole => IF errors THEN ~Consistent ELSE todo \cup valid = docs
  /\ why = "validate" => errors

\* The sink is made of consistent documents, the models of the sink's.
SinkMade ==
  /\ Stage \in {"app", "paths", "scan", "load", "validate"} =>
       sink = None /\ repo = {} /\ default = None
  /\ Stage = "default" => repo = {} /\ default = None
  /\ Stage \in {"default", "models"} \/ sink # None => sink = docs /\ Consistent
  /\ \A m \in repo : \E e \in docs : m = Model(e)

Known ==
  /\ pc = "failed" <=> why # None
  /\ AppRead /\ FilesFound /\ DocsLoaded /\ Validated /\ SinkMade
=============================================================================
