------------------------------ MODULE WebLayer ------------------------------
(***************************************************************************)
(* The web layer of the kernel (applyWebArtifacts() in                     *)
(* packages/core/src/kernel.ts): from the artifacts stored by the designer *)
(* to a registry, with the invalid ones isolated and reported, and to the  *)
(* order in which the scripts run.  Designer.tla takes a registry for a    *)
(* closed set of versions; here it is what registry.ts builds.             *)
(*                                                                         *)
(* A row of FW_WebArtifact is its artifact; two artifacts of Artifacts may *)
(* have the same name, and the table keeps one of them.                    *)
(***************************************************************************)
EXTENDS Registry

CONSTANTS
    BootApps,     \* the file apps in boot order: [manifest, artifacts]
    Artifacts,    \* what may be stored; a manifest has the kind app
    InitialStore, \* the rows of FW_WebArtifact at the first start
    MaxEdits

ASSUME WebLayerAssumption ==
    /\ ToSet(InitialStore) \subseteq Artifacts
    /\ {art.name : art \in Artifacts} \subseteq ToSet(NameOrder)
    /\ MaxEdits \in Nat

VARIABLES
    stored,     \* FW_WebArtifact in row order
    built,      \* the candidate the registry was built from
    registry,   \* the live registry
    accepted,   \* its web artifacts
    errors,     \* what the last apply that built a registry reported
    handlers,   \* the scripts in the order they ran
    execSig,    \* executableSignature: {} or the executables it stands for
    okSig,      \* successfulWebSignature: {} or the candidate it stands for
    pc, edits
runtime == <<built, registry, accepted, errors, handlers, execSig, okSig>>
vars == <<stored, runtime, pc, edits>>

-----------------------------------------------------------------------------
(* The candidate in the order it is registered: by kind, else row order.   *)

WEB_KIND_ORDER ==
    <<"report", "app", "enum", "table", "translation", "dataEntity", "view", "chart", "privilege",
      "duty", "role", "script", "function", "tableExtension", "enumExtension",
      "dataEntityExtension", "form", "formExtension", "menu", "menuExtension",
      "privilegeExtension", "dutyExtension", "roleExtension", "scriptExtension", "viewExtension",
      "chartExtension", "functionExtension">>
Sorted(candidate) ==
    FoldLeft(LAMBDA done, kind : done \o SelectSeq(candidate, LAMBDA art : art.kind = kind),
             << >>, WEB_KIND_ORDER)

FileApps == {BootApps[i].manifest.name : i \in DOMAIN BootApps}
Manifests(candidate) ==
    LET arts == {art \in ToSet(candidate) : art.kind = "app"} IN
    [n \in {art.name : art \in arts} |-> CHOOSE art \in arts : art.name = n]

(* Apps that miss a dependency, are on a cycle of dependencies or depend on*)
(* such an app: those no order of registration reaches.                    *)
InvalidApps(manifests) ==
    LET Reached(X) == \A a \in DOMAIN manifests :
                         manifests[a].dependsOn \subseteq FileApps \union X => a \in X
    IN {a \in DOMAIN manifests : \E X \in SUBSET DOMAIN manifests : Reached(X) /\ a \notin X}
ValidManifests(candidate) ==
    LET all == Manifests(candidate) IN
    [a \in DOMAIN all \ InvalidApps(all) |-> all[a]]
Regular(candidate) ==
    LET invalid == InvalidApps(Manifests(candidate)) IN
    SelectSeq(Sorted(candidate), LAMBDA art : art.kind # "app" /\ art.app \notin invalid)

-----------------------------------------------------------------------------
(* build(): the boot apps, then each app of the candidate after the apps it*)
(* depends on, otherwise by the layer of its first model and its name.     *)

FirstLayer(manifests, app) ==
    IF app \in DOMAIN manifests /\ manifests[app].models # {}
    THEN (CHOOSE m \in manifests[app].models :
             \A n \in manifests[app].models : m.rank <= n.rank).layer
    ELSE SYS
AppOrder(manifests, apps) ==
    LET Before(a, b) ==
            \/ FirstLayer(manifests, a) < FirstLayer(manifests, b)
            \/ /\ FirstLayer(manifests, a) = FirstLayer(manifests, b)
               /\ Rank(a) < Rank(b)
        First(X) == CHOOSE a \in X : \A b \in X \ {a} : Before(a, b)
        deps == [a \in apps |->
                   IF a \in DOMAIN manifests THEN manifests[a].dependsOn \intersect apps ELSE {}]
        (* what visit() of an app reaches before the app itself            *)
        Visited(a, placed) ==
            {x \in apps \ placed : \A X \in SUBSET apps :
                (a \in X /\ \A y \in X : deps[y] \subseteq X) => x \in X}
        Next(placed) ==
            LET open == Visited(First(apps \ placed), placed) IN
            First({x \in open : deps[x] \subseteq placed})
        order[n \in 0 .. Cardinality(apps)] ==
            IF n = 0 THEN << >> ELSE Append(order[n - 1], Next(ToSet(order[n - 1])))
    IN order[Cardinality(apps)]

BootRegistry ==
    FoldLeft(LAMBDA r, step : registerApp(r, step.manifest, step.artifacts), EmptyRegistry, BootApps)

Build(manifests, apps, arts) ==
    LET ArtifactsOf(app) == SelectSeq(arts, LAMBDA art : art.app = app)
        RegisterNext(r, app) ==
            IF ArtifactsOf(app) = << >> /\ (app \in FileApps \/ app \notin DOMAIN manifests) THEN r
            ELSE registerWebArtifacts(
                     IF app \in FileApps THEN r
                     ELSE WithManifest(r, IF app \in DOMAIN manifests THEN manifests[app]
                                          ELSE AppManifest(app, {}, {})),
                     app, ArtifactsOf(app))
    IN FoldLeft(RegisterNext, BootRegistry, AppOrder(manifests, apps))

(* The isolation path goes over the remaining artifacts until a pass adds  *)
(* none; each is accepted when the registry builds with it added.          *)
Pass(manifests, apps, from) ==
    FoldLeft(LAMBDA s, art :
                 IF Build(manifests, apps, Append(s.accepted, art)).ok
                 THEN [s EXCEPT !.accepted = Append(@, art), !.done = FALSE]
                 ELSE [s EXCEPT !.remaining = Append(@, art)],
             [from EXCEPT !.remaining = << >>, !.done = TRUE], from.remaining)
Unsorted(regular) == [accepted |-> << >>, remaining |-> regular, done |-> FALSE]

(* Mutant: one pass only.                                                  *)
IsolateOnce(manifests, apps, regular) == Pass(manifests, apps, Unsorted(regular))

Isolate(manifests, apps, regular) ==
    LET passes[n \in Nat] ==
            IF n = 0 THEN Unsorted(regular)
            ELSE LET before == passes[n - 1] IN
                 IF before.done THEN before ELSE Pass(manifests, apps, before)
    IN passes[Len(regular) + 1]

(* The fast path takes the whole set when the registry builds from it.     *)
Accept(candidate) ==
    LET manifests == ValidManifests(candidate)
        regular == Regular(candidate)
        apps == DOMAIN manifests \union {art.app : art \in ToSet(regular)}
        Final(parts) == [accepted |-> parts.accepted, remaining |-> parts.remaining,
                         registry |-> Build(manifests, apps, parts.accepted)]
    IN Final(IF Build(manifests, apps, regular).ok
             THEN [accepted |-> regular, remaining |-> << >>]
             ELSE Isolate(manifests, apps, regular))

-----------------------------------------------------------------------------
(* orderScriptsForExecution(): base scripts by layer and name, each with   *)
(* its extensions behind it, then the extensions of scripts of file apps.  *)

LayerOf(r, art) == ModelOf(r.manifests[art.app], art.model).layer
(* Mutant: scripts run in the order they are stored.                       *)
orderScriptsStored(r, arts) ==
    SelectSeq(arts, LAMBDA art : art.kind \in {"script", "scriptExtension"})

orderScripts(r, arts) ==
    LET Earlier(a, b) == \/ LayerOf(r, a) < LayerOf(r, b)
                         \/ LayerOf(r, a) = LayerOf(r, b) /\ Rank(a.name) < Rank(b.name)
        bases == SortSeq(SelectSeq(arts, LAMBDA art : art.kind = "script"), Earlier)
        extensions == SortSeq(SelectSeq(arts, LAMBDA art : art.kind = "scriptExtension"), Earlier)
        Of(base) == SelectSeq(extensions, LAMBDA x : x.target = base.name)
        named == {bases[i].name : i \in DOMAIN bases}
    IN FlattenSeq([i \in DOMAIN bases |-> <<bases[i]>> \o Of(bases[i])])
         \o SelectSeq(extensions, LAMBDA x : x.target \notin named)

Executables == {"script", "scriptExtension", "function", "functionExtension"}

(* Mutant: an app that is isolated is not reported.                        *)
ReportedArtifacts(candidate, result) == ToSet(result.remaining)

Reported(candidate, result) ==
    ToSet(result.remaining)
        \union {art \in ToSet(candidate) :
                  art.kind = "app" /\ art.name \in InvalidApps(Manifests(candidate))}

(* applyWebArtifacts(): nothing when the candidate is the last one applied *)
(* without errors; otherwise the registry is replaced, whatever was        *)
(* reported, and the scripts run again when the executables differ.  The   *)
(* caller stores the candidate, unless what it put in is reported.         *)
applyWebArtifacts(candidate, put) ==
    IF Sorted(candidate) \in okSig
    THEN stored' = candidate /\ UNCHANGED runtime
    ELSE \E result \in {Accept(candidate)} :
         LET reported == Reported(candidate, result)
             executables == SelectSeq(result.accepted, LAMBDA art : art.kind \in Executables)
         IN
         /\ stored' = IF put \intersect reported = {} THEN candidate ELSE stored
         /\ built' = candidate
         /\ registry' = result.registry
         /\ accepted' = result.accepted
         /\ errors' = reported
         /\ execSig' = {executables}
         /\ handlers' = IF executables \in execSig THEN handlers
                        ELSE orderScripts(result.registry, result.accepted)
         /\ okSig' = IF reported = {} THEN {Sorted(candidate)} ELSE okSig

-----------------------------------------------------------------------------
(* The designer's requests, and the start of the server.                   *)

Init ==
    /\ stored = InitialStore
    /\ built = << >> /\ registry = BootRegistry /\ accepted = << >> /\ errors = {}
    /\ handlers = << >> /\ execSig = {} /\ okSig = {}
    /\ pc = "boot" /\ edits = 0

Boot ==
    /\ pc = "boot" /\ pc' = "idle"
    /\ applyWebArtifacts(stored, {})
    /\ UNCHANGED edits

Edit == pc = "idle" /\ edits < MaxEdits /\ edits' = edits + 1 /\ UNCHANGED pc

(* A row is replaced where it is, a new name goes to the end.              *)
WithRow(rows, art) ==
    IF \E i \in DOMAIN rows : rows[i].name = art.name
    THEN [i \in DOMAIN rows |-> IF rows[i].name = art.name THEN art ELSE rows[i]]
    ELSE Append(rows, art)

(* POST and PUT apply the stored set with the artifact, and store it unless*)
(* this artifact is in error.                                              *)
Put ==
    /\ Edit
    /\ \E art \in Artifacts \ ToSet(stored) : applyWebArtifacts(WithRow(stored, art), {art})

(* DELETE removes the row, and applies what is left.                       *)
Without(dropped) == SelectSeq(stored, LAMBDA x : x \notin dropped)
Delete ==
    /\ Edit
    /\ \E art \in ToSet(stored) :
         /\ art.kind # "app"
         /\ applyWebArtifacts(Without({art}), {})

(* Deleting an app deletes its manifest and the artifacts placed in it.    *)
PartsOf(art) ==
    {art} \union {x \in ToSet(stored) : x.kind # "app" /\ x.app = art.name}
DeleteApp ==
    /\ Edit
    /\ \E art \in ToSet(stored) :
         /\ art.kind = "app"
         /\ applyWebArtifacts(Without(PartsOf(art)), {})

(* A restart starts from the file apps and the stored rows.                *)
Restart ==
    /\ pc = "idle" /\ edits < MaxEdits
    /\ edits' = edits + 1 /\ pc' = "boot"
    /\ built' = << >> /\ registry' = BootRegistry /\ accepted' = << >> /\ errors' = {}
    /\ handlers' = << >> /\ execSig' = {} /\ okSig' = {}
    /\ UNCHANGED stored

Next == Boot \/ Put \/ Delete \/ DeleteApp \/ Restart
Spec == Init /\ [][Next]_vars

-----------------------------------------------------------------------------
(* Properties.                                                             *)

(* Types; rows have distinct names, and the registry is one that validates.*)
TypeOK ==
    /\ ToSet(stored) \subseteq Artifacts /\ ToSet(built) \subseteq Artifacts
    /\ \A i, j \in DOMAIN stored : stored[i].name = stored[j].name => i = j
    /\ ToSet(accepted) \subseteq ToSet(built) /\ errors \subseteq ToSet(built)
    /\ ToSet(handlers) \subseteq ToSet(accepted)
    /\ pc \in {"boot", "idle"} /\ edits \in 0 .. MaxEdits
    /\ registry.ok /\ Valid(registry)

(* Where fields are shown in the clear, sorted, searched or copied, without*)
(* the mask of the record routes: <<table, field>> per use.                *)
ShownByTables ==
    {<<t.name, t.title>> : t \in All(registry, "table")}
      \union UNION {{<<t.name, n>> : n \in UNION t.indexes} : t \in All(registry, "table")}
      \union UNION {UNION {{<<f.ref.table, n>> : n \in f.ref.show \union
                               {c.from : c \in f.ref.copy} \union {x.field : x \in f.ref.filters}} :
                           f \in t.fields} : t \in All(registry, "table")}
ShownByForms ==
    UNION {{<<f.table, n>> : n \in f.filterFields} : f \in All(registry, "form")}
ShownByReports ==
    LET OfBands(table, bands) == UNION {{<<table, n>> : n \in b.fields \union b.tablix} : b \in bands} IN
    UNION {OfBands(x.dataSource, x.bands) \union {<<x.dataSource, n>> : n \in x.parameters}
             \union UNION {OfBands(l.table, l.bands) : l \in x.lineSources} :
           x \in All(registry, "report")}
ShownByViews ==
    LET Refs(v) == {c.ref : c \in {c \in v.columns : c.ref # << >>}} \union {f.ref : f \in v.filters}
                     \union v.groupBy
                     \union UNION {{c.left : c \in v.joins[i].on} \union {c.right : c \in v.joins[i].on} :
                                   i \in DOMAIN v.joins}
    IN UNION {{<<Aliases(v, Len(v.joins))[ref[1]], ref[2]>> : ref \in Refs(v)} :
              v \in All(registry, "view")}

(* No encrypted field is shown by a table's title, an index, a lookup, a   *)
(* copied value, a list filter, a report or a view, also when an extension *)
(* encrypts the field after the artifacts that read it were stored.        *)
EncryptedStaysHidden ==
    \A use \in ShownByTables \union ShownByForms \union ShownByReports \union ShownByViews :
        Has(registry, "table", use[1]) =>
            use[2] \notin Encrypted(Get(registry, "table", use[1]))

(* No rejected artifact could be accepted next to the accepted ones: the   *)
(* isolation path does not depend on the order artifacts are stored in.    *)
RejectedWith(arts) ==
    LET manifests == ValidManifests(built)
        apps == DOMAIN manifests \union {art.app : art \in ToSet(Regular(built))}
    IN ~Build(manifests, apps, accepted \o arts).ok
RejectionIsJustified ==
    \A art \in ToSet(Regular(built)) \ ToSet(accepted) : RejectedWith(<<art>>)

(* Every candidate is in effect, or replaced by a higher layer, or there is*)
(* an error for it or for its app.                                         *)
InEffect(a) ==
    CASE a.kind = "app" -> a.name \in DOMAIN registry.manifests
      [] a.kind \in EXTENSION_KINDS -> a.name \in registry.extNames
      [] OTHER -> /\ Has(registry, a.kind, a.name)
                  /\ Get(registry, a.kind, a.name).layer >= LayerOf(registry, a)
NothingVanishes ==
    \A art \in ToSet(built) :
        \/ art \in errors
        \/ art.kind # "app" /\ \E e \in errors : e.name = art.app
        \/ InEffect(art)

(* The effective base artifact is the one of the highest layer that was    *)
(* registered under its name, in whatever order apps were registered.      *)
HighestLayerPrevails ==
    \A i \in DOMAIN registry.sources :
        LET a == registry.sources[i] IN
        a.kind \notin EXTENSION_KINDS => a.layer <= Get(registry, a.kind, a.name).layer

(* Every accepted script runs once, an extension after the script it       *)
(* extends, and base scripts from the lowest layer to the highest.         *)
ScriptsRunInOrder ==
    /\ \A art \in ToSet(accepted) : art.kind \in {"script", "scriptExtension"} =>
         \E i \in DOMAIN handlers : \A j \in DOMAIN handlers : handlers[j] = art <=> j = i
    /\ \A i, j \in DOMAIN handlers :
         LET a == handlers[i] b == handlers[j] IN
         /\ a.kind = "script" /\ b.kind = "scriptExtension" /\ b.target = a.name => i < j
         /\ a.kind = "script" /\ b.kind = "script" /\ i < j =>
              LayerOf(registry, handlers[i]) <= LayerOf(registry, handlers[j])

(* What the isolation path is for (kernel.ts:465, "preserve valid          *)
(* artifacts"): no group of rejected artifacts is valid with the others.   *)
ValidArePreserved ==
    \A S \in SUBSET (ToSet(Regular(built)) \ ToSet(accepted)) :
        S # {} => RejectedWith(SetToSeq(S))

(* "Higher layers override lower layers" (types.ts:65): the label of a     *)
(* field is the one the highest layer's override gives it.                 *)
Relabels(e, f) ==
    e.kind = "tableExtension" /\ \E o \in e.overrides : o.field = f /\ "label" \in DOMAIN o.change
LabelIn(e, f) ==
    (CHOOSE o \in e.overrides : o.field = f /\ "label" \in DOMAIN o.change).change.label
HigherLayersOverride ==
    \A i \in DOMAIN registry.sources :
        LET e == registry.sources[i] IN
        e.kind = "tableExtension" => \A f \in Get(registry, "table", e.target).fields :
            (/\ Relabels(e, f.name)
             /\ \A j \in DOMAIN registry.sources \ {i} :
                  LET d == registry.sources[j] IN
                  d.kind \in EXTENSION_KINDS /\ d.target = e.target /\ Relabels(d, f.name)
                      => d.layer < e.layer)
            => f.label = LabelIn(e, f.name)

(* The registry is sound: well formed and valid, with the highest layer's  *)
(* artifacts in effect and the scripts in the order of their layers.       *)
RegistryIsSound == TypeOK /\ HighestLayerPrevails /\ ScriptsRunInOrder
=============================================================================
