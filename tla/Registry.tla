------------------------------ MODULE Registry ------------------------------
(***************************************************************************)
(* The metadata registry (packages/core/src/metadata/registry.ts) as a     *)
(* value: what registering an app's artifacts turns it into, layer by      *)
(* layer, and the cross-reference validation of the result.  A call that   *)
(* throws MetadataError gives Broken, whatever the message.                *)
(***************************************************************************)
EXTENDS Metadata, SequencesExt

CONSTANT NameOrder    \* the artifact names in the order localeCompare gives them

(* The registry maps: effective base artifacts by kind and name, the owner *)
(* of a name, the names and targets of extensions, the loaded apps, and    *)
(* the raw artifacts in the order they were registered.                    *)
EmptyRegistry ==
    [ok |-> TRUE, base |-> << >>, owner |-> << >>, extNames |-> {}, extTargets |-> {},
     manifests |-> << >>, sources |-> << >>]
Broken == [EmptyRegistry EXCEPT !.ok = FALSE]

Has(r, kind, name) == <<kind, name>> \in DOMAIN r.base
Get(r, kind, name) == r.base[<<kind, name>>]
All(r, kind) == {r.base[k] : k \in {k \in DOMAIN r.base : k[1] = kind}}
Owner(r, name) == IF name \in DOMAIN r.owner THEN r.owner[name] ELSE None
Field(table, name) == CHOOSE f \in table.fields : f.name = name
FieldNames(table) == {f.name : f \in table.fields}
Known(table) == FieldNames(table) \union SYSTEM_FIELDS
Encrypted(table) == {f.name : f \in {f \in table.fields : f.encrypted}}
Updated(f, key, value) == (key :> value) @@ f

(* dependsOnTransitively(): the apps reachable along dependsOn.            *)
Dependencies(r, app) ==
    IF app \in DOMAIN r.manifests THEN r.manifests[app].dependsOn ELSE {}
DependsOn(r, app, target) ==
    \A X \in SUBSET DOMAIN r.manifests :
        (Dependencies(r, app) \subseteq X /\ \A a \in X : Dependencies(r, a) \subseteq X)
            => target \in X
MayUse(r, app, owner) == owner \in {None, app} \/ DependsOn(r, app, owner)

-----------------------------------------------------------------------------
(* Placement and naming.                                                   *)

ModelOf(manifest, name) == CHOOSE m \in manifest.models : m.name = name
(* normalizeArtifact(): an artifact without a model belongs to the first.  *)
normalizeArtifact(manifest, meta) ==
    IF meta.model = None /\ manifest.models # {}
    THEN [meta EXCEPT !.model = (CHOOSE m \in manifest.models :
                                    \A n \in manifest.models : m.rank <= n.rank).name]
    ELSE meta

Placed(manifest, app, meta) ==
    /\ meta.app = app
    /\ \E m \in manifest.models : m.name = meta.model
(* The layer of an artifact is the layer of its model.                     *)
Layered(manifest, meta) == [layer |-> ModelOf(manifest, meta.model).layer] @@ meta

(* orderArtifacts(): base artifacts before extensions, lower layers first. *)
Rank(name) == CHOOSE i \in DOMAIN NameOrder : NameOrder[i] = name
Precedes(a, b) ==
    LET late(x) == IF x.kind \in EXTENSION_KINDS THEN 1 ELSE 0 IN
    \/ late(a) < late(b)
    \/ late(a) = late(b) /\ a.layer < b.layer
    \/ late(a) = late(b) /\ a.layer = b.layer /\ Rank(a.name) < Rank(b.name)
orderArtifacts(artifacts) == SortSeq(artifacts, Precedes)

-----------------------------------------------------------------------------
(* Extensions.                                                             *)

validateExtension(r, app, e) ==
    LET kind == Targets[e.kind] IN
    /\ Has(r, kind, e.target)
    /\ canExtendLayer(e.layer, Get(r, kind, e.target).layer)
    /\ Owner(r, e.target) # "system"
    /\ MayUse(r, app, Owner(r, e.target))
    /\ <<app, e.model, e.kind, e.target>> \notin r.extTargets

(* Field overrides; a field made read-only is no longer mandatory.         *)
Overridden(fields, o) ==
    {IF f.name = o.field THEN NormalField(With(f, o.change)) ELSE f : f \in fields}

(* mergeTablePermissions(): one entry per table with all operations.       *)
Merged(base, adds) ==
    {TablePermission(t, UNION {p.ops : p \in {p \in base \union adds : p.table = t}}) :
        t \in {p.table : p \in base \union adds}}

(* Menu items are appended below their parent, which must be a group or    *)
(* have items, and ids are unique below one parent.                        *)
Children(items, parent) == {i \in items : i.parent = parent}
IsGroup(items, i) == i.type = "group" \/ Children(items, i.id) # {}
CanAppend(items, item) ==
    /\ item.parent # None =>
         \E i \in items : i.id = item.parent /\ IsGroup(items, i)
    /\ \A i \in Children(items, item.parent) : i.id # item.id
(* An insertion path names exactly one group at every level.               *)
PathResolves(items, path) ==
    /\ path # << >>
    /\ \A k \in 1 .. Len(path) :
         LET parent == IF k = 1 THEN None ELSE path[k - 1]
             matches == {i \in items : i.id = path[k] /\ i.parent = parent}
         IN \E i \in matches : matches = {i} /\ IsGroup(items, i)
Inserted(items, ins) == items \union {[i EXCEPT !.parent = Last(ins.path)] : i \in ins.items}

(* Whether applyExtension() accepts an extension of a base artifact.       *)
Fits(base, e) ==
    LET adds == e.adds over == e.overrides IN
    CASE e.kind = "tableExtension" ->
           /\ FieldNames(adds) \intersect FieldNames(base) = {}
           /\ \A f, g \in adds.fields : f.name = g.name => f = g
           /\ \A o \in over : o.field \in FieldNames(base) \union FieldNames(adds)
      [] e.kind = "formExtension" ->
           LET lines == {l.table : l \in base.lines \union adds.lines} IN
           /\ over.elements \subseteq lines \union {a.id : a \in base.actions \union adds.actions}
                                      \union {c.chart : c \in base.charts \union adds.charts}
           /\ \A o \in over.lines : o.table \in lines
      [] e.kind = "menuExtension" ->
           /\ \A i \in adds.items : CanAppend(base.items \union (adds.items \ {i}), i)
           /\ \A ins \in adds.insertions :
                /\ PathResolves(base.items \union adds.items, ins.path)
                /\ \A i \in ins.items : \A j \in Children(base.items, Last(ins.path)) : i.id # j.id
           /\ \A o \in over : \E i \in base.items \union adds.items : i.id = o.target
      [] e.kind = "enumExtension" -> over \subseteq base.values \union adds.values
      [] e.kind = "viewExtension" ->
           over \subseteq {c.name : c \in base.columns \union adds.columns}
      [] e.kind = "chartExtension" -> over \subseteq base.measures \union adds.measures
      [] e.kind = "dataEntityExtension" ->
           /\ adds.fields \intersect base.fields = {}
           /\ \A l \in adds.lines : \A m \in base.lines : l.name # m.name
           /\ \A x \in adds.lineFields : \E l \in base.lines \union adds.lines :
                l.name = x.name /\ x.fields \intersect l.fields = {}
      [] OTHER -> TRUE

(* What applyExtension() makes of the base artifact.                       *)
applyExtension(base, e) ==
    LET adds == e.adds over == e.overrides IN
    CASE e.kind = "tableExtension" ->
           [base EXCEPT !.fields = FoldLeft(Overridden, @ \union adds.fields, SetToSeq(over)),
                        !.indexes = @ \union adds.indexes]
      [] e.kind = "formExtension" ->
           [base EXCEPT !.listFields = @ \union adds.listFields,
                        !.filterFields = @ \union adds.filterFields,
                        !.groups = @ \union adds.groups, !.charts = @ \union adds.charts,
                        !.actions = @ \union adds.actions,
                        !.lines = {IF \E o \in over.lines : o.table = l.table
                                   THEN With(l, (CHOOSE o \in over.lines : o.table = l.table).change)
                                   ELSE l : l \in @ \union adds.lines}]
      [] e.kind = "menuExtension" ->
           [base EXCEPT !.items =
              LET all == FoldLeft(Inserted, @ \union adds.items, SetToSeq(adds.insertions)) IN
              {IF \E o \in over : o.target = i.id
               THEN With(i, (CHOOSE o \in over : o.target = i.id).change) ELSE i : i \in all}]
      [] e.kind = "enumExtension" -> [base EXCEPT !.values = @ \union adds.values]
      [] e.kind = "privilegeExtension" ->
           [base EXCEPT !.tables = Merged(@, adds.tables), !.forms = @ \union adds.forms,
                        !.functions = @ \union adds.functions,
                        !.reports = @ \union adds.reports, !.views = @ \union adds.views]
      [] e.kind = "dutyExtension" -> [base EXCEPT !.privileges = @ \union adds.privileges]
      [] e.kind = "roleExtension" ->
           [base EXCEPT !.duties = @ \union adds.duties, !.privileges = @ \union adds.privileges]
      [] e.kind = "viewExtension" ->
           [base EXCEPT !.joins = @ \o adds.joins, !.columns = @ \union adds.columns,
                        !.filters = @ \union adds.filters, !.orderBy = @ \union adds.orderBy]
      [] e.kind = "chartExtension" -> [base EXCEPT !.measures = @ \union adds.measures]
      [] e.kind = "dataEntityExtension" ->
           [base EXCEPT !.fields = @ \union adds.fields,
                        !.lines = {[l EXCEPT !.fields = @ \union UNION
                                      {x.fields : x \in {x \in adds.lineFields : x.name = l.name}}] :
                                   l \in @ \union adds.lines}]
      [] OTHER -> base

Extend(r, app, e) ==
    LET key == <<Targets[e.kind], e.target>> IN
    IF /\ e.name \notin r.extNames
       /\ validateExtension(r, app, e)
       /\ Fits(r.base[key], e)
    THEN [r EXCEPT !.base = Updated(@, key, applyExtension(r.base[key], e)),
                   !.owner = Updated(@, e.name, app),
                   !.extNames = @ \union {e.name},
                   !.extTargets = @ \union {<<app, e.model, e.kind, e.target>>}]
    ELSE Broken

-----------------------------------------------------------------------------
(* Base artifacts: a higher layer replaces a lower one, a lower one is     *)
(* skipped, the same layer is a duplicate.                                 *)

AddBase(r, app, meta) ==
    LET key == <<meta.kind, meta.name>>
        named == IF meta.kind = "script" THEN Updated(r.owner, meta.name, app) ELSE r.owner
    IN IF key \in DOMAIN r.base /\ meta.layer = r.base[key].layer THEN Broken
       ELSE IF key \in DOMAIN r.base /\ meta.layer < r.base[key].layer
       THEN [r EXCEPT !.owner = named]
       ELSE [r EXCEPT !.base = Updated(@, key, meta), !.owner = Updated(@, meta.name, app)]

addArtifact(r, app, meta) ==
    IF ~r.ok THEN r
    ELSE LET s == [r EXCEPT !.sources = Append(@, meta)] IN
         IF meta.kind \in EXTENSION_KINDS THEN Extend(s, app, meta) ELSE AddBase(s, app, meta)

-----------------------------------------------------------------------------
(* validate(): cross references over everything loaded so far.             *)

Readable(table) == (FieldNames(table) \union {"id"}) \ Encrypted(table)

(* Mutant: what a lookup displays may be encrypted.                        *)
ReferenceValidShown(r, t, f) ==
    /\ Has(r, "table", f.ref.table)
    /\ \A c \in f.ref.copy : c.from \in Known(Get(r, "table", f.ref.table))

(* A reference copies and displays readable fields of its target, filters  *)
(* by them, and takes the filter's value from fields that exist.           *)
ReferenceValid(r, t, f) ==
    /\ Has(r, "table", f.ref.table)
    /\ LET target == Get(r, "table", f.ref.table) IN
       /\ \A c \in f.ref.copy :
            /\ c.from \in Known(target) \ Encrypted(target)
            /\ c.to \in FieldNames(t) \ {f.name}
       /\ f.ref.show \subseteq Readable(target)
       /\ \A x \in f.ref.filters :
            /\ x.field \in Readable(target)
            /\ x.of # None => x.of \in FieldNames(t)
            /\ x.lookup # None =>
                 /\ Field(t, x.of).type = "reference"
                 /\ \/ x.lookup = "id"
                    \/ /\ Has(r, "table", Field(t, x.of).ref.table)
                       /\ x.lookup \in FieldNames(Get(r, "table", Field(t, x.of).ref.table))
       /\ ~(f.mandatory /\ f.ref.onDelete = "setNull")

TableValid(r, t) ==
    /\ FieldNames(t) \intersect SYSTEM_FIELDS = {}
    /\ \A f, g \in t.fields : f.name = g.name => f = g
    /\ t.title \in Readable(t) \union {None}
    /\ UNION t.indexes \subseteq FieldNames(t) \ Encrypted(t)
    /\ \A f \in t.fields :
         /\ f.type = "enum" => Has(r, "enum", f.enum)
         /\ f.type = "reference" => ReferenceValid(r, t, f)
         /\ f.multiline \/ f.encrypted => f.type = "string"
         /\ ~(f.encrypted /\ f.default)

Business(r, table) == Has(r, "table", table) /\ Owner(r, table) # "system"
FunctionValid(r, f) == f.imageTable = None \/ Business(r, f.imageTable)

(* validateFormAction(): a report exists; a picker reads fields of its     *)
(* source and filters by fields of the record or, in a line grid, the line.*)
ActionValid(r, a, record, line) ==
    /\ a.type = "report" => Has(r, "report", a.target)
    /\ a.type = "picker" =>
         /\ Has(r, "table", a.table)
         /\ a.columns \union {x.field : x \in a.filters}
              \subseteq FieldNames(Get(r, "table", a.table)) \union {"id"}
         /\ a.available \in FieldNames(Get(r, "table", a.table)) \union {"id", None}
         /\ \A x \in a.filters :
              /\ x.source = "line" => line # {} /\ \A l \in line : x.of \in FieldNames(l) \union {"id"}
              /\ x.source = "record" => x.of \in FieldNames(record) \union {"id"}

Comparable(type) == IF type \in {"reference", "enum"} THEN "int" ELSE type
Accepts(wanted, given) == given = wanted \/ (given = "int" /\ wanted = "real")
AcceptsLiteral(wanted, given) ==
    \/ given = "null" \/ Accepts(wanted, given)
    \/ given = "string" /\ wanted \in {"date", "datetime"}
RecordType(table, name) ==
    IF name \in FieldNames(table) THEN Comparable(Field(table, name).type)
    ELSE IF name \in SYSTEM_FIELD_ALIASES THEN None ELSE systemType(name)

(* An embedded chart belongs to an app the form's app may use, and binds   *)
(* each required parameter of its view once, to a value of its type.       *)
EmbeddedChartValid(r, form, table, c) ==
    /\ Has(r, "chart", c.chart)
    /\ MayUse(r, Owner(r, form.name), Owner(r, c.chart))
    /\ LET view == Get(r, "chart", c.chart).view
           parameters == IF Has(r, "view", view) THEN Get(r, "view", view).parameters ELSE {}
       IN /\ \A b \in c.bindings :
               /\ \A d \in c.bindings : d.parameter = b.parameter => d = b
               /\ \E p \in parameters :
                    /\ p.name = b.parameter
                    /\ IF b.source = "record"
                       THEN b.of \in Known(table) /\ Accepts(p.type, RecordType(table, b.of))
                       ELSE AcceptsLiteral(p.type, b.of)
          /\ \A p \in parameters : p.required => \E b \in c.bindings : b.parameter = p.name

LineGridValid(r, table, l) ==
    /\ Has(r, "table", l.table)
    /\ LET lineTable == Get(r, "table", l.table) IN
       /\ l.refField \in FieldNames(lineTable) \ l.fields
       /\ \A a \in l.actions : ActionValid(r, a, table, {lineTable})
       /\ \A g \in l.aggregates :
            g.fn # "count" => /\ g.field \in FieldNames(lineTable)
                              /\ Field(lineTable, g.field).type \in {"int", "real"}

FormValid(r, form) ==
    /\ Has(r, "table", form.table)
    /\ LET table == Get(r, "table", form.table) IN
       /\ form.listFields \union form.groups \subseteq Known(table)
       /\ form.filterFields \subseteq Known(table) \ Encrypted(table)
       /\ \A a \in form.actions : ActionValid(r, a, table, {})
       /\ \A c \in form.charts : EmbeddedChartValid(r, form, table, c)
       /\ \A l \in form.lines : LineGridValid(r, table, l)

MenuValid(r, menu) ==
    \A i \in menu.items : i.type \in {"form", "report", "function"} => Has(r, i.type, i.target)

PrivilegeValid(r, p) ==
    /\ \A x \in p.tables : Has(r, "table", x.table)
    /\ \A n \in p.forms : Has(r, "form", n)
    /\ \A n \in p.functions : Has(r, "function", n)
    /\ \A n \in p.reports : Has(r, "report", n)
    /\ \A n \in p.views : Has(r, "view", n)
DutyValid(r, d) == \A p \in d.privileges : Has(r, "privilege", p)
RoleValid(r, role) ==
    /\ \A d \in role.duties : Has(r, "duty", d)
    /\ \A p \in role.privileges : Has(r, "privilege", p)

-----------------------------------------------------------------------------
(* Reports, data entities, views and charts.                               *)

(* validateReportBands(): displayOn for headers and footers, a tablix for  *)
(* detail bands and then nothing else, and no field that is encrypted.     *)
BandsValid(table, bands) ==
    \A b \in bands :
        /\ b.band = "detail" => b.displayOn = None
        /\ b.layout = "tablix" \/ b.tablix # {} => b.band = "detail"
        /\ b.layout = "freeform" => b.tablix = {}
        /\ b.layout = "tablix" => b.tablix # {}
        /\ b.tablix # {} => b.fields = {}
        /\ b.tablix \union b.fields \subseteq Known(table) \ Encrypted(table)

ReportValid(r, report) ==
    /\ report.layoutFits
    /\ Has(r, "table", report.dataSource)
    /\ LET table == Get(r, "table", report.dataSource) IN
       /\ BandsValid(table, report.bands)
       /\ report.parameters \subseteq Known(table) \ Encrypted(table)
    /\ \A l \in report.lineSources :
         /\ Has(r, "table", l.table)
         /\ l.refField \in FieldNames(Get(r, "table", l.table))
         /\ BandsValid(Get(r, "table", l.table), l.bands)

(* Line tables refer to the root table; keys are among the exported fields.*)
EntityLineValid(r, entity, l) ==
    /\ Has(r, "table", l.table)
    /\ LET table == Get(r, "table", l.table) IN
       /\ \E f \in table.fields : /\ f.name = l.parent /\ f.type = "reference"
                                  /\ f.ref.table = entity.rootTable
       /\ l.fields \union l.keys \subseteq Known(table)
       /\ l.keys \subseteq l.fields

EntityValid(r, entity) ==
    /\ Has(r, "table", entity.rootTable)
    /\ LET root == Get(r, "table", entity.rootTable) IN
       /\ entity.businessKey \union entity.fields \subseteq Known(root)
       /\ entity.businessKey \subseteq entity.fields
       /\ entity.archiveEligible => entity.businessDateField # None
       /\ entity.businessDateField # None =>
            \E f \in root.fields : f.name = entity.businessDateField /\ f.type \in {"date", "datetime"}
       /\ \A l \in entity.lines : EntityLineValid(r, entity, l)

(* validateView(): the tables behind the aliases, the types of references. *)
Aliases(view, n) ==
    [a \in {view.alias} \union {view.joins[i].alias : i \in 1 .. n} |->
        IF a = view.alias THEN view.table
        ELSE view.joins[CHOOSE i \in 1 .. n : view.joins[i].alias = a].table]
RefValid(r, aliases, ref) ==
    /\ ref[1] \in DOMAIN aliases
    /\ LET table == Get(r, "table", aliases[ref[1]]) IN ref[2] \in Known(table) \ Encrypted(table)
RefType(r, aliases, ref) ==
    LET table == Get(r, "table", aliases[ref[1]]) IN
    IF ref[2] \in FieldNames(table) THEN Field(table, ref[2]).type ELSE systemType(ref[2])
Numeric == {"int", "real", "reference", "enum", "boolean"}
Joinable(left, right) == left = right \/ {left, right} \subseteq Numeric

TableAccess(r, view, table) ==
    /\ Business(r, table)
    /\ MayUse(r, Owner(r, view.name), Owner(r, table))

JoinValid(r, view, i) ==
    LET j == view.joins[i] aliases == Aliases(view, i) IN
    /\ j.alias \notin DOMAIN Aliases(view, i - 1)
    /\ TableAccess(r, view, j.table)
    /\ \A c \in j.on :
         /\ RefValid(r, aliases, c.left) /\ RefValid(r, aliases, c.right)
         /\ Joinable(RefType(r, aliases, c.left), RefType(r, aliases, c.right))

FilterValid(r, view, aliases, f) ==
    /\ RefValid(r, aliases, f.ref)
    /\ LET type == Comparable(RefType(r, aliases, f.ref)) IN
       /\ IF f.parameter # None
          THEN \E p \in view.parameters : p.name = f.parameter /\ Accepts(type, p.type)
          ELSE AcceptsLiteral(type, f.literal)
       /\ f.op = "contains" => type = "string"

ColumnValid(r, view, aliases, c) ==
    LET grouped == \E d \in view.columns : d.fn # None IN
    IF c.fn = None
    THEN RefValid(r, aliases, c.ref) /\ (grouped => c.ref \in view.groupBy)
    ELSE IF c.ref = << >> THEN c.fn = "count"
    ELSE /\ RefValid(r, aliases, c.ref)
         /\ c.fn \in {"sum", "avg"} => RefType(r, aliases, c.ref) \in {"int", "real"}

ViewValid(r, view) ==
    LET aliases == Aliases(view, Len(view.joins)) IN
    /\ TableAccess(r, view, view.table)
    /\ \A i \in DOMAIN view.joins : JoinValid(r, view, i)
    /\ \A p, q \in view.parameters : p.name = q.name => p = q
    /\ \A f \in view.filters : FilterValid(r, view, aliases, f)
    /\ \A ref \in view.groupBy : RefValid(r, aliases, ref)
    /\ \A c, d \in view.columns : c.name = d.name => c = d
    /\ \A c \in view.columns : ColumnValid(r, view, aliases, c)
    /\ view.orderBy \subseteq {c.name : c \in view.columns}

ChartValid(r, chart) ==
    /\ Has(r, "view", chart.view)
    /\ MayUse(r, Owner(r, chart.name), Owner(r, chart.view))
    /\ LET columns == {c.name : c \in Get(r, "view", chart.view).columns} IN
       /\ chart.type # "kpi" => chart.dimension \in columns
       /\ chart.measures \subseteq columns
       /\ chart.type = "kpi" => \E m \in chart.measures : chart.measures = {m}

Valid(r) ==
    /\ \A t \in All(r, "table") : TableValid(r, t)
    /\ \A f \in All(r, "function") : FunctionValid(r, f)
    /\ \A f \in All(r, "form") : FormValid(r, f)
    /\ \A m \in All(r, "menu") : MenuValid(r, m)
    /\ \A p \in All(r, "privilege") : PrivilegeValid(r, p)
    /\ \A d \in All(r, "duty") : DutyValid(r, d)
    /\ \A x \in All(r, "role") : RoleValid(r, x)
    /\ \A x \in All(r, "report") : ReportValid(r, x)
    /\ \A e \in All(r, "dataEntity") : EntityValid(r, e)
    /\ \A v \in All(r, "view") : ViewValid(r, v)
    /\ \A c \in All(r, "chart") : ChartValid(r, c)

-----------------------------------------------------------------------------
(* registerWebArtifacts() and registerApp(): normalise, order, add one by  *)
(* one and validate; any failure makes the call throw.                     *)

Validated(r) == IF r.ok /\ Valid(r) THEN r ELSE Broken

registerWebArtifacts(r, app, artifacts) ==
    IF ~r.ok \/ app \notin DOMAIN r.manifests THEN Broken
    ELSE LET manifest == r.manifests[app]
             metas == [i \in DOMAIN artifacts |->
                         normalizeArtifact(manifest, normalizeLegacyArtifact(artifacts[i]))]
         IN IF \E i \in DOMAIN metas : ~Placed(manifest, app, metas[i]) THEN Broken
            ELSE Validated(FoldLeft(LAMBDA x, meta : addArtifact(x, app, meta), r,
                               orderArtifacts([i \in DOMAIN metas |-> Layered(manifest, metas[i])])))

WithManifest(r, manifest) ==
    IF ~r.ok \/ ~(manifest.dependsOn \subseteq DOMAIN r.manifests) THEN Broken
    ELSE [r EXCEPT !.manifests = Updated(@, manifest.name, manifest)]
registerApp(r, manifest, artifacts) ==
    registerWebArtifacts(WithManifest(r, manifest), manifest.name, artifacts)
=============================================================================
