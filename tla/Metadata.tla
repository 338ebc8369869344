------------------------------ MODULE Metadata ------------------------------
(***************************************************************************)
(* The metadata artifacts of packages/core/src/metadata/types.ts, as values*)
(* and the normalisations of registry.ts that do not need a registry.      *)
(*                                                                         *)
(* One constructor per artifact kind gives the parts an author must supply *)
(* and leaves the optional ones empty.  Lists whose order nothing depends  *)
(* on are sets; an optional name that is missing is the empty string, the  *)
(* value the code's truthiness tests treat alike.  Labels, sizes, styles   *)
(* and the other presentation data are left out, except a field's label,   *)
(* which stands for whatever an extension may override.                    *)
(***************************************************************************)
EXTENDS Naturals, Sequences, TLC

None == ""

(* Layers are their positions in LAYER_ORDER: SYS, ISV, LOC, DEV, CUS.     *)
SYS == 0
ISV == 1
LOC == 2
CUS == 4
canExtendLayer(source, target) == source > target

SYSTEM_FIELD_ALIASES == {"sys_createdBy", "sys_createdAt", "sys_modifiedBy", "sys_modifiedAt"}
SYSTEM_FIELDS == {"id", "createdAt", "createdBy", "modifiedAt", "modifiedBy"}
                     \union SYSTEM_FIELD_ALIASES
systemType(name) ==
    CASE name = "id" -> "int"
      [] name \in {"createdAt", "modifiedAt", "sys_createdAt", "sys_modifiedAt"} -> "datetime"
      [] OTHER -> "string"

-----------------------------------------------------------------------------
(* Tables and enumerations.                                                *)

(* Lookup filters compare a field of the referenced table with a literal   *)
(* (of is empty), with a field of the current record, or with lookupField  *)
(* of the record that field refers to.                                     *)
ReferenceFilterMeta(field, of, lookupField) == [field |-> field, of |-> of, lookup |-> lookupField]
NoReference == [table |-> None, show |-> {}, copy |-> {}, filters |-> {}, onDelete |-> "restrict"]
FieldReferenceMeta(table) == [NoReference EXCEPT !.table = table]

FieldMeta(name, type) ==
    [name |-> name, type |-> type, enum |-> None, ref |-> NoReference, label |-> name,
     mandatory |-> FALSE, readOnly |-> FALSE, multiline |-> FALSE,
     encrypted |-> FALSE, default |-> FALSE]

TableMeta(name, fields) ==
    [kind |-> "table", name |-> name, fields |-> fields, title |-> None, indexes |-> {}]
EnumMeta(name, values) ==
    [kind |-> "enum", name |-> name, values |-> values]

-----------------------------------------------------------------------------
(* Forms and menus.                                                        *)

FormAction(id, type, target) ==
    [id |-> id, type |-> type, target |-> target, table |-> None, columns |-> {}, filters |-> {},
     available |-> None]
(* A picker's filters name a field of the source and, unless the value is  *)
(* a literal, a field of the record or of the line.                        *)
PickerFilterMeta(field, source, of) == [field |-> field, source |-> source, of |-> of]
AggregateMeta(fn, field) == [fn |-> fn, field |-> field]
FormLineGridMeta(table, refField, fields) ==
    [table |-> table, refField |-> refField, fields |-> fields, aggregates |-> {}, actions |-> {}]
(* A binding gives a View parameter a record field or a literal of a type. *)
FormChartParameterBindingMeta(parameter, source, of) ==
    [parameter |-> parameter, source |-> source, of |-> of]
FormChartMeta(chart, bindings) == [chart |-> chart, bindings |-> bindings]
FormMeta(name, table) ==
    [kind |-> "form", name |-> name, table |-> table, listFields |-> {}, filterFields |-> {},
     groups |-> {}, charts |-> {}, actions |-> {}, lines |-> {}]

(* A menu is the set of its items; an item knows the item it is below.     *)
MenuItemMeta(id, parent, type, target) ==
    [id |-> id, parent |-> parent, type |-> type, target |-> target, visible |-> TRUE]
MenuMeta(name, items) ==
    [kind |-> "menu", name |-> name, items |-> items]

-----------------------------------------------------------------------------
(* Security.                                                               *)

TablePermission(table, ops) == [table |-> table, ops |-> ops]
PrivilegeMeta(name, tables, forms, functions) ==
    [kind |-> "privilege", name |-> name, tables |-> tables, forms |-> forms,
     functions |-> functions, reports |-> {}, views |-> {}]
DutyMeta(name, privileges) ==
    [kind |-> "duty", name |-> name, privileges |-> privileges]
RoleMeta(name, duties, privileges) ==
    [kind |-> "role", name |-> name, duties |-> duties, privileges |-> privileges]

-----------------------------------------------------------------------------
(* Logic, reports, data entities, views, charts.                           *)

ScriptMeta(name) == [kind |-> "script", name |-> name]
FunctionMeta(name, imageTable) ==
    [kind |-> "function", name |-> name, imageTable |-> imageTable]

ReportBandMeta(band, fields) ==
    [band |-> band, displayOn |-> None, layout |-> None, tablix |-> {}, fields |-> fields]
ReportLineSourceMeta(table, refField, bands) ==
    [table |-> table, refField |-> refField, bands |-> bands]
ReportMeta(name, dataSource, bands) ==
    [kind |-> "report", name |-> name, dataSource |-> dataSource, bands |-> bands,
     lineSources |-> {}, parameters |-> {}, layoutFits |-> TRUE]

DataEntityLineMeta(name, table, parentReference, fields, lineKeys) ==
    [name |-> name, table |-> table, parent |-> parentReference, fields |-> fields, keys |-> lineKeys]
DataEntityMeta(name, rootTable, businessKey, fields) ==
    [kind |-> "dataEntity", name |-> name, rootTable |-> rootTable, businessKey |-> businessKey,
     fields |-> fields, lines |-> {}, archiveEligible |-> FALSE, businessDateField |-> None]

(* A field reference of a view is an alias and a field.                    *)
ViewJoinMeta(table, alias, on) == [table |-> table, alias |-> alias, on |-> on]
ViewColumnMeta(name, fn, ref) == [name |-> name, fn |-> fn, ref |-> ref]
ViewFilterMeta(ref, operator, parameter, literal) ==
    [ref |-> ref, op |-> operator, parameter |-> parameter, literal |-> literal]
ViewParameterMeta(name, type, required) == [name |-> name, type |-> type, required |-> required]
ViewMeta(name, table, alias, columns) ==
    [kind |-> "view", name |-> name, table |-> table, alias |-> alias, joins |-> << >>,
     columns |-> columns, parameters |-> {}, filters |-> {}, groupBy |-> {}, orderBy |-> {}]
ChartMeta(name, view, type, dimension, measures) ==
    [kind |-> "chart", name |-> name, view |-> view, type |-> type, dimension |-> dimension,
     measures |-> measures]

-----------------------------------------------------------------------------
(* Apps, and what an extension adds to and overrides in its target.        *)

AppManifest(name, dependsOn, models) ==
    [kind |-> "app", name |-> name, dependsOn |-> dependsOn, models |-> models]

Targets == [tableExtension |-> "table", formExtension |-> "form", menuExtension |-> "menu",
            enumExtension |-> "enum", privilegeExtension |-> "privilege",
            dutyExtension |-> "duty", roleExtension |-> "role", scriptExtension |-> "script",
            viewExtension |-> "view", chartExtension |-> "chart",
            functionExtension |-> "function", dataEntityExtension |-> "dataEntity"]
EXTENSION_KINDS == DOMAIN Targets
Extension(kind, name, target, adds, overrides) ==
    [kind |-> kind, name |-> name, target |-> target, adds |-> adds, overrides |-> overrides]

(* Of an app and one of its models.                                        *)
In(app, model, artifact) == [app |-> app, model |-> model] @@ artifact
With(artifact, change) == change @@ artifact

-----------------------------------------------------------------------------
(* normalizeLegacyArtifact(): an enum or a read-only field is not mandatory*)
(* and the band kinds of the first report format get their displayOn.      *)
NormalField(f) ==
    IF f.type = "enum" \/ f.readOnly THEN [f EXCEPT !.mandatory = FALSE] ELSE f
NormalBand(b) ==
    LET shown == CASE b.band \in {"pageHeader", "pageFooter"} -> "everyPage"
                   [] b.band = "header" /\ b.displayOn = None -> "firstPage"
                   [] b.band = "footer" /\ b.displayOn = None -> "lastPage"
                   [] OTHER -> b.displayOn
        plain == CASE b.band = "pageHeader" -> "header"
                   [] b.band = "pageFooter" -> "footer"
                   [] OTHER -> b.band
    IN [b EXCEPT !.band = plain, !.displayOn = shown,
                 !.layout = IF @ = None THEN IF b.tablix # {} THEN "tablix" ELSE "freeform" ELSE @]

normalizeLegacyArtifact(meta) ==
    CASE meta.kind = "table" -> [meta EXCEPT !.fields = {NormalField(f) : f \in @}]
      [] meta.kind = "tableExtension" ->
           [meta EXCEPT !.adds = [@ EXCEPT !.fields = {NormalField(f) : f \in @}]]
      [] meta.kind = "report" ->
           [meta EXCEPT !.bands = {NormalBand(b) : b \in @},
                        !.lineSources = {[l EXCEPT !.bands = {NormalBand(b) : b \in @}] : l \in @}]
      [] OTHER -> meta
=============================================================================
