------------------------------- MODULE Startup -------------------------------
(***************************************************************************)
(* What a start of the server does to the stored artifacts before anybody  *)
(* can ask for them (buildServer() in server.ts): the framework's own      *)
(* artifacts are seeded (seeder.ts), those of older releases are taken     *)
(* over, app manifests get the models their artifacts name, extensions get *)
(* their canonical names, and the columns are filled in from the JSON      *)
(* (designer.ts).  Each statement commits by itself unless the code opens  *)
(* a transaction, and the process may die between any two.                 *)
(*                                                                         *)
(* The artifacts are in the designer database, and so is the mark of the   *)
(* renaming; the mark of the manifests is in the data database.  A backup  *)
(* of either can be restored.  What users do between two starts is reduced *)
(* to saving and deleting.                                                 *)
(***************************************************************************)
EXTENDS Naturals, Sequences, Functions, TLC

CONSTANTS
    Stored,    \* FW_WebArtifact of the older release: name -> artifact
    Legacy,    \* SystemWebArtifact of a still older one
    Shipped,   \* the framework's artifacts: name -> artifact
    Obsolete,  \* names the seeder deletes
    Created,   \* what designers save: name -> artifacts
    Prefix,    \* appNamePrefix(): app -> prefix
    MaxChanges, MaxRestarts

NoName == ""
ArtifactKinds == {"app", "table", "form", "menu", "enum", "privilege", "extension"}
(* models: of a manifest; target: of an extension; the columns app and     *)
(* model of the row are separate from the JSON.                            *)
Artifact(kind, app, model) == [kind |-> kind, app |-> app, model |-> model, target |-> NoName, models |-> {}]
Row(a, columns) == [json |-> a, columns |-> columns]
artifactColumns(a) == [app |-> a.app, model |-> IF a.kind = "app" THEN NoName ELSE a.model]
NoColumns == [app |-> NoName, model |-> NoName]
Old(f) == [n \in DOMAIN f |-> Row(f[n], artifactColumns(f[n]))]

IsArtifact(a) ==
    /\ a.kind \in ArtifactKinds
    /\ a = [kind |-> a.kind, app |-> a.app, model |-> a.model, target |-> a.target, models |-> a.models]
IsRow(r) == IsArtifact(r.json) /\ r = Row(r.json, [app |-> r.columns.app, model |-> r.columns.model])

(* f, and g where f has nothing.                                           *)
Over(f, g) == [n \in DOMAIN f \union DOMAIN g |-> IF n \in DOMAIN f THEN f[n] ELSE g[n]]
(* Which of several the code comes to first is left open.                  *)
First(S) == CHOOSE x \in S : TRUE
Single(S) == S # {} /\ \A x, y \in S : x = y

(* Names that releases with the prefix FW_ or ERP_ changed; the same text  *)
(* is replaced wherever it stands in the JSON.                             *)
Renamed ==
    "SystemRole"       :> "FW_Role"       @@ "SystemUser" :> "FW_User"
    @@ "SystemUserForm" :> "FW_UserForm"  @@ "SystemAdmin" :> "FW_SystemAdmin"
    @@ "CustTableForm"  :> "ERP_CustTableForm"
Replaced(n) == IF n \in DOMAIN Renamed THEN Renamed[n] ELSE n
convertLegacyArtifact(a) == [a EXCEPT !.target = Replaced(@)]

canonicalExtensionName(a) == Prefix[a.app] \o "_" \o a.model \o "_" \o a.target \o "_Extension"
-----------------------------------------------------------------------------
VARIABLES
    stored,    \* FW_WebArtifact: name -> row
    legacy,    \* SystemWebArtifact: name -> artifact, empty once dropped
    layered,   \* FW_DesignerMigration has the renaming
    explicit,  \* FW_Migration, in the data database, has the manifests
    pc,        \* what the start does next, or "serving"
    changes, restarts,
    removed,   \* history: names deleted by designers and not saved again
    edited,    \* history: apps whose manifest designers saved
    mixed      \* history: one of the two databases was restored without the other

designer == <<stored, legacy, layered>>
history  == <<removed, edited, mixed>>
upgradeVars == <<designer, explicit, pc, changes, restarts, history>>

(* The stages of a start, in order.                                        *)
Stages == {"seed", "take over", "drop", "manifests", "mark", "rename", "columns"}
At(stage) == pc = stage /\ UNCHANGED <<changes, restarts, history>>
GoTo(stage) == pc' = stage

Dropped(f, names) == Restrict(f, DOMAIN f \ names)
Put(n, r) == [m \in DOMAIN stored \union {n} |-> IF m = n THEN r ELSE stored[m]]
-----------------------------------------------------------------------------
(* Seeding: every start deletes what is obsolete and upserts what differs. *)

Seeded(rows) == Over(Old(Shipped), Dropped(rows, Obsolete))
Outdated == {n \in DOMAIN Shipped : n \notin DOMAIN stored \/ stored[n] # Old(Shipped)[n]}

Seed ==
    /\ At("seed") /\ UNCHANGED <<legacy, layered, explicit>>
    /\ \/ \E n \in Obsolete \intersect DOMAIN stored : stored' = Dropped(stored, {n}) /\ UNCHANGED pc
       \/ /\ Obsolete \intersect DOMAIN stored = {}
          /\ \E n \in Outdated : stored' = Put(n, Old(Shipped)[n])
          /\ UNCHANGED pc
       \/ Obsolete \intersect DOMAIN stored = {} /\ Outdated = {} /\ GoTo("take over") /\ UNCHANGED stored
-----------------------------------------------------------------------------
(* migrateLegacyDesignerArtifacts(): what has a stored counterpart, and    *)
(* the enumeration of roles, stay behind.                                  *)

Wanted(old, rows) == {n \in DOMAIN old :
    /\ Replaced(n) \notin DOMAIN rows
    /\ ~(old[n].kind = "enum" /\ Replaced(n) = "FW_Role")}
Converted(a) == Row(convertLegacyArtifact(a), NoColumns)
TakenOver(old, rows) ==
    Over(rows, [m \in {Replaced(n) : n \in Wanted(old, rows)} |->
                   Converted(old[CHOOSE n \in DOMAIN old : Replaced(n) = m])])

TakeOver ==
    /\ At("take over") /\ UNCHANGED <<legacy, layered, explicit>>
    /\ \/ /\ \E n \in Wanted(legacy, stored) : stored' = Put(Replaced(n), Converted(legacy[n]))
          /\ UNCHANGED pc
       \/ Wanted(legacy, stored) = {} /\ GoTo("drop") /\ UNCHANGED stored

(* Mutant: the table stays.                                                *)
DropLegacyNot ==
    /\ At("drop") /\ GoTo("manifests") /\ UNCHANGED <<designer, explicit>>

DropLegacy ==
    /\ At("drop") /\ GoTo("manifests")
    /\ legacy' = << >>
    /\ UNCHANGED <<stored, layered, explicit>>
-----------------------------------------------------------------------------
(* migrateManifestModels(): one transaction on the designer database, then *)
(* the mark in the data database.                                          *)

IsApp(rows, app) == app \in DOMAIN rows /\ rows[app].json.kind = "app"
ChildrenOf(rows, app) == {n \in DOMAIN rows : rows[n].json.kind # "app" /\ rows[n].json.app = app}
LegacyDefaults(app) ==
    CASE app = "erp"        -> {"MiniERPApplication"}
      [] app = "erp.credit" -> {"MiniERPCredit"}
      [] app = "web"        -> {"ClientCustom"}
      [] OTHER              -> {}

(* The models an app declares and those its artifacts name.                *)
Named(rows, app) ==
    rows[app].json.models \union ({rows[n].json.model : n \in ChildrenOf(rows, app)} \ {NoName})
Harvested(rows, app) ==
    IF ~IsApp(rows, app) THEN {}
    ELSE IF Named(rows, app) # {} THEN Named(rows, app) ELSE LegacyDefaults(app)

Stray(a) == a.kind # "app" /\ a.app = NoName
Placed(rows, a) ==
    CASE a.kind = "app" /\ a.models = {} -> [a EXCEPT !.models = Harvested(rows, a.app)]
      [] Stray(a) -> [a EXCEPT !.app = "web", !.model = IF @ = NoName THEN "ClientCustom" ELSE @]
      [] a.kind # "app" /\ ~Stray(a) /\ a.model = NoName /\ Single(Harvested(rows, a.app)) ->
            [a EXCEPT !.model = First(Harvested(rows, a.app))]
      [] OTHER -> a
WebManifest == Row([Artifact("app", "web", NoName) EXCEPT !.models = {"ClientCustom"}], NoColumns)
NewApps(rows) == IF \E n \in DOMAIN rows : Stray(rows[n].json) THEN {"web"} ELSE {}
WithModels(rows) ==
    Over([n \in DOMAIN rows |-> Row(Placed(rows, rows[n].json), rows[n].columns)],
         [app \in NewApps(rows) |-> WebManifest])

(* Mutant: the mark is set first.                                          *)
MigrateManifestsMarked ==
    /\ At("manifests") /\ explicit' = TRUE
    /\ IF explicit THEN GoTo("rename") ELSE GoTo("mark")
    /\ UNCHANGED designer

MigrateManifests ==
    /\ At("manifests") /\ UNCHANGED <<legacy, layered, explicit>>
    /\ IF explicit THEN GoTo("rename") /\ UNCHANGED stored
       ELSE GoTo("mark") /\ stored' = WithModels(stored)

MarkMigration ==
    /\ At("mark") /\ GoTo("rename")
    /\ explicit' = TRUE
    /\ UNCHANGED designer
-----------------------------------------------------------------------------
(* migrateV014DesignerMetadata(): extensions that are not in the way of    *)
(* another get their canonical names; one transaction with its mark.  Of   *)
(* several with one canonical name one gets it.  A name that a renaming    *)
(* frees is not taken by another here.                                     *)

Renames(rows) == {n \in DOMAIN rows : LET a == rows[n].json IN
                     /\ a.kind = "extension" /\ a.app # NoName /\ a.model # NoName
                     /\ canonicalExtensionName(a) \notin DOMAIN rows}
Rivals(rows, c) == {n \in Renames(rows) : canonicalExtensionName(rows[n].json) = c}
NewNames(rows) == {canonicalExtensionName(rows[n].json) : n \in Renames(rows)}
Canonical(rows) ==
    Over(Dropped(rows, {First(Rivals(rows, c)) : c \in NewNames(rows)}),
         [c \in NewNames(rows) |-> rows[First(Rivals(rows, c))]])

Rename ==
    /\ At("rename") /\ GoTo("columns")
    /\ stored' = IF layered THEN stored ELSE Canonical(stored)
    /\ layered' = TRUE
    /\ UNCHANGED <<legacy, explicit>>

(* backfillArtifactColumns(), one transaction.                             *)
Backfilled(rows) == [n \in DOMAIN rows |-> Row(rows[n].json, artifactColumns(rows[n].json))]

(* Then the registry is built; what it rejects is only reported.           *)
Boot ==
    /\ At("columns") /\ GoTo("serving")
    /\ stored' = Backfilled(stored)
    /\ UNCHANGED <<legacy, layered, explicit>>

(* What a start that nothing disturbs makes of the older release.          *)
Gathered == TakenOver(Legacy, Seeded(Old(Stored)))
Modelled == WithModels(Gathered)
Whole    == Backfilled(Canonical(Modelled))
-----------------------------------------------------------------------------
(* The rest of the program.                                                *)

UpgradeInit ==
    /\ stored = Old(Stored) /\ legacy = Legacy
    /\ layered = FALSE /\ explicit = FALSE /\ pc = "seed"
    /\ changes = 0 /\ restarts = 0 /\ removed = {} /\ edited = {} /\ mixed = FALSE

(* Designers leave the framework's artifacts alone (assertScope()), keep   *)
(* an artifact's kind and app, and place it in a model its app declares    *)
(* (validatePlacement()).  They may save another manifest, and delete an   *)
(* app with its artifacts.                                                 *)
ValidPlacement(a) == IsApp(stored, a.app) /\ a.model \in stored[a.app].json.models
Save(n, a) ==
    /\ a.app # "system" /\ (a.kind # "app" => ValidPlacement(a))
    /\ n \in DOMAIN stored => stored[n].json.kind = a.kind /\ stored[n].json.app = a.app
    /\ stored' = Put(n, Row(a, artifactColumns(a))) /\ removed' = removed \ {n}
    /\ edited' = IF a.kind = "app" THEN edited \union {n} ELSE edited
Deleted(n) == {n} \union IF IsApp(stored, n) THEN ChildrenOf(stored, n) ELSE {}
Delete(n) ==
    /\ n # "system" /\ stored[n].json.app # "system"
    /\ stored' = Dropped(stored, Deleted(n)) /\ removed' = removed \union Deleted(n)
    /\ UNCHANGED edited

Change ==
    /\ pc = "serving" /\ changes < MaxChanges /\ changes' = changes + 1
    /\ (\E n \in DOMAIN Created : \E a \in Created[n] : Save(n, a)) \/ (\E n \in DOMAIN stored : Delete(n))
    /\ UNCHANGED <<legacy, layered, explicit, pc, restarts, mixed>>

(* The process dies, or is stopped, and starts again.                      *)
StartAgain ==
    /\ restarts < MaxRestarts /\ restarts' = restarts + 1
    /\ pc' = "seed"
    /\ UNCHANGED <<designer, explicit, changes, history>>

(* A backup of the older release: a full one, or one database only.        *)
RestoreBackup ==
    /\ pc = "serving" /\ restarts < MaxRestarts /\ restarts' = restarts + 1
    /\ pc' = "seed"
    /\ \E components \in SUBSET {"designer", "data"} \ {{}} :
          /\ IF "designer" \in components
             THEN stored' = Old(Stored) /\ legacy' = Legacy /\ layered' = FALSE /\ removed' = {} /\ edited' = {}
             ELSE UNCHANGED <<designer, removed, edited>>
          /\ explicit' = (explicit /\ "data" \notin components)
          /\ mixed' = (components # {"designer", "data"})
    /\ UNCHANGED changes

UpgradeNext ==
    \/ Seed \/ TakeOver \/ DropLegacy \/ MigrateManifests \/ MarkMigration \/ Rename \/ Boot
    \/ Change \/ StartAgain \/ RestoreBackup
UpgradeSpec == UpgradeInit /\ [][UpgradeNext]_upgradeVars
-----------------------------------------------------------------------------
(* Artifacts are objects of their kinds, and a manifest stands under its   *)
(* app's name.  What the framework ships belongs to its own app.           *)
Valid(n, a) == IsArtifact(a) /\ NoName \notin a.models /\ (a.kind = "app" => a.app = n /\ n # NoName)
ASSUME ArtifactsAssumption ==
    /\ \A f \in {Stored, Legacy, Shipped} : \A n \in DOMAIN f : Valid(n, f[n])
    /\ \A n \in DOMAIN Created : \A a \in Created[n] : Valid(n, a)
    /\ \A n \in DOMAIN Shipped :
          Shipped[n].kind \notin {"app", "extension"} /\ Shipped[n].app = "system" /\ Shipped[n].model # NoName
    /\ DOMAIN Shipped \intersect Obsolete = {} /\ "web" \notin Obsolete

(* The older release's artifacts: names stay distinct when they are        *)
(* replaced; what became obsolete are forms and reports of the framework,  *)
(* whose manifest is a file; artifacts without a model have a manifest.    *)
ASSUME OlderReleaseAssumption ==
    /\ \A m, n \in DOMAIN Legacy :
          /\ Replaced(m) = Replaced(n) => m = n
          /\ Legacy[m].kind = "app" => Replaced(m) = m
    /\ \A n \in DOMAIN Gathered : LET a == Gathered[n].json IN
          /\ n \in Obsolete =>
                a.kind \notin {"app", "extension"} /\ a.app # NoName /\ ~IsApp(Gathered, a.app)
          /\ a.kind # "app" /\ a.app = "web" /\ a.model = NoName => IsApp(Gathered, "web")
    /\ \A n \in DOMAIN Modelled : LET a == Modelled[n].json IN
          a.kind = "extension" /\ a.model # NoName => canonicalExtensionName(a) \notin Obsolete
-----------------------------------------------------------------------------
StoredTypeOK ==
    /\ pc \in Stages \union {"serving"}
    /\ \A n \in DOMAIN stored : IsRow(stored[n])
    /\ legacy \in {Legacy, << >>} /\ (pc = "serving" => legacy = << >>)
    /\ explicit \in BOOLEAN /\ layered \in BOOLEAN /\ mixed \in BOOLEAN

(* Wherever starts before it died, the first start that gets through has   *)
(* made of the older release's artifacts what an undisturbed one makes of  *)
(* them: nothing else, and nothing less but obsolete forms, which a later  *)
(* start deletes when the older table brought them back.                   *)
Nearly(rows, all) ==
    /\ DOMAIN rows \subseteq DOMAIN all /\ DOMAIN all \ DOMAIN rows \subseteq Obsolete
    /\ \A n \in DOMAIN rows : rows[n] = all[n]
CrashesLeaveNoTrace ==
    pc = "serving" /\ changes = 0 /\ ~mixed => Nearly(stored, Whole)

(* "deleted artifacts must not resurrect on the next boot"                 *)
(* (server.ts:159).  Only the manifest for artifacts without an app is made*)
(* again, when a designer database from before the migration met a data    *)
(* database that had seen it.                                              *)
NothingDeletedReturns ==
    pc = "serving" => removed \intersect DOMAIN stored \subseteq IF mixed THEN {"web"} ELSE {}

(* Artifacts of an app that declared no models do not "fail 'unknown       *)
(* model' at boot" (server.ts:209): the manifest has learnt the models its *)
(* artifacts name, and those that name none have its only one, until       *)
(* designers save another manifest.  Not so for the app web, into whose    *)
(* manifest artifacts without an app are put whatever it declares.         *)
Undeclared ==
    {app \in DOMAIN Gathered \ {"web"} :
        /\ IsApp(Gathered, app) /\ Gathered[app].json.models = {}
        /\ \A n \in DOMAIN Shipped : Shipped[n].app # app}
InModel(rows, a) ==
    /\ IsApp(rows, a.app)
    /\ LET models == rows[a.app].json.models
       IN a.model \in models \/ (a.model = NoName /\ ~Single(models))
AllInModels(rows, apps) ==
    \A n \in DOMAIN rows : LET a == rows[n].json IN
        a.kind # "app" /\ a.app \in apps => InModel(rows, a)
ModelsAreHarvested == pc = "serving" /\ ~mixed => AllInModels(stored, Undeclared \ edited)

(* The columns that lists of artifacts are filtered by say what the        *)
(* artifacts say.                                                          *)
ColumnsAgree ==
    pc = "serving" => \A n \in DOMAIN stored : stored[n].columns = artifactColumns(stored[n].json)

(* What a server that has started serves from is sound: well formed,       *)
(* without what was deleted, with its models, and listed as it is.         *)
ServedIsSound == StoredTypeOK /\ NothingDeletedReturns /\ ModelsAreHarvested /\ ColumnsAgree
=============================================================================
