------------------------------ MODULE Packages ------------------------------
(***************************************************************************)
(* Metadata packages (packages/server/src/metadataPackage.ts and the       *)
(* package routes of designer.ts): the metadata of an app, or of selected  *)
(* models of it, exported from one workspace and imported into another one.*)
(* An import ends in a preview like every change set, and is confirmed as  *)
(* one.  A package's format, checksum and consistency are taken for        *)
(* granted, since a file that fails them leaves no trace; a name has the   *)
(* same kind, app and model in every workspace; the layers and licences of *)
(* models are left out.                                                    *)
(***************************************************************************)
EXTENDS Proposals

CONSTANTS
    Models, ModelOf,   \* models; the one an artifact that is no app is placed in
    Manifests,         \* the contents of apps
    ModelsOf,          \* the models a manifest lists
    WithModels,        \* a manifest with another list of models
    Packages           \* packages that are uploaded

ASSUME PackagesAssumption ==
    /\ ModelOf \in [Names \ Apps -> Models]
    /\ ModelsOf \in [Versions -> SUBSET Models]
    /\ WithModels \in [Versions -> [SUBSET Models -> Versions]]
(* A package is that of one app: it carries the app's manifest, which lists*)
(* the models it replaces, and no other app's.                             *)
ASSUME PackageAssumption ==
    \A pkg \in Packages :
        /\ pkg.app \in Apps /\ DOMAIN pkg.artifacts \subseteq Names
        /\ DOMAIN pkg.artifacts \intersect Apps = {pkg.app}
        /\ \A n \in DOMAIN pkg.artifacts : pkg.artifacts[n] \in Versions
        /\ pkg.artifacts[pkg.app] \in Manifests
        /\ pkg.models \subseteq ModelsOf[pkg.artifacts[pkg.app]]
(* An app's content is a manifest, and a manifest lists the models it is   *)
(* given.                                                                  *)
ASSUME ManifestsAssumption ==
    /\ Manifests \subseteq Versions /\ Keep \notin Versions
    /\ \A a \in Apps :
        /\ VersionsOf[a] \subseteq Manifests /\ InitialStore[a] \in Manifests \union {Absent}
        /\ \A ops \in ChangeSets : ops[a] \in Manifests \union {Absent, Keep}
    /\ \A v \in Manifests :
        /\ WithModel[v] \in Manifests /\ WithoutModel[v] \in Manifests
        /\ \A models \in SUBSET Models :
              WithModels[v][models] \in Manifests /\ ModelsOf[WithModels[v][models]] = models

Placed(app, models) == {n \in Names \ Apps : AppOf[n] = app /\ ModelOf[n] \in models}

(* exportArtifacts(): the stored artifacts of the models, and the manifest *)
(* with no other models.  A package of a whole app has them all.           *)
Export(store, mode, app, models) ==
    LET artifacts == {app} \union (Placed(app, models) \intersect Present(store)) IN
    [mode |-> mode, app |-> app, models |-> models,
     artifacts |-> [n \in artifacts |-> IF n = app THEN WithModels[store[app]][models] ELSE store[n]]]

(* mergeAppManifest(): models are added to the stored manifest and never   *)
(* taken from it; the rest is the package's, unless only models of an app  *)
(* that is already there are deployed.  Dependencies, merged in the same   *)
(* way, are not told apart.                                                *)
mergeAppManifest(base, pkg) ==
    LET old == base[pkg.app]
        new == pkg.artifacts[pkg.app] IN
    IF old = Absent THEN new
    ELSE WithModels[IF pkg.mode = "models" THEN old ELSE new][ModelsOf[old] \union ModelsOf[new]]

(* What a package replaces as a whole: a deployment of selected models     *)
(* deletes the artifacts it lacks, an app's or a model's package only adds.*)
Replaced(pkg) == IF pkg.mode = "models" THEN Placed(pkg.app, pkg.models) ELSE {}

modelPackageOperations(base, pkg) ==
    [n \in Names |-> IF n = pkg.app THEN mergeAppManifest(base, pkg)
                     ELSE IF n \in DOMAIN pkg.artifacts THEN pkg.artifacts[n]
                     ELSE IF n \in Replaced(pkg) /\ base[n] # Absent THEN Absent ELSE Keep]

(* POST packages/import/preview.                                           *)
PreviewPackage ==
    /\ Request
    /\ \E p \in Previews, pkg \in Packages :
         LET ops == modelPackageOperations(stored, pkg) IN
         /\ previews[p].state = "unused"
         /\ PreviewErrors(Merge(stored, ops)) = {}
         /\ previews' = [previews EXCEPT ![p] =
              [state |-> "waiting", ops |-> ops, base |-> stored, candidate |-> Merge(stored, ops)]]
    /\ UNCHANGED <<stored, runtime, physical, audit, control, troubled, faults, restarts, inbox>>

PackagesNext == WorkspaceNext \/ PreviewPackage
PackagesSpec == WorkspaceInit /\ [][PackagesNext]_<<vars, inbox>>
-----------------------------------------------------------------------------
(* "Complete snapshots replace only selected model metadata"               *)
(* (metadataPackage.ts:80): a confirmed package is stored whole, a         *)
(* deployment of models leaves nothing else in them, everything outside    *)
(* stays as it is, and no model is lost from the manifest.                 *)
Confirmed(p, pkg) ==
    audit'[p] > audit[p] /\ previews[p].ops = modelPackageOperations(previews[p].base, pkg)
DeploymentsAreScoped ==
    [][\A p \in Previews, pkg \in Packages : Confirmed(p, pkg) =>
         /\ \A n \in Names \ Apps :
              stored'[n] = IF n \in DOMAIN pkg.artifacts THEN pkg.artifacts[n]
                           ELSE IF pkg.mode = "models" /\ n \in Placed(pkg.app, pkg.models) THEN Absent
                           ELSE stored[n]
         /\ \A a \in Apps \ {pkg.app} : stored'[a] = stored[a]
         /\ pkg.models \subseteq ModelsOf[stored'[pkg.app]]
         /\ stored[pkg.app] # Absent => ModelsOf[stored[pkg.app]] \subseteq ModelsOf[stored'[pkg.app]]
      ]_<<vars, inbox>>

(* What is confirmed is what was shown, and a package stays in its scope.  *)
ConfirmedIsWhole == ShownIsApplied /\ DeploymentsAreScoped
=============================================================================
