----------------------------- MODULE MCDesigner -----------------------------
(***************************************************************************)
(* A small workspace: an app with one model, a table in three versions, a  *)
(* form on one of its fields, a script, and a second app on the first one. *)
(***************************************************************************)
EXTENDS Packages

MCNames   == {"app", "addon", "table", "form", "script"}
MCApps    == {"app", "addon"}
MCTables  == {"table"}
MCScripts == {"script"}
MCAppOf   == [n \in MCNames |-> IF n = "form" THEN "addon" ELSE "app"]

MCVersions == {"bare", "modelled", "dependent", "extended", "open", "secret", "broken", "view", "code", "throwing"}
MCVersionsOf == [n \in MCNames |->
    CASE n = "app"    -> {"modelled"}
      [] n = "addon"  -> {"dependent"}
      [] n = "table"  -> {"open", "secret", "broken"}
      [] n = "form"   -> {"view"}
      [] n = "script" -> {"code", "throwing"}]
MCNeeds == [v \in MCVersions |->
    CASE v \in {"bare", "modelled"} -> {}
      [] v \in {"dependent", "extended"} -> {"app"}
      [] v = "broken"               -> {"model", "nowhere"}
      [] v = "view"                 -> {"addon", "field"}
      [] OTHER                      -> {"model"}]
MCGives == [v \in MCVersions |->
    CASE v = "bare"      -> {"app"}
      [] v = "modelled"  -> {"app", "model"}
      [] v \in {"dependent", "extended"} -> {"addon"}
      [] v = "open"      -> {"table", "field"}
      [] v = "secret"    -> {"table"}
      [] OTHER           -> {}]
MCSecret == {"secret"}
MCThrows == {"throwing"}
MCWithModel    == [v \in MCVersions |-> IF v = "bare" THEN "modelled" ELSE v]
MCWithoutModel == [v \in MCVersions |-> IF v = "modelled" THEN "bare" ELSE v]
MCInitialStore == [n \in MCNames |->
    CASE n = "app" -> "modelled" [] n = "addon" -> "dependent" [] n = "table" -> "open"
      [] n = "form" -> "view" [] OTHER -> "absent"]

Ops(f) == [n \in MCNames |-> IF n \in DOMAIN f THEN f[n] ELSE "keep"]
MCChangeSets == {Ops([table |-> "secret", form |-> "absent"]), Ops([script |-> "throwing"])}
MCReviewers == {{"app"}, {"app", "addon"}}
MCScopes == {{"inspect", "propose"}}

MCModels == {"model"}
MCModelOf == [n \in MCNames \ MCApps |-> "model"]
MCManifests == {"bare", "modelled", "dependent", "extended"}
MCModelsOf == [v \in MCVersions |-> IF v \in {"modelled", "extended"} THEN MCModels ELSE {}]
MCWithModels == [v \in MCVersions |-> [models \in SUBSET MCModels |->
    CASE v \in {"bare", "modelled"} -> IF models = {} THEN "bare" ELSE "modelled"
      [] v \in {"dependent", "extended"} -> IF models = {} THEN "dependent" ELSE "extended"
      [] OTHER -> v]]
MCPackages ==
    {Export(MCInitialStore, "models", "app", MCModels),
     [mode |-> "app", app |-> "addon", models |-> {}, artifacts |-> [addon |-> "dependent", form |-> "view"]]}

AllButCommit == {"migrate", "store"}
=============================================================================
