------------------------------ MODULE MCStartup ------------------------------
(* An installation with artifacts of two older releases.                   *)
EXTENDS Startup

Extension(app, model, target) == [Artifact("extension", app, model) EXCEPT !.target = target]
App(name) == Artifact("app", name, "")

StoredThen ==
    "old" :> App("old") @@ "Item" :> Artifact("table", "old", "M") @@ "Note" :> Artifact("form", "old", "")
    @@ "Stray" :> Artifact("table", "", "")
    @@ "Item1_Extension" :> Extension("old", "M", "Item") @@ "Item2_Extension" :> Extension("old", "M", "Item")
    @@ "two" :> App("two") @@ "Left" :> Artifact("table", "two", "L") @@ "Right" :> Artifact("table", "two", "R")
    @@ "Middle" :> Artifact("form", "two", "")
    @@ "FW_UserForm" :> Artifact("form", "system", "Framework")
    @@ "FW_Menu" :> Artifact("menu", "system", "Older")
LegacyThen ==
    "SystemRole" :> Artifact("enum", "system", "Framework") @@ "SystemAdmin" :> Artifact("privilege", "system", "Framework")
    @@ "SystemUserForm" :> Artifact("form", "system", "Framework")
    @@ "CustTableForm" :> Artifact("form", "erp", "") @@ "erp" :> App("erp")
    @@ "User_Extension" :> Extension("erp", "", "SystemUser")
ShippedNow ==
    "FW_Menu" :> Artifact("menu", "system", "Framework") @@ "FW_SystemAdmin" :> Artifact("privilege", "system", "Framework")
CreatedNow ==
    "Item" :> {Artifact("table", "old", "M")} @@ "New" :> {Artifact("table", "old", "M")}
    @@ "old" :> {[App("old") EXCEPT !.models = {"N"}]}
    @@ "web" :> {[App("web") EXCEPT !.models = {"ClientCustom"}]}
Prefixes == "old" :> "OLD" @@ "two" :> "TWO" @@ "erp" :> "ERP" @@ "web" :> "WEB" @@ "system" :> "FW"
=============================================================================
