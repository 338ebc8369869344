----------------------------- MODULE MCWebLayer -----------------------------
(***************************************************************************)
(* An instance of the web layer: the framework app, a file app "base" and  *)
(* two web apps that extend it, p with models in two layers.               *)
(***************************************************************************)
EXTENDS WebLayer

Model(name, layer, rank) == [name |-> name, layer |-> layer, rank |-> rank]
Str(n) == FieldMeta(n, "string")
Ref(n, table) == [FieldMeta(n, "reference") EXCEPT !.ref = FieldReferenceMeta(table)]
Copying(f, from, to) ==
    [f EXCEPT !.ref = [@ EXCEPT !.show = {from}, !.copy = {[from |-> from, to |-> to]},
                                !.filters = {ReferenceFilterMeta("grade", None, None)}]]

Customer ==
    [TableMeta("BASE_Customer",
        {Str("name"), FieldMeta("credit", "int"), FieldMeta("since", "date"),
         [FieldMeta("grade", "enum") EXCEPT !.enum = "BASE_Grade"],
         [Str("pin") EXCEPT !.encrypted = TRUE]})
     EXCEPT !.title = "name", !.indexes = {{"name"}}]

BootAppsV == <<
    [manifest |-> AppManifest("system", {}, {Model("Framework", SYS, 1)}),
     artifacts |-> <<In("system", "Framework", TableMeta("FW_User", {Str("user")}))>>],
    [manifest |-> AppManifest("base", {},
                     {Model("Core", ISV, 1), Model("Site", CUS, 2), Model("Old", SYS, 3)}),
     artifacts |-> <<In("base", None, Customer),
                     In("base", "Core", EnumMeta("BASE_Grade", {"a", "b"}))>>]>>

Order ==
    TableMeta("P_Order",
        {Str("number"), Copying(Ref("customer", "BASE_Customer"), "name", "custName"),
         Str("custName"), FieldMeta("amount", "real"), FieldMeta("due", "date")})
Relabel(name, target, field, change) ==
    Extension("tableExtension", name, target, [fields |-> {}, indexes |-> {}],
              {[field |-> field, change |-> change]})

Sample == [
    appP |-> AppManifest("p", {"base"}, {Model("Main", ISV, 1), Model("Site", CUS, 2)}),
    appPlost |-> AppManifest("p", {"base", "gone"}, {Model("Main", ISV, 1), Model("Site", CUS, 2)}),
    appPcycle |-> AppManifest("p", {"base", "q"}, {Model("Main", ISV, 1), Model("Site", CUS, 2)}),
    appQ |-> AppManifest("q", {"p", "base"}, {Model("Country", LOC, 1)}),
    custSite |-> In("base", "Site", [Customer EXCEPT !.fields = @ \union {Str("vat")}]),
    custSame |-> In("base", "Core", Customer),
    custOld |-> In("base", "Old", [Customer EXCEPT !.fields = {Str("name")}]),
    order |-> In("p", "Main", Order),
    orderLoop |-> In("p", "Main", [Order EXCEPT !.fields = @ \union {Ref("first", "P_Line")}]),
    orderPin |-> In("p", "Main", [Order EXCEPT !.fields =
        {f \in @ : f.name # "customer"} \union
        {Copying(Ref("customer", "BASE_Customer"), "pin", "custName")}]),
    line |-> In("p", "Main", TableMeta("P_Line", {Ref("order", "P_Order"), FieldMeta("qty", "int")})),
    view |-> In("p", "Main",
        [ViewMeta("P_Sales", "P_Order", "o",
             {ViewColumnMeta("customer", None, <<"c", "name">>),
              ViewColumnMeta("total", "sum", <<"o", "amount">>)})
         EXCEPT !.joins = <<ViewJoinMeta("BASE_Customer", "c",
                              {[left |-> <<"o", "customer">>, right |-> <<"c", "id">>]})>>,
                !.parameters = {ViewParameterMeta("least", "real", TRUE)},
                !.filters = {ViewFilterMeta(<<"o", "amount">>, "gte", "least", None)},
                !.groupBy = {<<"c", "name">>}, !.orderBy = {"total"}]),
    chart |-> In("p", "Main", ChartMeta("P_Chart", "P_Sales", "bar", "customer", {"total"})),
    form |-> In("p", "Main",
        [FormMeta("P_Form", "P_Order") EXCEPT
            !.listFields = {"number", "sys_createdAt"}, !.filterFields = {"custName"},
            !.actions = {FormAction("print", "report", "P_Report")},
            !.charts = {FormChartMeta("P_Chart",
                          {FormChartParameterBindingMeta("least", "record", "amount")})},
            !.lines = {[FormLineGridMeta("P_Line", "order", {"qty"})
                        EXCEPT !.aggregates = {AggregateMeta("sum", "qty")},
                               !.actions = {[FormAction("pick", "picker", None) EXCEPT
                                   !.table = "BASE_Customer", !.columns = {"name"},
                                   !.filters = {PickerFilterMeta("credit", "record", "amount"),
                                                PickerFilterMeta("credit", "line", "qty")}]}]}]),
    report |-> In("p", "Main",
        [ReportMeta("P_Report", "BASE_Customer",
             {ReportBandMeta("pageHeader", {"name"}), ReportBandMeta("detail", {"credit"})})
         EXCEPT !.lineSources = {ReportLineSourceMeta("P_Order", "customer",
                                   {[ReportBandMeta("detail", {}) EXCEPT !.tablix = {"number"}]})}]),
    entity |-> In("p", "Main",
        [DataEntityMeta("P_Entity", "P_Order", {"number"}, {"number", "due"})
         EXCEPT !.archiveEligible = TRUE, !.businessDateField = "due",
                !.lines = {DataEntityLineMeta("lines", "P_Line", "order", {"qty"}, {"qty"})}]),
    privilege |-> In("p", "Main",
        PrivilegeMeta("P_Privilege", {TablePermission("P_Order", {"read"})}, {"P_Form"}, {"P_Run"})),
    role |-> In("p", "Main", RoleMeta("P_Role", {"P_Duty"}, {})),
    duty |-> In("p", "Main", DutyMeta("P_Duty", {"P_Privilege"})),
    menu |-> In("p", "Main",
        MenuMeta("P_Menu", {MenuItemMeta("sales", None, "group", None),
                            MenuItemMeta("orders", "sales", "form", "P_Form")})),
    script |-> In("p", "Site", ScriptMeta("P_Z")),
    scriptLate |-> In("p", "Main", ScriptMeta("P_Later")),
    scriptExt |-> In("q", "Country",
        Extension("scriptExtension", "Q_Z_Extension", "P_Later", {}, {})),
    run |-> In("p", "Main", FunctionMeta("P_Run", "BASE_Customer")),
    runUser |-> In("p", "Main", FunctionMeta("P_Run", "FW_User")),
    encrypt |-> In("p", "Site", Relabel("P_Customer_Extension", "BASE_Customer", "name",
                                        [encrypted |-> TRUE])),
    labelP |-> In("p", "Site", Relabel("P_Customer_Extension", "BASE_Customer", "credit",
                                       [label |-> "limit"])),
    labelQ |-> In("q", "Country", Relabel("Q_Customer_Extension", "BASE_Customer", "credit",
                                          [label |-> "kredit", readOnly |-> TRUE])),
    user |-> In("q", "Country", Relabel("Q_User_Extension", "FW_User", "user",
                                        [label |-> "kunde"])),
    items |-> In("q", "Country",
        Extension("menuExtension", "Q_Menu_Extension", "P_Menu",
            [items |-> {MenuItemMeta("tax", "sales", "group", None)},
             insertions |-> {[path |-> <<"sales">>,
                              items |-> {MenuItemMeta("lines", None, "form", "P_Form")}]}],
            {[target |-> "orders", change |-> [visible |-> FALSE]]})),
    grants |-> In("q", "Country",
        Extension("privilegeExtension", "Q_Privilege_Extension", "P_Privilege",
            [tables |-> {TablePermission("P_Order", {"update"})}, forms |-> {"P_Form"},
             functions |-> {}, reports |-> {"P_Report"}, views |-> {"P_Sales"}], {}))]

NameOrderV == <<
    "BASE_Customer", "BASE_Grade", "FW_User", "P_Chart", "P_Customer_Extension",
    "P_Duty", "P_Entity", "P_Form", "P_Later", "P_Line", "P_Menu", "P_Order", "P_Privilege", "P_Report",
    "P_Role", "P_Run", "P_Sales", "P_Z", "Q_Customer_Extension", "Q_Menu_Extension",
    "Q_Privilege_Extension", "Q_User_Extension", "Q_Z_Extension", "base", "p", "q", "system">>

ArtifactsV == {Sample[n] : n \in DOMAIN Sample}
Rows(names) == [i \in DOMAIN names |-> Sample[names[i]]]
Full == Rows(<<"appQ", "chart", "order", "appP", "scriptExt", "form", "view", "line", "report",
               "entity", "privilege", "role", "duty", "menu", "script", "scriptLate", "run">>)
Small == Rows(<<"appQ", "appP", "order", "line", "labelQ">>)
=============================================================================
