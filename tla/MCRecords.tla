----------------------------- MODULE MCRecords -----------------------------
(* A small instance of Records: an app of orders whose lines, notes and     *)
(* follow-up orders refer to each other, and an app they belong to that is  *)
(* licensed.                                                                *)
EXTENDS AppData

CONSTANTS One, Nine
MCDigits == [n \in {1, 9} |-> IF n = 1 THEN One ELSE Nine]

F(name, type, to, onDelete, mandatory, edit, secret) ==
    [name |-> name, type |-> type, to |-> to, onDelete |-> onDelete, mandatory |-> mandatory,
     edit |-> edit, secret |-> secret, default |-> Null]

MCTableOrder == <<"Line", "Note", "Order">>
MCFields ==
    [Order |-> <<F("no", "int", None, None, TRUE, "always", FALSE),
                 F("pin", "string", None, None, FALSE, "always", TRUE),
                 F("next", "reference", "Order", "cascade", FALSE, "always", FALSE)>>,
     Line  |-> <<F("order", "reference", "Order", "cascade", TRUE, "create", FALSE),
                 F("pos", "int", None, None, FALSE, "always", FALSE)>>,
     Note  |-> <<F("line", "reference", "Line", "setNull", FALSE, "always", FALSE),
                 F("on", "reference", "Order", "restrict", FALSE, "always", FALSE),
                 F("name", "string", None, None, FALSE, "always", FALSE)>>]
MCApps == {"base", "sales"}
MCAppOf == [Order |-> "sales", Line |-> "sales", Note |-> "base"]
MCDependsOn == [base |-> {}, sales |-> {"base"}]
MCLicensed == {"base"}

MCUsers == {"clerk", "chief", "admin"}
MCRolesOf == [clerk |-> {"Clerk"}, chief |-> {"Clerk", "Chief"}, admin |-> {"FW_SystemAdminRole"}]
MCDuties == [Clerk |-> {"Entry"}, Chief |-> {}]
MCPrivileges == [Entry |-> {"Write"}]
MCDirect == [Clerk |-> {}, Chief |-> {"Erase"}]
MCPermissions ==
    [Write |-> {<<t, op>> : t \in {"Order", "Line"}, op \in {"read", "create", "update"}}
               \union {<<"Order", "delete">>, <<"Note", "update">>},
     Erase |-> {<<"Line", "delete">>, <<"Note", "create">>, <<"Note", "read">>}]
MCOpenApps == [u \in MCUsers |-> MCApps]

R(user, txns) == [user |-> user, txns |-> txns, isolated |-> FALSE, needs |-> {}, keys |-> {}, job |-> None]
Import(user, txns, keys) ==
    [R(user, txns) EXCEPT !.isolated = TRUE, !.keys = keys,
        !.needs = {<<n[1], op>> : n \in keys, op \in {"create", "update"}}]
Patch(t, id, values) == [op |-> "patch", table |-> t, id |-> id, values |-> values]
Delete(t, id) == [op |-> "delete", table |-> t, id |-> id]
Insert(t, values) == [op |-> "insert", table |-> t, values |-> values]
Upsert(t, key, values) == [op |-> "upsert", table |-> t, key |-> key, values |-> values]
Entity(t, key, parent, values) ==
    [op |-> "entity", table |-> t, key |-> key, parent |-> parent, values |-> values]

MCTokens == {"k"}
MCRequests ==
    {R("clerk", << <<Delete("Order", 1)>> >>),
     R("chief", << <<[op |-> "try", body |-> <<Delete("Order", 2)>>],
                     Insert("Order", [no |-> 7])>> >>),
     R("chief", << <<Insert("Note", [on |-> 2]), Patch("Order", 2, [pin |-> Mask, next |-> Null])>> >>),
     R("clerk", << <<[op |-> "draft", table |-> "Order", values |-> [no |-> 5]]>> >>),
     R("clerk", << <<[op |-> "save", table |-> "Order", token |-> "k", values |-> [pin |-> Word]]>> >>),
     Import("clerk", << <<Upsert("Order", "no", [no |-> 9])>>,
                        <<Upsert("Order", "no", [no |-> 9, pin |-> Word])>> >>, {<<"Order", "no">>})}

(* An order whose number was written as a text, one without a number, and  *)
(* a note whose name was written as a number.                              *)
MCJobs == {"j"}
MCJobDocuments ==
    [j |-> [Import("chief", << <<Entity("Order", "no", None, [no |-> One, pin |-> Word]),
                                 Entity("Line", "pos", "order", [pos |-> 4])>>,
                               <<Entity("Order", "no", None, [no |-> Word])>>,
                               <<Entity("Note", "name", None, [name |-> 9])>> >>,
                   {<<"Order", "no">>, <<"Note", "name">>}) EXCEPT !.job = "j"]]
MCLicenses ==
    {[app |-> "base", seq |-> 1, from |-> 0, to |-> 1], [app |-> "base", seq |-> 2, from |-> 1, to |-> 2]}

(* Orders 1 and 2 follow each other; line 1 is of order 1, note 1 on it.    *)
MCInitialRows ==
    [Order |-> <<[no |-> 1, pin |-> Word, next |-> 2], [no |-> 2, pin |-> Word, next |-> 1]>>,
     Line  |-> <<[order |-> 1, pos |-> 1]>>,
     Note  |-> <<[line |-> 1, on |-> Null, name |-> Word]>>]

(* Packages of when there was one order, and of two moments before and     *)
(* after the second one was added.                                         *)
MCPackages ==
    LET order == [no |-> 1, pin |-> Word, next |-> Null] IN
    {[app |-> "sales", rows |-> [Order |-> <<order>>, Line |-> <<[order |-> 1, pos |-> 1]>>]],
     [app |-> "sales", rows |-> [Order |-> <<order>>, Line |-> <<[order |-> 2, pos |-> 1]>>]]}

(* A sheet in which the number of an order is a text.                       *)
TextRequests == {Import("clerk", << <<Upsert("Order", "pin", [no |-> Word, pin |-> Word])>> >>, {})}
=============================================================================
