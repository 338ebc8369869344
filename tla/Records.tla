------------------------------ MODULE Records ------------------------------
(***************************************************************************)
(* The record layer: DataContext with its transactions, guards and cascades*)
(* (packages/core/src/data), the policy and the licences it asks           *)
(* (core/src/security/policy.ts, core/src/licensing.ts), and the routes    *)
(* that write records: the data API, record drafts, file imports and data  *)
(* entity jobs (packages/server/src).                                      *)
(*                                                                         *)
(* A request is a sequence of transactions, a transaction a sequence of    *)
(* operations.  The code between two awaits runs alone, but time passes in *)
(* it, and every hook and event handler it calls may throw; so each        *)
(* operation, and each row of a cascade, is a step.  A row is a function   *)
(* from field names to values, which are numbers or the model values Null, *)
(* NaN, Word (a text that is no number), Mask and the texts of numbers.    *)
(***************************************************************************)
EXTENDS Integers, Sequences, FiniteSets, SequencesExt

CONSTANTS
    None, Null, NaN, Word, Mask,
    Digits,            \* the text of each number that is written as a text
    TableOrder,        \* the registry's tables, a sequence
    Fields,            \* a table's fields, a sequence of records
    Apps, AppOf, DependsOn, Licensed,
    Users, RolesOf, Duties, Privileges, Direct, Permissions, OpenApps,
    Requests,          \* what clients may send
    Tokens, Jobs, JobDocuments,
    Licenses,          \* licences vendors may issue: app, seq, from, to
    InitialRows,
    MaxTime, MaxThrows, MaxRequests, MaxCrashes

Tables == Range(TableOrder)
Ops    == {"read", "create", "update", "delete"}

ASSUME AppsAssumption ==
    /\ \A t \in Tables : AppOf[t] \in Apps
    /\ Licensed \subseteq Apps /\ DependsOn \in [Apps -> SUBSET Apps]
ASSUME BoundsAssumption ==
    {MaxTime, MaxThrows, MaxRequests, MaxCrashes} \subseteq Nat

VARIABLES
    store,      \* the data database: rows, next ids, drafts, rows born of a draft
    levels,     \* the store at BEGIN and at every open savepoint (ttsLevel)
    guards,     \* writeGuards: the tables whose app is checked before COMMIT
    frames,     \* deleteWithinTransaction() calls in progress
    deleting,   \* the rows being deleted
    req,        \* the request being served
    todo, ops,  \* its remaining transactions, the operations of the open one
    root,       \* the header row of the document being imported
    report,     \* inserted, updated and skipped rows of an import
    pending,    \* the report if the open transaction commits
    before,     \* the store when the request began
    jobs,       \* FW_DataJob: status, and how often its documents were imported
    licenses, clock, revision,
    throws, served, crashes

machine == <<ops, todo, frames, guards, deleting, req, root, report, pending, levels, before>>
around  == <<jobs, licenses, clock, revision, throws, served, crashes>>
vars == <<machine, store, around>>

-----------------------------------------------------------------------------
(* Metadata of a table.                                                    *)

FieldNames(t)  == {Fields[t][i].name : i \in DOMAIN Fields[t]}
Field(t, f)    == CHOOSE x \in Range(Fields[t]) : x.name = f

(* The fields that refer to a table, by the places of their table and of   *)
(* themselves; they are looked at in the order of allTables().             *)
References(t) ==
    UNION {{<<i, j>> : j \in {k \in DOMAIN Fields[TableOrder[i]] :
                                 /\ Fields[TableOrder[i]][k].type = "reference"
                                 /\ Fields[TableOrder[i]][k].to = t}} : i \in DOMAIN TableOrder}
From(r)   == TableOrder[r[1]]
Column(r) == Fields[From(r)][r[2]]
NextReference(refs) ==
    CHOOSE r \in refs : \A q \in refs : r[1] < q[1] \/ (r[1] = q[1] /\ r[2] <= q[2])

(* A secret is a text without a default (registry.ts), and a row of the    *)
(* database has the table's columns and no mask in place of a secret.      *)
Fits(t, row) ==
    /\ DOMAIN row = FieldNames(t)
    /\ \A f \in FieldNames(t) : Field(t, f).secret => row[f] # Mask
ASSUME ValuesAssumption ==
    /\ \A n \in DOMAIN Digits : Digits[n] \notin Int \union {Null, NaN, Word, Mask}
    /\ Mask \notin {Null, NaN} /\ Null \notin Nat /\ None \notin Nat \union Users \union Licenses
ASSUME TablesAssumption ==
    /\ TableOrder \in Seq(Tables) /\ \A t \in Tables : Fields[t] \in Seq(Range(Fields[t]))
    /\ \A t \in Tables : \A f \in FieldNames(t) :
          Field(t, f).secret => Field(t, f).type = "string" /\ Field(t, f).default = Null
    /\ \A t \in Tables : \A f \in Range(Fields[t]) : f.type = "reference" => f.to \in Tables
    /\ DOMAIN InitialRows = Tables
    /\ \A t \in Tables : /\ InitialRows[t] \in Seq(Range(InitialRows[t]))
                         /\ \A id \in DOMAIN InitialRows[t] : Fits(t, InitialRows[t][id])

(* A request is by a user and consists of operations on tables, of which   *)
(* "try" is a script's own.  A document of an import holds no mask: exports*)
(* leave secrets out, and writableBody() is not asked; a line refers to its*)
(* header.                                                                 *)
Sent   == Requests \union {JobDocuments[j] : j \in Jobs}
Script == UNION {Range(txn) : txn \in UNION {Range(r.txns) : r \in Sent}}
Plain(o) ==
    /\ o.op \notin {"try", "release"} /\ o.table \in Tables
    /\ o.op = "save" => o.token \in Tokens
    /\ o.op = "entity" =>
          /\ \A f \in DOMAIN o.values : o.values[f] # Mask
          /\ o.parent # None => o.parent \in FieldNames(o.table) /\ Field(o.table, o.parent).type = "reference"
ASSUME RequestsAssumption ==
    /\ \A r \in Sent : r.user \in Users /\ r.job \in Jobs \union {None} /\ r.txns \in Seq(Seq(Script))
    /\ \A o \in Script :
          IF o.op = "try" THEN o.body \in Seq(Range(o.body)) /\ \A i \in DOMAIN o.body : Plain(o.body[i])
          ELSE Plain(o)

-----------------------------------------------------------------------------
(* Licences and permissions.                                               *)

Active(app) == licenses[app] # None /\ licenses[app].from <= clock /\ clock < licenses[app].to
Lapsed == {a \in Licensed : ~Active(a)}

(* An app is blocked with every app that depends on it, however remotely.  *)
BlockedApps ==
    {a \in Apps : \A S \in SUBSET Apps :
        Lapsed \subseteq S /\ (\A b \in Apps : DependsOn[b] \intersect S # {} => b \in S)
        => a \in S}
Writable(t) == AppOf[t] \notin BlockedApps

(* buildRolePolicy(): roles, their duties and the privileges of both are   *)
(* flattened to permissions; policyOf() narrows them to the apps the user  *)
(* may open, and an administrator may do everything.                       *)
PrivilegesOf(role) == Direct[role] \union UNION {Privileges[d] : d \in Duties[role]}
GrantedTo(u) == UNION {Permissions[p] : p \in UNION {PrivilegesOf(r) : r \in RolesOf[u]}}
Can(u, t, op) ==
    \/ "FW_SystemAdminRole" \in RolesOf[u]
    \/ <<t, op>> \in GrantedTo(u) /\ AppOf[t] \in OpenApps[u]

(* assertAllowed(); a read registers no guard.                             *)
Allowed(t, op) == Can(req.user, t, op) /\ (op # "read" => Writable(t))

-----------------------------------------------------------------------------
(* Records and queries.                                                    *)

(* The texts of numbers, and the numbers they are the texts of; the fields *)
(* that hold texts and those that hold numbers.                            *)
Texts   == Range(Digits)
Numbers == Inverse(Digits, DOMAIN Digits, Texts)
FieldsOf(t, texts) == {<<t, x.name>> : x \in {x \in Range(Fields[t]) : (x.type = "string") = texts}}
Textual == UNION {FieldsOf(t, TRUE) : t \in Tables}
Numeric == UNION {FieldsOf(t, FALSE) : t \in Tables}

IsNumber(v) == v = NaN \/ v \in Int
WellTyped(type, v) ==
    CASE type \in {"int", "reference"} -> IsNumber(v)
      [] type = "string" -> v \in {Word, Mask} \union Texts
Valid(t, row) ==
    \A f \in FieldNames(t) :
        /\ Field(t, f).mandatory => row[f] # Null
        /\ row[f] # Null => WellTyped(Field(t, f).type, row[f])

(* SQLite binds a NaN as NULL; a column carries no constraint of its own.  *)
Stored(row) == [f \in DOMAIN row |-> IF row[f] = NaN THEN Null ELSE row[f]]

NewRecord(t) == [f \in FieldNames(t) |-> Field(t, f).default]
SetMany(row, values) ==
    [f \in DOMAIN row |-> IF f \in DOMAIN values THEN values[f] ELSE row[f]]
Over(f, g) == [x \in DOMAIN f \union DOMAIN g |-> IF x \in DOMAIN f THEN f[x] ELSE g[x]]

(* writableBody(): a field that may not be edited refuses the whole body; a*)
(* masked secret keeps its value on an update and is refused on a create.  *)
Editable(t, f, operation) == Field(t, f).edit \in {"always", operation}
BodyAccepted(t, body, operation) ==
    \A f \in DOMAIN body :
        /\ f \in FieldNames(t) /\ Editable(t, f, operation)
        /\ Field(t, f).secret /\ body[f] = Mask => operation = "update"
(* Secrets that were not entered anew are left out.                        *)
WritableBody(t, body) ==
    [f \in {g \in DOMAIN body : ~(Field(t, g).secret /\ body[g] \in {Mask, Null})} |-> body[f]]

(* An import runs no script.  The keys it answers for are those its rows   *)
(* are looked up by: a mapped column, and of a document's header one that  *)
(* may be entered when it is created.                                      *)
Imported(o, keys) ==
    /\ o.op \in {"insert", "upsert", "entity"}
    /\ \A n \in keys : n[1] = o.table =>
          /\ o.op # "insert" /\ o.key = n[2] /\ n[2] \in DOMAIN o.values
          /\ o.op = "entity" => o.parent = None /\ Editable(o.table, n[2], "create")
ASSUME ImportsAssumption ==
    \A r \in Sent : r.isolated =>
        /\ \A n \in r.keys : n[1] \in Tables /\ n[2] \in FieldNames(n[1])
        /\ \A txn \in Range(r.txns) : \A o \in Range(txn) : Imported(o, r.keys)

(* coerceImportValue(), coerce(): String() of a text field's cell, Number()*)
(* of any other; a text that is no number becomes NaN.                     *)
String(raw) == IF raw \in DOMAIN Digits THEN Digits[raw] ELSE raw
Number(raw) ==
    IF raw \in Texts THEN Numbers[raw] ELSE IF raw \in {Word, Mask} THEN NaN ELSE raw
ImportValue(t, f, raw) ==
    IF <<t, f>> \in Textual THEN String(raw) ELSE IF <<t, f>> \in Numeric THEN Number(raw) ELSE raw
Mapped(t, values) == [f \in DOMAIN values |-> ImportValue(t, f, values[f])]

(* Mutant: an import looks for its keys among the rows of its beginning.   *)
SelectBefore(t, conditions) ==
    {id \in DOMAIN before.rows[t] :
        \A f \in DOMAIN conditions : conditions[f] # Null /\ before.rows[t][id][f] = conditions[f]}

(* Query: the ids whose rows agree with the conditions; firstOnly().       *)
Select(t, conditions) ==
    {id \in DOMAIN store.rows[t] :
        \A f \in DOMAIN conditions : conditions[f] # Null /\ store.rows[t][id][f] = conditions[f]}
FirstOnly(ids) == IF ids = {} THEN None ELSE CHOOSE i \in ids : \A j \in ids : i <= j

Put(rows, id, row) == [i \in DOMAIN rows \union {id} |-> IF i = id THEN row ELSE rows[i]]
Inserted(s, t, row) ==
    [s EXCEPT !.rows[t] = Put(@, s.next[t], Stored(row)), !.next[t] = @ + 1]
Updated(s, t, id, row) ==
    IF id \in DOMAIN s.rows[t] THEN [s EXCEPT !.rows[t][id] = Stored(row)] ELSE s
Without(s, t, id) ==
    [s EXCEPT !.rows[t] = [i \in DOMAIN @ \ {id} |-> @[i]]]

(* A query binds a cell as it is.  SQLite finds numbers by their texts, but *)
(* no text by a number, which is bound as a real.                          *)
Sought(t, f, raw) ==
    IF raw \in Texts /\ <<t, f>> \in Numeric
    THEN Numbers[raw] ELSE raw

-----------------------------------------------------------------------------
(* Transactions.  Throw unwinds the calls in progress to the innermost tts:*)
(* a savepoint is rolled back and the script that opened it goes on; the   *)
(* outermost one rolls back the transaction.  An import counts the row as  *)
(* skipped and goes on with the next, any other request ends.              *)

InTransaction == levels # <<>>
Release == [op |-> "release"]
AfterRelease == LET i == CHOOSE i \in DOMAIN ops : ops[i] = Release IN SubSeq(ops, i + 1, Len(ops))

Unwind(left) ==
    /\ frames' = <<>> /\ deleting' = {} /\ root' = None
    /\ store' = Last(levels) /\ levels' = Front(levels)
    /\ IF Len(levels) > 1
       THEN ops' = AfterRelease /\ guards' = left /\ UNCHANGED <<todo, report, pending>>
       ELSE /\ ops' = <<>> /\ guards' = {}
            /\ todo' = IF req.isolated THEN todo ELSE <<>>
            /\ report' = [report EXCEPT !.skipped = @ + 1] /\ pending' = report'
    /\ UNCHANGED <<req, before>>
Throw == Unwind(guards)

Begin ==
    /\ req # None /\ ~InTransaction /\ todo # <<>>
    /\ levels' = <<store>> /\ ops' = Head(todo) /\ todo' = Tail(todo) /\ root' = None
    /\ pending' = report
    /\ UNCHANGED <<store, guards, frames, deleting, req, report, before, around>>

(* Mutant: the guards run when a write happens and not again at the commit.*)
GuardsHoldEarly == TRUE
GuardsHold == \A t \in guards : Writable(t)

Commit ==
    /\ InTransaction /\ ops = <<>> /\ frames = <<>>
    /\ IF GuardsHold
       THEN /\ levels' = <<>> /\ guards' = {} /\ report' = pending
            /\ UNCHANGED <<store, frames, deleting, req, todo, ops, root, pending, before>>
       ELSE Throw
    /\ UNCHANGED around

Running(kind) == InTransaction /\ frames = <<>> /\ ops # <<>> /\ Head(ops).op = kind

(* An operation writes, or throws because of a check or of a handler.      *)
Handlers == throws < MaxThrows /\ throws' = throws + 1
Others == UNCHANGED <<jobs, licenses, clock, revision, served, crashes>>
Fails(ok, t) ==
    /\ \E left \in {guards, guards \union {u \in {t} : Writable(u)}} : Unwind(left)
    /\ \/ Handlers /\ Others
       \/ ~ok /\ UNCHANGED around
Writes(ok, t, s, tally) ==
    /\ ok /\ store' = s /\ guards' = guards \union {t} /\ ops' = Tail(ops)
    /\ pending' = [pending EXCEPT ![tally] = @ + 1]
    /\ UNCHANGED <<levels, frames, deleting, req, todo, report, before, around>>

(* try { ctx.tts(...) } catch in a script: a savepoint around operations.  *)
Try ==
    /\ Running("try")
    /\ levels' = Append(levels, store)
    /\ ops' = Head(ops).body \o <<Release>> \o Tail(ops)
    /\ UNCHANGED <<store, guards, frames, deleting, req, todo, root, report, pending, before, around>>
ReleaseSavepoint ==
    /\ Running("release")
    /\ levels' = Front(levels) /\ ops' = Tail(ops)
    /\ UNCHANGED <<store, guards, frames, deleting, req, todo, root, report, pending, before, around>>

(* POST /api/data/:table: newRecord(), setMany(), _insert().               *)
InsertOp ==
    /\ Running("insert")
    /\ LET o == Head(ops)
           row == SetMany(NewRecord(o.table), WritableBody(o.table, o.values))
           ok == /\ BodyAccepted(o.table, o.values, "create")
                 /\ Allowed(o.table, "create") /\ Valid(o.table, row)
       IN \/ Fails(ok, o.table)
          \/ Writes(ok, o.table, Inserted(store, o.table, row), "inserted") /\ UNCHANGED root

(* PATCH /api/data/:table/:id: find() asks for read permission.            *)
PatchOp ==
    /\ Running("patch")
    /\ LET o == Head(ops)
           found == o.id \in DOMAIN store.rows[o.table]
           row == SetMany(store.rows[o.table][o.id], WritableBody(o.table, o.values))
           ok == /\ found /\ Allowed(o.table, "read")
                 /\ BodyAccepted(o.table, o.values, "update")
                 /\ Allowed(o.table, "update") /\ Valid(o.table, row)
       IN \/ Fails(ok, o.table)
          \/ ok /\ Writes(ok, o.table, Updated(store, o.table, o.id, row), "updated") /\ UNCHANGED root

(* One row of a file import in upsert mode; a row without its key inserts. *)
UpsertOp ==
    /\ Running("upsert")
    /\ LET o == Head(ops)
           mapped == Mapped(o.table, o.values)
           id == FirstOnly(Select(o.table, [f \in {o.key} |-> mapped[f]]))
           operation == IF id = None THEN "create" ELSE "update"
           row == SetMany(IF id = None THEN NewRecord(o.table) ELSE store.rows[o.table][id],
                          WritableBody(o.table, mapped))
           ok == /\ Allowed(o.table, "read") \/ mapped[o.key] = Null
                 /\ BodyAccepted(o.table, mapped, operation)
                 /\ Allowed(o.table, operation) /\ Valid(o.table, row)
       IN \/ Fails(ok, o.table)
          \/ /\ id = None
             /\ Writes(ok, o.table, Inserted(store, o.table, row), "inserted") /\ UNCHANGED root
          \/ /\ id # None
             /\ Writes(ok, o.table, Updated(store, o.table, id, row), "updated") /\ UNCHANGED root

(* importEntityDocument(): the header is found by its business key, a line *)
(* by its parent and its line key, both by the cells as they were read.    *)
(* What coerce() makes of them is stored; it refuses a text for a number.  *)
EntityOp ==
    /\ Running("entity")
    /\ LET o == Head(ops)
           own == IF o.parent = None THEN <<>> ELSE [f \in {o.parent} |-> root]
           keys == Over(own, [f \in {o.key} |-> Sought(o.table, f, o.values[f])])
           id == FirstOnly(Select(o.table, keys))
           operation == IF id = None THEN "create" ELSE "update"
           mapped == Mapped(o.table, o.values)
           values == Over(own, [f \in {g \in DOMAIN mapped : Editable(o.table, g, operation)} |-> mapped[f]])
           row == SetMany(IF id = None THEN NewRecord(o.table) ELSE store.rows[o.table][id], values)
           ok == /\ o.values[o.key] # Null
                 /\ \A f \in DOMAIN values : values[f] # NaN
                 /\ Allowed(o.table, "read") /\ Allowed(o.table, operation) /\ Valid(o.table, row)
           current == IF id = None THEN store.next[o.table] ELSE id
       IN \/ Fails(ok, o.table)
          \/ /\ id = None /\ root' = IF o.parent = None THEN current ELSE root
             /\ Writes(ok, o.table, Inserted(store, o.table, row), "inserted")
          \/ /\ id # None /\ root' = IF o.parent = None THEN current ELSE root
             /\ Writes(ok, o.table, Updated(store, o.table, id, row), "updated")

-----------------------------------------------------------------------------
(* Record drafts.  The snapshot lives in the business database, so that    *)
(* consuming the token and inserting the record are one transaction.       *)

NoDraft == [owner |-> None]
Draft(user, t, row) ==
    [owner |-> user, table |-> t, revision |-> revision, expired |-> FALSE,
     snapshot |-> row, record |-> None]

(* A token is a fresh UUID; those of the model run out.                    *)
Fresh(k) == store.drafts[k] = NoDraft /\ store.born[k] = {}

CreateDraft ==
    /\ Running("draft")
    /\ LET o == Head(ops)
           row == SetMany(NewRecord(o.table), WritableBody(o.table, o.values))
           ok == BodyAccepted(o.table, o.values, "create") /\ Allowed(o.table, "create")
           swept == [k \in Tokens |-> IF store.drafts[k].owner # None /\ store.drafts[k].expired
                                      THEN NoDraft ELSE store.drafts[k]]
       IN \/ Fails(ok, o.table)
          \/ \E k \in Tokens :
                /\ Fresh(k)
                /\ ok /\ store' = [store EXCEPT !.drafts = [swept EXCEPT ![k] = Draft(req.user, o.table, row)]]
                /\ ops' = Tail(ops)
                /\ UNCHANGED <<levels, guards, frames, deleting, req, todo, root, report, pending, before, around>>

(* Mutant: the draft is not marked as consumed.                            *)
ConsumedNever(s, k, id) == [s EXCEPT !.born[k] = @ \union {id}]
Consumed(s, k, id) ==
    [s EXCEPT !.drafts[k].record = id, !.drafts[k].snapshot = <<>>, !.born[k] = @ \union {id}]

(* A consumed draft answers with the record it became; otherwise it must   *)
(* be of the present revision of the metadata.                             *)
SaveDraft ==
    /\ Running("save")
    /\ LET o == Head(ops)
           d == store.drafts[o.token]
           usable == /\ d.owner = req.user /\ d.table = o.table /\ ~d.expired
                     /\ BodyAccepted(o.table, o.values, "create") /\ Allowed(o.table, "create")
           again == usable /\ d.record # None
           fresh == usable /\ d.record = None
           row == SetMany(d.snapshot, WritableBody(o.table, o.values))
           ok == IF again THEN Allowed(o.table, "read") /\ d.record \in DOMAIN store.rows[o.table]
                 ELSE fresh /\ d.revision = revision /\ Valid(o.table, row)
       IN \/ Fails(ok, o.table)
          \/ /\ again /\ ok /\ ops' = Tail(ops)
             /\ UNCHANGED <<store, levels, guards, frames, deleting, req, todo, root, report, pending, before, around>>
          \/ /\ fresh /\ ok
             /\ Writes(ok, o.table,
                       Consumed(Inserted(store, o.table, row), o.token, store.next[o.table]), "inserted")
             /\ UNCHANGED root

-----------------------------------------------------------------------------
(* Deletion.  A frame holds the references still to be looked at and the   *)
(* children hydrated for the current one, which follow by their ids.       *)

Frame(t, id) == [table |-> t, id |-> id, refs |-> References(t), kids |-> <<>>]
Top == Last(frames)
Replace(f) == frames' = Append(Front(frames), f)

EntryAllowed(t) == Allowed(t, "delete")

(* A row that is already being deleted further up is left to that call.    *)
Enter(t, id, rest) ==
    /\ EntryAllowed(t)
    /\ guards' = guards \union {t}
    /\ IF <<t, id>> \in deleting
       THEN frames' = rest /\ UNCHANGED deleting
       ELSE frames' = Append(rest, Frame(t, id)) /\ deleting' = deleting \union {<<t, id>>}

DeleteOp ==
    /\ Running("delete")
    /\ LET o == Head(ops)
           ok == /\ o.id \in DOMAIN store.rows[o.table] /\ Allowed(o.table, "read")
                 /\ EntryAllowed(o.table)
       IN \/ /\ ok /\ Enter(o.table, o.id, <<>>) /\ ops' = Tail(ops)
             /\ UNCHANGED <<store, levels, req, todo, root, report, pending, before, around>>
          \/ ~ok /\ Throw /\ UNCHANGED around

Children(r, id) ==
    LET ids == {i \in DOMAIN store.rows[From(r)] : store.rows[From(r)][i][Column(r).name] = id}
    IN [i \in ids |-> store.rows[From(r)][i]]
Childless(f) == DOMAIN f.kids = {}
NextChild(f) == FirstOnly(DOMAIN f.kids)

(* Mutant: a reference that nulls its children is looked at after the row  *)
(* was deleted, when none is left to be found.                             *)
FindChildrenRestrictOnly ==
    /\ frames # <<>> /\ Childless(Top) /\ Top.refs # {}
    /\ LET r == NextReference(Top.refs)
       IN IF DOMAIN Children(r, Top.id) # {} /\ Column(r).onDelete = "restrict"
          THEN Throw
          ELSE /\ Replace([Top EXCEPT !.refs = @ \ {r}])
               /\ UNCHANGED <<store, levels, guards, deleting, req, todo, ops, root, report, pending, before>>
    /\ UNCHANGED around

(* The next reference: a restricting one with children, or a mandatory one *)
(* that would be nulled, refuses the deletion.                             *)
FindChildren ==
    /\ frames # <<>> /\ Childless(Top) /\ Top.refs # {}
    /\ LET r == NextReference(Top.refs)
           kids == Children(r, Top.id)
           refused == \/ Column(r).onDelete = "restrict"
                      \/ Column(r).onDelete = "setNull" /\ Column(r).mandatory
       IN IF DOMAIN kids # {} /\ refused
          THEN Throw
          ELSE /\ Replace([Top EXCEPT !.kids = kids, !.refs = IF DOMAIN kids = {} THEN @ \ {r} ELSE @])
               /\ UNCHANGED <<store, levels, guards, deleting, req, todo, ops, root, report, pending, before>>
    /\ UNCHANGED around

(* Mutant: a child that was dealt with is looked at again.                 *)
AdvancedNever(f) == f

(* The children still to be dealt with, and then the next reference.       *)
Advanced(f) ==
    LET left == DOMAIN f.kids \ {NextChild(f)}
    IN [f EXCEPT !.kids = [i \in left |-> f.kids[i]],
                 !.refs = IF left = {} THEN @ \ {NextReference(@)} ELSE @]
(* The next child: nulled by an update of the row as it was hydrated, or   *)
(* deleted by a nested call.                                               *)
NullChild ==
    /\ frames # <<>> /\ ~Childless(Top)
    /\ LET r == NextReference(Top.refs)
           kid == NextChild(Top)
           row == [Top.kids[kid] EXCEPT ![Column(r).name] = Null]
           ok == Allowed(From(r), "update") /\ Valid(From(r), row)
       IN /\ Column(r).onDelete = "setNull"
          /\ \/ /\ ok /\ store' = Updated(store, From(r), kid, row)
                /\ guards' = guards \union {From(r)} /\ Replace(Advanced(Top))
                /\ UNCHANGED <<levels, deleting, req, todo, ops, root, report, pending, before, around>>
             \/ Fails(ok, From(r))
CascadeChild ==
    /\ frames # <<>> /\ ~Childless(Top)
    /\ LET r == NextReference(Top.refs)
           kid == NextChild(Top)
       IN /\ Column(r).onDelete = "cascade"
          /\ \/ /\ Enter(From(r), kid, Append(Front(frames), Advanced(Top)))
                /\ UNCHANGED <<store, levels, req, todo, ops, root, report, pending, before, around>>
             \/ ~EntryAllowed(From(r)) /\ Throw /\ UNCHANGED around

(* validateDelete, onDeleting, the DELETE, onDeleted; finally the key goes.*)
DeleteRow ==
    /\ frames # <<>> /\ Childless(Top) /\ Top.refs = {}
    /\ \/ /\ store' = Without(store, Top.table, Top.id)
          /\ frames' = Front(frames) /\ deleting' = deleting \ {<<Top.table, Top.id>>}
          /\ UNCHANGED <<levels, guards, req, todo, ops, root, report, pending, before, around>>
       \/ Fails(TRUE, Top.table)

-----------------------------------------------------------------------------
(* Requests.                                                               *)

NoReport == [inserted |-> 0, updated |-> 0, skipped |-> 0]
Serve(r) ==
    /\ req' = r /\ todo' = r.txns /\ ops' = <<>> /\ report' = NoReport /\ before' = store
    /\ UNCHANGED <<store, levels, guards, frames, deleting, root, pending>>

Admitted(r) ==
    /\ \A n \in r.needs : Can(r.user, n[1], n[2])
    /\ (\E i \in DOMAIN r.txns : r.txns[i][1].op = "draft") => \E k \in Tokens : Fresh(k)
Receive(r) ==
    /\ req = None /\ served < MaxRequests /\ Admitted(r)
    /\ Serve(r) /\ served' = served + 1
    /\ UNCHANGED <<jobs, licenses, clock, revision, throws, crashes>>

Answer ==
    /\ req # None /\ ~InTransaction /\ todo = <<>>
    /\ req' = None /\ report' = NoReport /\ before' = store
    /\ jobs' = IF req.job = None THEN jobs ELSE [jobs EXCEPT ![req.job].status = "completed"]
    /\ pending' = NoReport
    /\ UNCHANGED <<store, levels, guards, frames, deleting, todo, ops, root, licenses, clock, revision,
                   throws, served, crashes>>

(* POST /api/data-entities/:name/import/commit up to the first await: only *)
(* a staged job goes on, and it is marked before its file is read.         *)
StartJob(j) ==
    /\ jobs[j].status = "staged" /\ req = None /\ served < MaxRequests
    /\ Admitted(JobDocuments[j])
    /\ jobs' = [jobs EXCEPT ![j].status = "running", ![j].reading = @ + 1] /\ served' = served + 1
    /\ UNCHANGED <<store, machine, licenses, clock, revision, throws, crashes>>
ImportJob(j) ==
    /\ req = None /\ jobs[j].reading > 0
    /\ Serve(JobDocuments[j])
    /\ jobs' = [jobs EXCEPT ![j].reading = @ - 1, ![j].imports = @ + 1]
    /\ UNCHANGED <<licenses, clock, revision, throws, served, crashes>>

-----------------------------------------------------------------------------
(* The world around: time, licences, deployments, drafts that expire, and  *)
(* the process, which may end at any moment; SQLite then rolls back, and a *)
(* job that was running stays so.                                          *)

Tick ==
    /\ clock < MaxTime /\ clock' = clock + 1
    /\ UNCHANGED <<store, machine, jobs, licenses, revision, throws, served, crashes>>

InstallLicense(l) ==
    /\ req = None /\ clock < l.to /\ l.from < l.to
    /\ licenses[l.app] # None => l.seq > licenses[l.app].seq /\ l.from <= clock
    /\ licenses' = [licenses EXCEPT ![l.app] = l]
    /\ UNCHANGED <<store, machine, jobs, clock, revision, throws, served, crashes>>

Deploy ==
    /\ req = None /\ revision = 0 /\ revision' = 1
    /\ UNCHANGED <<store, machine, jobs, licenses, clock, throws, served, crashes>>
ExpireDraft(k) ==
    /\ req = None /\ store.drafts[k].owner # None /\ ~store.drafts[k].expired
    /\ store' = [store EXCEPT !.drafts[k].expired = TRUE]
    /\ UNCHANGED <<machine, around>>

Crash ==
    /\ crashes < MaxCrashes /\ crashes' = crashes + 1
    /\ store' = IF InTransaction THEN levels[1] ELSE store
    /\ levels' = <<>> /\ guards' = {} /\ frames' = <<>> /\ deleting' = {} /\ root' = None
    /\ req' = None /\ todo' = <<>> /\ ops' = <<>> /\ report' = NoReport /\ pending' = NoReport
    /\ before' = store'
    /\ jobs' = [j \in Jobs |-> [jobs[j] EXCEPT !.reading = 0]]
    /\ UNCHANGED <<licenses, clock, revision, throws, served>>

Init ==
    /\ store = [rows |-> InitialRows,
                next |-> [t \in Tables |-> Cardinality(DOMAIN InitialRows[t]) + 1],
                drafts |-> [k \in Tokens |-> NoDraft], born |-> [k \in Tokens |-> {}]]
    /\ levels = <<>> /\ guards = {} /\ frames = <<>> /\ deleting = {}
    /\ req = None /\ todo = <<>> /\ ops = <<>> /\ root = None /\ report = NoReport /\ pending = NoReport
    /\ before = store
    /\ jobs = [j \in Jobs |-> [status |-> "staged", reading |-> 0, imports |-> 0]]
    /\ licenses = [a \in Apps |-> None] /\ clock = 0 /\ revision = 0
    /\ throws = 0 /\ served = 0 /\ crashes = 0

Serving ==
    \/ Begin \/ Commit \/ Answer \/ Try \/ ReleaseSavepoint
    \/ InsertOp \/ PatchOp \/ UpsertOp \/ EntityOp \/ CreateDraft \/ SaveDraft
    \/ DeleteOp \/ FindChildren \/ NullChild \/ CascadeChild \/ DeleteRow

Next ==
    \/ \E r \in Requests : Receive(r)
    \/ \E j \in Jobs : StartJob(j) \/ ImportJob(j)
    \/ Serving
    \/ Tick \/ Deploy \/ Crash
    \/ \E l \in Licenses : InstallLicense(l)
    \/ \E k \in Tokens : ExpireDraft(k)

(* The process keeps running the code it has entered.                      *)
Spec == Init /\ [][Next]_vars /\ WF_vars(Serving)

-----------------------------------------------------------------------------
(* Properties.                                                             *)

committed == IF InTransaction THEN levels[1] ELSE store

(* The machine is in a state its parts agree on: no call outlives its      *)
(* transaction, and the rows being deleted are those of the open calls.    *)
TypeOK ==
    /\ \A t \in Tables : \A id \in DOMAIN store.rows[t] :
          id < store.next[t] /\ DOMAIN store.rows[t][id] = FieldNames(t)
    /\ guards \subseteq Tables /\ Len(levels) <= 2
    /\ (frames # <<>> \/ ops # <<>>) => InTransaction
    /\ deleting = {<<frames[i].table, frames[i].id>> : i \in DOMAIN frames}
    /\ Cardinality(deleting) = Len(frames)
    /\ \A j \in Jobs : jobs[j].status \in {"staged", "running", "completed"}

(* Nothing is committed to a table whose app is blocked at that moment,    *)
(* however long the transaction ran and through whichever cascade the      *)
(* write came (guardWrite() and the check before COMMIT).                  *)
WritesAreLicensed ==
    [][\A t \in Tables : committed'.rows[t] # committed.rows[t] => Writable(t)]_vars

(* Each row a request creates, changes or deletes, directly or by cascade, *)
(* is one its user has that permission for.                                *)
WritesArePermitted ==
    [][req # None => \A t \in Tables :
          LET old == committed.rows[t]
              new == committed'.rows[t]
          IN /\ DOMAIN new \ DOMAIN old # {} => Can(req.user, t, "create")
             /\ DOMAIN old \ DOMAIN new # {} => Can(req.user, t, "delete")
             /\ (\E id \in DOMAIN old \intersect DOMAIN new : old[id] # new[id])
                   => Can(req.user, t, "update")]_vars

(* A draft's token becomes at most one record, however often it is saved,  *)
(* also when the first answer was lost, a handler threw or the process     *)
(* ended in between.                                                       *)
OncePerToken ==
    \A k \in Tokens :
        /\ Cardinality(committed.born[k]) <= 1
        /\ committed.drafts[k] # NoDraft /\ committed.drafts[k].record # None
              => committed.born[k] = {committed.drafts[k].record}

(* When an import is about to answer, its report counts the rows that were *)
(* added, and it has not doubled a key that was unique before.  Excepted   *)
(* are the keys for which a document has a cell that findByKey() looks up  *)
(* as it is and coerce() stores as something else, a number for a text for *)
(* instance: such a document is inserted again whenever it is imported.    *)
FoundAsStored(o, n) ==
    o.op = "entity" /\ o.table = n[1] =>
        ImportValue(n[1], n[2], o.values[n[2]]) \in {Sought(n[1], n[2], o.values[n[2]]), NaN}
SureKeys(r) == {n \in r.keys : \A txn \in Range(r.txns) : \A o \in Range(txn) : FoundAsStored(o, n)}
Keys(rows, f) == {id \in DOMAIN rows : rows[id][f] # Null}
Unique(rows, f) == \A i, j \in Keys(rows, f) : rows[i][f] = rows[j][f] => i = j
ImportsAreFaithful ==
    req # None /\ req.isolated /\ ~InTransaction /\ todo = <<>> =>
        /\ \A n \in SureKeys(req) : Unique(before.rows[n[1]], n[2]) => Unique(store.rows[n[1]], n[2])
        /\ report.inserted =
              Cardinality(UNION {{<<t, id>> : id \in DOMAIN store.rows[t] \ DOMAIN before.rows[t]}
                                 : t \in Tables})

(* A staged import is carried out at most once, whichever commits race and *)
(* whenever the process ends.                                              *)
JobsImportOnce == \A j \in Jobs : jobs[j].imports <= 1

(* Installing a licence never blocks an app that was writable.             *)
RenewalKeepsWritable ==
    [][licenses' # licenses => \A t \in Tables : Writable(t) => Writable(t)']_vars

(* A form that is saved as it was loaded keeps its secrets: the mask the   *)
(* server shows in their place is never stored.                            *)
MasksAreNotStored ==
    \A t \in Tables : \A id \in DOMAIN store.rows[t] : \A f \in FieldNames(t) :
        Field(t, f).secret => store.rows[t][id][f] # Mask

(* Every request is answered: cascades end, also on cyclic data.           *)
EveryRequestEnds == (req # None) ~> (req = None)

(* "<table>.<field> is mandatory" (context.ts:113): no stored row lacks a  *)
(* mandatory field.                                                        *)
MandatoryIsSet ==
    \A t \in Tables : \A id \in DOMAIN committed.rows[t] : \A f \in FieldNames(t) :
        Field(t, f).mandatory => committed.rows[t][id][f] # Null

(* The machine's parts agree, a draft and a staged import are used once,   *)
(* and secrets stay secret.                                                *)
RecordsAreSound == TypeOK /\ OncePerToken /\ JobsImportOnce /\ MasksAreNotStored

(* Writes are licensed when they are committed, and permitted, and a new   *)
(* licence takes no right to write away.                                   *)
WritesAreGuarded == WritesAreLicensed /\ WritesArePermitted /\ RenewalKeepsWritable
=============================================================================
