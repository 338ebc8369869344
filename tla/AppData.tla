------------------------------ MODULE AppData ------------------------------
(***************************************************************************)
(* Replacing and deleting the data of a whole app by an administrator      *)
(* (packages/server/src/appDataManagement.ts), beside the requests of the  *)
(* record layer.  No column declares a foreign key (core/src/db/           *)
(* schemaSync.ts:51), so the foreign_key_check of a replacement finds      *)
(* nothing: what protects references is the preview, which may be ten      *)
(* minutes old when it is confirmed.  A package whose form, version, table *)
(* set, schema or checksums do not fit is refused without a trace; those of*)
(* the model fit, but may be of different moments for different tables,    *)
(* since createPackage() lets other requests in between.  The audit log is *)
(* left out.                                                               *)
(***************************************************************************)
EXTENDS Records

CONSTANT Packages    \* packages of earlier exports: app, rows by table

ASSUME PackagesAssumption ==
    \A p \in Packages :
        /\ p.app \in Apps /\ DOMAIN p.rows = {t \in Tables : AppOf[t] = p.app}
        /\ \A t \in DOMAIN p.rows :
              /\ DOMAIN p.rows[t] \subseteq Nat /\ IsFiniteSet(DOMAIN p.rows[t])
              /\ \A id \in DOMAIN p.rows[t] : Fits(t, p.rows[t][id])

VARIABLE
    previews    \* to be confirmed; seen is history: the other apps' rows then

Admins == {u \in Users : "FW_SystemAdminRole" \in RolesOf[u]}
AppTables(a) == {t \in Tables : AppOf[t] = a}
Elsewhere(a) == [t \in Tables \ AppTables(a) |-> store.rows[t]]
With(a, incoming) == Over(incoming, store.rows)

(* The references of all rows, as table, id, field and the id they mean.   *)
ReferencesIn(rows) ==
    UNION {{<<t, id, f, rows[t][id][f.name]>> :
                id \in DOMAIN rows[t], f \in {f \in Range(Fields[t]) : f.type = "reference"}} : t \in Tables}
Dangling(rows) == {r \in ReferencesIn(rows) : r[4] # Null /\ r[4] \notin DOMAIN rows[r[3].to]}
-----------------------------------------------------------------------------
Administer ==
    /\ req = None /\ served < MaxRequests /\ served' = served + 1
    /\ UNCHANGED <<jobs, licenses, clock, revision, throws, crashes>>
Unserved == UNCHANGED <<store, before>>
Machine == UNCHANGED <<levels, guards, frames, deleting, req, todo, ops, root, report, pending>>

(* validateReferences(): of the rows there would be, every reference from  *)
(* the app and into it means a row that is there.                          *)
validateReferences(a, incoming) ==
    \A r \in Dangling(With(a, incoming)) : AppOf[r[1]] # a /\ AppOf[r[3].to] # a

Preview(u, p) ==
    /\ Administer /\ Unserved /\ Machine
    /\ validateReferences(p.app, p.rows)
    /\ previews' = previews \union {[actor |-> u, app |-> p.app, rows |-> p.rows, seen |-> Elsewhere(p.app)]}
ExpirePreview(p) ==
    /\ req = None /\ previews' = previews \ {p}
    /\ UNCHANGED vars

(* replaceData(), one transaction.  The licence is asked for before and    *)
(* after the writing; ids that were given out are not given out again.     *)
Beyond(next, ids) == CHOOSE n \in {next} \union {i + 1 : i \in ids} :
                        n >= next /\ \A i \in ids : i < n
replaceData(a, incoming) ==
    /\ a \notin BlockedApps
    /\ store' = [store EXCEPT !.rows = With(a, incoming),
                              !.next = [t \in Tables |-> Beyond(@[t], DOMAIN With(a, incoming)[t])]]
    /\ before' = store'

Replacement(u, p) ==
    /\ Administer /\ Machine /\ p.actor = u
    /\ replaceData(p.app, p.rows) /\ previews' = previews \ {p}

(* DELETE /api/system/app-data/:app; externalDeleteBlockers() refuses.     *)
DeleteData(a) ==
    /\ Administer /\ Machine
    /\ \A r \in ReferencesIn(store.rows) : AppOf[r[1]] # a /\ AppOf[r[3].to] = a => r[4] = Null
    /\ replaceData(a, [t \in AppTables(a) |-> << >>])
    /\ UNCHANGED previews

(* The other requests; a preview ends with the process.                    *)
Working ==
    /\ Next
    /\ previews' = IF crashes' = crashes THEN previews ELSE {}

DataInit == Init /\ previews = {}
DataNext ==
    \/ Working
    \/ \E a \in Apps : DeleteData(a)
    \/ \E u \in Admins : (\E p \in Packages : Preview(u, p)) \/ (\E p \in previews : Replacement(u, p))
    \/ \E p \in previews : ExpirePreview(p)
DataSpec == DataInit /\ [][DataNext]_<<vars, previews>> /\ WF_vars(Serving)
-----------------------------------------------------------------------------
(* No committed step takes a row away that is still referred to, along     *)
(* cascades, nulled references and cycles (deleteWithinTransaction()), and *)
(* when all of an app's rows go or are replaced, also by a package whose   *)
(* tables were read at different moments; nor does a replacement bring     *)
(* references to nothing.  Only a request may write one, to a row that had *)
(* gone before, since writes do not look references up.  The exception is a*)
(* preview confirmed after another app's rows have changed: references are *)
(* not validated again.                                                    *)
NothingDangles ==
    [][\/ committed'.rows = committed.rows
       \/ \A r \in Dangling(committed'.rows) \ Dangling(committed.rows) :
              req # None /\ r[4] \notin DOMAIN committed.rows[r[3].to]
       \/ \E p \in previews \ previews' : Elsewhere(p.app) # p.seen]_<<vars, previews>>

(* "Imported data failed foreign-key integrity validation"                 *)
(* (appDataManagement.ts:232): whatever a confirmed preview leaves behind  *)
(* has no reference that dangles.                                          *)
ReplacedIsValidated ==
    [][req = None => Dangling(committed'.rows) \subseteq Dangling(committed.rows)]_<<vars, previews>>
=============================================================================
