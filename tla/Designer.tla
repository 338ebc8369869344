------------------------------ MODULE Designer ------------------------------
(***************************************************************************)
(* The metadata runtime: the artifacts stored in the designer database     *)
(* (FW_WebArtifact), the registry the kernel builds from them              *)
(* (packages/core/src/kernel.ts), the handlers their scripts register, the *)
(* physical tables of the data database, and the designer routes that      *)
(* change all of these together (packages/server/src/designer.ts).         *)
(*                                                                         *)
(* An artifact is a name with a version.  What a version refers to and     *)
(* what it defines are sets of symbols (an app, a model, a table, a field),*)
(* so that a registry is valid when every needed symbol is given.  Names   *)
(* have distinct kinds, so that the sorted candidate set, and with it the  *)
(* signature, is determined by the versions.                               *)
(***************************************************************************)
EXTENDS Naturals

CONSTANTS
    Names, Apps, Tables, Scripts,   \* artifact names; apps, tables, executables
    AppOf,                          \* the app an artifact that is no app is placed in
    Versions,                       \* artifact contents
    VersionsOf,                     \* the contents a client may send for a name
    Needs, Gives,                   \* symbols a content refers to, and defines
    Secret,                         \* table contents with an encrypted field
    Throws,                         \* scripts that throw when executed
    WithModel, WithoutModel,        \* a manifest after PUT and DELETE of its model
    InitialStore,                   \* FW_WebArtifact at the first start
    ChangeSets, Previews,           \* change sets clients send; preview ids
    FaultKinds, MaxFaults, MaxRequests, MaxRestarts

Absent == "absent"
Keep   == "keep"

ASSUME NamesAssumption ==
    /\ Apps \subseteq Names /\ Tables \subseteq Names /\ Scripts \subseteq Names
    /\ Tables \intersect Apps = {}
    /\ AppOf \in [Names -> Names]
ASSUME VersionsAssumption ==
    /\ Absent \notin Versions
    /\ VersionsOf \in [Names -> SUBSET Versions]
    /\ Secret \subseteq Versions /\ Throws \subseteq Versions
    /\ WithModel \in [Versions -> Versions] /\ WithoutModel \in [Versions -> Versions]
    /\ InitialStore \in [Names -> Versions \union {Absent}]
    /\ ChangeSets \subseteq [Names -> Versions \union {Absent, Keep}]
ASSUME SymbolsAssumption ==
    DOMAIN Needs = Versions /\ DOMAIN Gives = Versions
ASSUME BoundsAssumption ==
    /\ FaultKinds \subseteq {"migrate", "store", "commit"}
    /\ MaxFaults \in Nat /\ MaxRequests \in Nat /\ MaxRestarts \in Nat

Store == [Names -> Versions \union {Absent}]
NoSignature == {}     \* a signature is the set of the one value it stands for

VARIABLES
    stored,      \* FW_WebArtifact: the version stored under each name
    live,        \* the registry: the versions it was built from
    handlers,    \* scripts whose code ran since the handlers were last cleared
    execSig,     \* executableSignature
    okSig,       \* successfulWebSignature
    columns,     \* physical table: the symbols its columns provide
    rows,        \* how its rows hold a sensitive field: "none", "plain", "cipher"
    previews,    \* validated change sets waiting for confirmation
    audit,       \* FW_ChangeSetAudit: how often a preview has been applied
    pc,          \* where applyWebArtifactsAtomic is
    saved,       \* what its catch block and the two rollbacks go back to
    troubled,    \* since the start an apply reported errors or a write failed
    faults, requests, restarts

runtime  == <<live, handlers, execSig, okSig>>
physical == <<columns, rows>>
control  == <<pc, saved>>
bounds   == <<faults, requests, restarts>>
vars == <<stored, runtime, physical, previews, audit, control, troubled, bounds>>

-----------------------------------------------------------------------------
(* The registry built from a candidate set.                                *)

Present(c)  == {n \in Names : c[n] # Absent}
Symbols(c, names) == UNION {Gives[c[n]] : n \in names}
Keeping(c, names) == [n \in Names |-> IF n \in names THEN c[n] ELSE Absent]

(* Registered one at a time, each next to those already accepted, until no *)
(* further one is accepted: the least set closed under acceptance.         *)
Closed(c, names, base, X) ==
    \A n \in names \ X : ~(Needs[c[n]] \subseteq Symbols(c, base \union X \union {n}))
OneByOne(c, names, base) ==
    LET closed == {X \in SUBSET names : Closed(c, names, base, X)}
    IN {n \in names : \A X \in closed : n \in X}

(* Apps with missing dependencies, on a cycle, or depending on such an app *)
(* are isolated together with their artifacts.                             *)
ValidApps(c) == OneByOne(c, Apps \intersect Present(c), {})
Regular(c, apps) ==
    {n \in Present(c) \ Apps : AppOf[n] \in apps \/ AppOf[n] \notin Present(c)}

(* The fast path accepts all regular artifacts at once; when the registry  *)
(* rejects that set, the isolation path accepts them one by one.           *)
Accepted(c) ==
    LET apps == ValidApps(c)
        regular == Regular(c, apps)
        given == Symbols(c, apps \union regular)
    IN apps \union (IF \A n \in regular : Needs[c[n]] \subseteq given THEN regular
                    ELSE OneByOne(c, regular, apps))
Registry(c) == Keeping(c, Accepted(c))

(* migrateEncryptedFields(): rows follow the change of a field's encryption*)
(* against the previous registry; without one, an encrypted field encrypts.*)
Recoded(t, before, after) ==
    IF after[t] = Absent THEN rows[t]
    ELSE IF after[t] \in Secret /\ rows[t] = "plain" THEN "cipher"
    ELSE IF /\ before[t] # Absent /\ before[t] \in Secret /\ after[t] \notin Secret
            /\ rows[t] = "cipher" THEN "plain"
    ELSE rows[t]

(* syncSchema(): create the table, or add the columns it lacks.            *)
Widened(t, before, after) ==
    IF after[t] = Absent \/ after[t] = before[t] THEN columns[t]
    ELSE columns[t] \union Gives[after[t]]

(* What applyWebArtifacts() returns; errors carry the artifact's name, and *)
(* the artifacts of an isolated app are left out without an error.         *)
Executables(registry) == [n \in Scripts |-> registry[n]]
Isolated(c, registry) ==
    {n \in Present(c) : registry[n] = Absent /\ (n \in Apps \/ AppOf[n] \notin Present(c)
                                                \/ registry[AppOf[n]] # Absent)}
BadScripts(registry) ==
    IF Executables(registry) \in execSig THEN {}
    ELSE {s \in Scripts : registry[s] \in Throws}
Unchanged(c) == c \in okSig
Errors(c, registry, migrationFails) ==
    IF Unchanged(c) THEN {}
    ELSE Isolated(c, registry)
           \union (IF migrationFails THEN {"encrypted-field-migration"} ELSE BadScripts(registry))

(* The registry swap: tables are synchronised against the previous registry*)
(* and the handlers rebuilt when the accepted executables differ.          *)
SyncTables(registry) ==
    /\ columns' = [t \in Tables |-> Widened(t, live, registry)]
    /\ rows' = [t \in Tables |-> Recoded(t, live, registry)]

RebuildHandlers(registry) ==
    /\ execSig' = {Executables(registry)}
    /\ handlers' = IF Executables(registry) \in execSig THEN handlers ELSE Executables(registry)

(* applyWebArtifacts(): nothing when the candidate is the last one that was*)
(* applied without errors; no swap when the data migration fails.          *)
applyWebArtifacts(c, registry, migrationFails) ==
    IF Unchanged(c) \/ migrationFails THEN UNCHANGED <<runtime, physical>>
    ELSE /\ live' = registry
         /\ SyncTables(registry)
         /\ RebuildHandlers(registry)
         /\ okSig' = IF Errors(c, registry, FALSE) = {} THEN {c} ELSE okSig

-----------------------------------------------------------------------------
Nothing == [n \in Names |-> Absent]
Unsaved == [state |-> "unsaved"]
EmptyPreview == [state |-> "unused"]

Init ==
    /\ stored = InitialStore
    /\ live = Nothing /\ handlers = [s \in Scripts |-> Absent]
    /\ execSig = NoSignature /\ okSig = NoSignature
    /\ columns = [t \in Tables |-> {}] /\ rows = [t \in Tables |-> "none"]
    /\ previews = [p \in Previews |-> EmptyPreview]
    /\ audit = [p \in Previews |-> 0]
    /\ pc = "boot" /\ saved = Unsaved
    /\ troubled = FALSE
    /\ faults = 0 /\ requests = 0 /\ restarts = 0

(* A fault of this kind happens or not, within the bound.                  *)
Faulty(fault) == IF fault \in FaultKinds /\ faults < MaxFaults THEN BOOLEAN ELSE {FALSE}
Charge(faulty) == faults' = IF faulty THEN faults + 1 ELSE faults

Request == pc = "idle" /\ requests < MaxRequests /\ requests' = requests + 1

(* bootWebArtifacts(): the stored artifacts are merged into the registry.  *)
Boot ==
    /\ pc = "boot" /\ pc' = "idle"
    /\ \E fails \in Faulty("migrate") :
         LET registry == Registry(stored) IN
         /\ applyWebArtifacts(stored, registry, fails)
         /\ troubled' = (Errors(stored, registry, fails) # {})
         /\ Charge(fails)
    /\ UNCHANGED <<stored, previews, audit, saved, requests, restarts>>

(* POST and PUT of an artifact: apply the stored set with this one, refuse *)
(* when this artifact is in error, store it otherwise, whatever the other  *)
(* artifacts report.                                                       *)
Upsert(n, v) ==
    LET candidate == [stored EXCEPT ![n] = v]
        registry == Registry(candidate) IN
    \E fails \in Faulty("migrate"), storeFails \in Faulty("store") :
      LET errors == Errors(candidate, registry, fails) IN
      /\ ~(fails /\ storeFails)
      /\ applyWebArtifacts(candidate, registry, fails)
      /\ stored' = IF n \in errors \/ storeFails THEN stored ELSE candidate
      /\ troubled' = (troubled \/ errors # {} \/ storeFails)
      /\ Charge(fails \/ storeFails)

PutArtifact ==
    /\ Request
    /\ \E n \in Names : \E v \in VersionsOf[n] : Upsert(n, v)
    /\ UNCHANGED <<previews, audit, control, restarts>>

(* POST is create-only.                                                    *)
PostArtifact ==
    /\ Request
    /\ \E n \in Names : stored[n] = Absent /\ \E v \in VersionsOf[n] : Upsert(n, v)
    /\ UNCHANGED <<previews, audit, control, restarts>>

(* A route that writes rows first and applies what is then stored.  The    *)
(* rows are written one by one: a write that throws leaves the earlier ones*)
(* written and nothing applied.                                            *)
StoreThenApply(after) ==
    LET registry == Registry(after) IN
    \E fails \in Faulty("migrate"), storeFails \in Faulty("store") :
      /\ ~(fails /\ storeFails)
      /\ IF storeFails
         THEN /\ \E written \in SUBSET {n \in Names : after[n] # stored[n]} :
                   stored' = [n \in Names |-> IF n \in written THEN after[n] ELSE stored[n]]
              /\ troubled' = TRUE
              /\ UNCHANGED <<runtime, physical>>
         ELSE /\ stored' = after
              /\ applyWebArtifacts(after, registry, fails)
              /\ troubled' = (troubled \/ Errors(after, registry, fails) # {})
      /\ Charge(fails \/ storeFails)

DeleteArtifact ==
    /\ Request
    /\ \E n \in Names \ Apps : stored[n] # Absent /\ StoreThenApply([stored EXCEPT ![n] = Absent])
    /\ UNCHANGED <<previews, audit, control, restarts>>

(* Deleting an app deletes the metadata placed in it; its tables stay.     *)
DeleteApp ==
    /\ Request
    /\ \E a \in Apps :
         StoreThenApply([n \in Names |->
             IF n = a \/ (n \notin Apps /\ AppOf[n] = a) THEN Absent ELSE stored[n]])
    /\ UNCHANGED <<previews, audit, control, restarts>>

PutModel ==
    /\ Request
    /\ \E a \in Apps : stored[a] # Absent
                       /\ StoreThenApply([stored EXCEPT ![a] = WithModel[stored[a]]])
    /\ UNCHANGED <<previews, audit, control, restarts>>

DeleteModel ==
    /\ Request
    /\ \E a \in Apps :
         StoreThenApply([n \in Names |->
             IF n = a /\ stored[a] # Absent THEN WithoutModel[stored[a]]
             ELSE IF n \notin Apps /\ AppOf[n] = a THEN Absent ELSE stored[n]])
    /\ UNCHANGED <<previews, audit, control, restarts>>

(* POST reload: re-apply the stored set, then synchronise every live table.*)
Reload ==
    /\ Request
    /\ \E fails \in Faulty("migrate") :
         LET registry == Registry(stored)
             errors == Errors(stored, registry, fails)
             skips == Unchanged(stored) \/ fails
             now == IF skips THEN live ELSE registry
         IN /\ live' = now
            /\ IF skips THEN UNCHANGED <<handlers, execSig>> ELSE RebuildHandlers(registry)
            /\ okSig' = IF errors = {} THEN {stored} ELSE okSig
            /\ columns' = [t \in Tables |-> columns[t] \union
                              (IF now[t] = Absent THEN {} ELSE Gives[now[t]])]
            /\ rows' = [t \in Tables |-> Recoded(t, live, now)]
            /\ troubled' = (troubled \/ errors # {})
         /\ Charge(fails)
    /\ UNCHANGED <<stored, previews, audit, control, restarts>>

(* Mutant: the purge does not look at the registry.                        *)
PurgeAny ==
    /\ Request
    /\ \E t \in Tables : /\ columns' = [columns EXCEPT ![t] = {}]
                         /\ rows' = [rows EXCEPT ![t] = "none"]
    /\ UNCHANGED <<stored, runtime, previews, audit, control, troubled, faults, restarts>>

(* Purge of an orphaned table, refused while the registry has the table.   *)
Purge ==
    /\ Request
    /\ \E t \in Tables :
         /\ live[t] = Absent
         /\ columns' = [columns EXCEPT ![t] = {}]
         /\ rows' = [rows EXCEPT ![t] = "none"]
    /\ UNCHANGED <<stored, runtime, previews, audit, control, troubled, faults, restarts>>

(* A business write through the live table.                                *)
InsertRow ==
    /\ pc = "idle"
    /\ \E t \in Tables :
         /\ live[t] # Absent /\ rows[t] = "none" /\ columns[t] # {}
         /\ rows' = [rows EXCEPT ![t] = IF live[t] \in Secret THEN "cipher" ELSE "plain"]
    /\ UNCHANGED <<stored, runtime, columns, previews, audit, control, troubled, bounds>>

-----------------------------------------------------------------------------
(* Change sets: validate, keep the preview, confirm, apply atomically.     *)

Merge(base, ops) ==
    LET deletedApps == {a \in Apps : ops[a] = Absent} IN
    [n \in Names |-> IF ops[n] # Keep THEN ops[n]
                     ELSE IF n \notin Apps /\ AppOf[n] \in deletedApps THEN Absent
                     ELSE base[n]]

(* previewWebArtifacts(): a fresh kernel with script bodies blanked.       *)
PreviewErrors(c) == Isolated(c, Registry(c))

Validate ==
    /\ Request
    /\ \E p \in Previews, ops \in ChangeSets :
         /\ previews[p].state = "unused"
         /\ \A n \in Names : ops[n] = Absent => stored[n] # Absent
         /\ PreviewErrors(Merge(stored, ops)) = {}
         /\ previews' = [previews EXCEPT ![p] =
              [state |-> "waiting", ops |-> ops, base |-> stored, candidate |-> Merge(stored, ops)]]
    /\ UNCHANGED <<stored, runtime, physical, audit, control, troubled, faults, restarts>>

Gone == [state |-> "gone"]
Expire ==
    /\ pc = "idle"
    /\ \E p \in Previews : previews[p].state = "waiting" /\ previews' = [previews EXCEPT ![p] = Gone]
    /\ UNCHANGED <<stored, runtime, physical, audit, control, troubled, bounds>>

Save(p) == [preview |-> p, stored |-> stored, audit |-> audit,
            live |-> live, handlers |-> handlers, execSig |-> execSig, okSig |-> okSig, columns |-> columns, rows |-> rows]

(* applyWebArtifactsAtomic(): inside a transaction on both databases, check*)
(* the candidate again, apply it, ...                                      *)
BeginApply ==
    /\ Request
    /\ \E p \in Previews, fails \in Faulty("migrate") :
         /\ previews[p].state = "waiting" /\ previews[p].base = stored
         /\ saved' = Save(p)
         /\ LET candidate == previews[p].candidate  registry == Registry(candidate) IN
            /\ applyWebArtifacts(candidate, registry, fails)
            /\ pc' = IF Errors(candidate, registry, fails) # {} THEN "failing" ELSE "applied"
         /\ Charge(fails)
    /\ UNCHANGED <<stored, previews, audit, troubled, restarts>>

(* ... persist it with its audit row, ...                                  *)
Persist ==
    /\ pc = "applied" /\ pc' = "persisted"
    /\ stored' = previews[saved.preview].candidate
    /\ audit' = [audit EXCEPT ![saved.preview] = @ + 1]
    /\ UNCHANGED <<runtime, physical, previews, saved, troubled, bounds>>

(* ... commit the data database, then the designer database.               *)
CommitData ==
    /\ pc = "persisted" /\ pc' = "dataCommitted"
    /\ UNCHANGED <<stored, runtime, physical, previews, audit, saved, troubled, bounds>>

CommitDesigner ==
    /\ pc = "dataCommitted" /\ pc' = "idle" /\ saved' = Unsaved
    /\ previews' = [previews EXCEPT ![saved.preview] = Gone]
    /\ UNCHANGED <<stored, runtime, physical, audit, troubled, bounds>>

(* The databases roll back what was not committed.                         *)
RollBackStores ==
    /\ stored' = saved.stored /\ audit' = saved.audit
    /\ IF pc = "dataCommitted" THEN UNCHANGED physical
       ELSE columns' = saved.columns /\ rows' = saved.rows

(* Whether the step at hand throws: always when the apply reported errors. *)
Throwing ==
    \/ pc = "failing" /\ faults' = faults
    \/ /\ faults < MaxFaults /\ faults' = faults + 1
       /\ \/ "store" \in FaultKinds /\ pc \in {"applied", "persisted"}
          \/ "commit" \in FaultKinds /\ pc = "dataCommitted"

(* Mutant: the catch block forgets the signature of the last success.      *)
FailKeepingSignature ==
    /\ Throwing /\ RollBackStores /\ pc' = "idle" /\ saved' = Unsaved
    /\ live' = saved.live /\ handlers' = saved.handlers /\ execSig' = saved.execSig
    /\ UNCHANGED <<okSig, previews, troubled, requests, restarts>>

(* The catch block of applyWebArtifactsAtomic(): the runtime is put back.  *)
Fail ==
    /\ Throwing /\ RollBackStores /\ pc' = "idle" /\ saved' = Unsaved
    /\ live' = saved.live /\ handlers' = saved.handlers
    /\ execSig' = saved.execSig /\ okSig' = saved.okSig
    /\ UNCHANGED <<previews, troubled, requests, restarts>>

(* The process dies: memory is lost and open transactions roll back.       *)
Crash ==
    /\ restarts < MaxRestarts /\ restarts' = restarts + 1 /\ pc # "boot" /\ pc' = "boot"
    /\ live' = Nothing /\ handlers' = [s \in Scripts |-> Absent]
    /\ execSig' = NoSignature /\ okSig' = NoSignature
    /\ previews' = [p \in Previews |-> IF previews[p].state = "waiting" THEN Gone ELSE previews[p]]
    /\ saved' = Unsaved /\ troubled' = FALSE
    /\ IF saved = Unsaved THEN UNCHANGED <<stored, audit, physical>> ELSE RollBackStores
    /\ UNCHANGED <<faults, requests>>

Next ==
    \/ Boot \/ PutArtifact \/ PostArtifact \/ DeleteArtifact \/ DeleteApp
    \/ PutModel \/ DeleteModel \/ Reload \/ Purge \/ InsertRow
    \/ Validate \/ Expire \/ BeginApply \/ Persist \/ CommitData \/ CommitDesigner \/ Fail
    \/ Crash

Spec == Init /\ [][Next]_vars

-----------------------------------------------------------------------------
Saved == [preview : Previews, stored : Store, audit : [Previews -> Nat],
          live : Store, handlers : [Scripts -> Versions \union {Absent}],
          execSig : SUBSET [Scripts -> Versions \union {Absent}], okSig : SUBSET Store,
          columns : [Tables -> SUBSET UNION {Gives[v] : v \in Versions}],
          rows : [Tables -> {"none", "plain", "cipher"}]]
Waiting == [state : {"waiting"}, ops : [Names -> Versions \union {Absent, Keep}], base : Store, candidate : Store]

TypeOK ==
    /\ stored \in Store /\ live \in Store
    /\ handlers \in [Scripts -> Versions \union {Absent}]
    /\ execSig \subseteq [Scripts -> Versions \union {Absent}]
    /\ okSig \subseteq Store
    /\ columns \in [Tables -> SUBSET UNION {Gives[v] : v \in Versions}]
    /\ rows \in [Tables -> {"none", "plain", "cipher"}]
    /\ \A p \in Previews : previews[p] \in Waiting \union {EmptyPreview, Gone}
    /\ audit \in [Previews -> Nat]
    /\ pc \in {"boot", "idle", "failing", "applied", "persisted", "dataCommitted", "approving", "marking"}
    /\ saved \in Saved \union {Unsaved} /\ (saved = Unsaved) = (pc \in {"boot", "idle", "approving", "marking"})
    /\ troubled \in BOOLEAN
    /\ faults \in Nat /\ requests \in Nat /\ restarts \in Nat

(* Whatever was rejected, isolated, rolled back or left half-deleted, what *)
(* the registry serves is complete in itself: every live artifact's app,   *)
(* model, tables and fields are live (the isolation of kernel.ts).         *)
LiveIsClosed ==
    \A n \in Present(live) : Needs[live[n]] \subseteq Symbols(live, Present(live))

(* A table the registry serves exists physically with every column its     *)
(* metadata defines, through purges, rollbacks, restarts and the skipping  *)
(* of tables that look unchanged (kernel.ts:507-511).                      *)
LiveHasItsTables ==
    \A t \in Tables : live[t] # Absent => Gives[live[t]] \subseteq columns[t]

(* The handlers that run on business writes are those of the live scripts, *)
(* also after a failed deployment put the previous runtime back.           *)
HandlersAreLive == \A s \in Scripts : handlers[s] = live[s]

(* Rows of a live table whose field is encrypted never hold plain text,    *)
(* whether the table is new, re-adopted after being an orphan, restored by *)
(* a rollback or found at a restart (migrateEncryptedFields).              *)
EncryptedAtRest ==
    \A t \in Tables : live[t] \in Secret => rows[t] # "plain"

(* What is live is whole, through rejected saves, isolation, purges, failed *)
(* deployments and restarts.                                               *)
RuntimeIsSound == TypeOK /\ LiveIsClosed /\ LiveHasItsTables /\ HandlersAreLive /\ EncryptedAtRest

(* The registry is the one the stored artifacts define for as long as no   *)
(* apply has reported an error and no write has failed since the start:    *)
(* skipping an apply by its signature loses nothing then.                  *)
FreshUnlessTroubled == pc = "idle" /\ ~troubled => live = Registry(stored)

(* A reload leaves the registry that the stored artifacts define ("Re-apply*)
(* current web artifacts so registry is fresh", designer.ts:895).          *)
ReloadRefreshes == [][ Reload => live' = Registry(stored) ]_vars

(* The purge never drops a table whose metadata is stored ("The table is   *)
(* still active metadata and cannot be purged", designer.ts:645).          *)
PurgeSparesStored ==
    [][ Purge => \A t \in Tables : columns'[t] # columns[t] => stored[t] = Absent ]_vars

=============================================================================
