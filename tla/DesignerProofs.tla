---------------------------- MODULE DesignerProofs ----------------------------
(***************************************************************************)
(* Safety of the designer's workspace, with its proposals and packages,    *)
(* for every set of artifacts, versions, change sets and packages and      *)
(* every bound, as long as the designer database commits once the data     *)
(* database has (the two commits are no transaction).                      *)
(***************************************************************************)
EXTENDS Packages, TLAPS

-----------------------------------------------------------------------------
(* What the registry accepts.                                              *)

LEMMA MoreNamesMoreSymbols ==
    ASSUME NEW c, NEW A, NEW B, A \subseteq B
    PROVE  Symbols(c, A) \subseteq Symbols(c, B)
  BY DEF Symbols

(* Accepting artifacts one by one ends in a set that is closed: whatever   *)
(* one of them needs, the base or another accepted one gives.              *)
LEMMA AcceptedOneByOneIsClosed ==
    ASSUME NEW c, NEW names, NEW base
    PROVE  /\ OneByOne(c, names, base) \subseteq names
           /\ \A n \in OneByOne(c, names, base) :
                 Needs[c[n]] \subseteq Symbols(c, base \union OneByOne(c, names, base))
  <1> DEFINE Least == OneByOne(c, names, base)
  <1>1. Least \subseteq names
    BY DEF OneByOne
  <1>2. ASSUME NEW n \in Least,
               ~(Needs[c[n]] \subseteq Symbols(c, base \union Least))
        PROVE  FALSE
    <2> DEFINE X == Least \ {n}
    <2>1. ASSUME NEW m \in names \ X
          PROVE  ~(Needs[c[m]] \subseteq Symbols(c, base \union X \union {m}))
      <3>1. CASE m = n
        <4>1. base \union X \union {m} = base \union Least
          BY <3>1
        <4>2. QED
          BY <4>1, <3>1, <1>2
      <3>2. CASE m # n
        <4>1. m \notin Least
          BY <3>2
        <4>2. PICK Y \in SUBSET names : Closed(c, names, base, Y) /\ m \notin Y
          BY <4>1 DEF OneByOne
        <4>3. ~(Needs[c[m]] \subseteq Symbols(c, base \union Y \union {m}))
          BY <4>2 DEF Closed
        <4>4. X \subseteq Y
          BY <4>2 DEF OneByOne
        <4>5. Symbols(c, base \union X \union {m}) \subseteq Symbols(c, base \union Y \union {m})
          <5>1. base \union X \union {m} \subseteq base \union Y \union {m}
            BY <4>4
          <5>2. QED
            BY <5>1, MoreNamesMoreSymbols
        <4>6. QED
          BY <4>3, <4>5
      <3>3. QED
        BY <3>1, <3>2
    <2>2. Closed(c, names, base, X)
      BY <2>1 DEF Closed
    <2>3. X \in SUBSET names
      BY <1>1
    <2>4. n \in X
      BY <1>2, <2>2, <2>3 DEF OneByOne
    <2>5. QED
      BY <2>4
  <1>3. QED
    BY <1>1, <1>2

LEMMA AcceptedIsClosed ==
    ASSUME NEW c
    PROVE  /\ Accepted(c) \subseteq Present(c)
           /\ \A n \in Accepted(c) : Needs[c[n]] \subseteq Symbols(c, Accepted(c))
  <1> DEFINE apps == ValidApps(c)
             regular == Regular(c, apps)
             kept == IF \A n \in regular : Needs[c[n]] \subseteq Symbols(c, apps \union regular)
                     THEN regular ELSE OneByOne(c, regular, apps)
  <1>1. Accepted(c) = apps \union kept
    BY DEF Accepted
  <1>2. /\ apps \subseteq Apps \intersect Present(c)
        /\ \A n \in apps : Needs[c[n]] \subseteq Symbols(c, {} \union apps)
    BY AcceptedOneByOneIsClosed DEF ValidApps
  <1>3. /\ kept \subseteq regular
        /\ \A n \in kept : Needs[c[n]] \subseteq Symbols(c, apps \union kept)
    <2>1. CASE \A n \in regular : Needs[c[n]] \subseteq Symbols(c, apps \union regular)
      BY <2>1
    <2>2. CASE ~\A n \in regular : Needs[c[n]] \subseteq Symbols(c, apps \union regular)
      <3>1. kept = OneByOne(c, regular, apps)
        BY <2>2
      <3> HIDE DEF kept, regular, apps
      <3>2. QED
        BY <3>1, AcceptedOneByOneIsClosed
    <2>3. QED
      BY <2>1, <2>2
  <1>4. regular \subseteq Present(c)
    BY DEF Regular
  <1>5. {} \union apps \subseteq apps \union kept
    OBVIOUS
  <1> HIDE DEF kept, regular, apps
  <1>6. Symbols(c, {} \union apps) \subseteq Symbols(c, apps \union kept)
    BY <1>5, MoreNamesMoreSymbols
  <1>7. \A n \in apps \union kept : Needs[c[n]] \subseteq Symbols(c, apps \union kept)
    BY <1>2, <1>3, <1>6
  <1>8. QED
    BY <1>1, <1>2, <1>3, <1>4, <1>7

(* A registry built from stored artifacts is complete in itself.           *)
LEMMA RegistryIsClosed ==
    ASSUME NEW c \in Store
    PROVE  /\ Registry(c) \in Store
           /\ \A n \in Present(Registry(c)) :
                 Needs[Registry(c)[n]] \subseteq Symbols(Registry(c), Present(Registry(c)))
  <1>1. Registry(c) \in Store
    BY DEF Registry, Keeping, Store
  <1>2. Accepted(c) \subseteq Present(c) /\ Present(c) \subseteq Names
    BY AcceptedIsClosed DEF Present
  <1>3. Present(Registry(c)) = Accepted(c)
    BY <1>2 DEF Registry, Keeping, Present
  <1>4. \A n \in Accepted(c) : Registry(c)[n] = c[n]
    BY <1>2 DEF Registry, Keeping
  <1>5. Symbols(Registry(c), Accepted(c)) = Symbols(c, Accepted(c))
    BY <1>4 DEF Symbols
  <1>6. QED
    BY <1>1, <1>3, <1>4, <1>5, AcceptedIsClosed

-----------------------------------------------------------------------------
(* The registry, its handlers and its tables, now or saved: what is live is*)
(* closed, has its tables and its handlers, and hides what is secret.      *)

Columns == SUBSET UNION {Gives[v] : v \in Versions}
Contents == {"none", "plain", "cipher"}
Codes == [Scripts -> Versions \union {Absent}]

RuntimeTypes(reg, hand, exec, ok, cols, content) ==
    /\ reg \in Store /\ hand \in Codes /\ exec \subseteq Codes /\ ok \subseteq Store
    /\ cols \in [Tables -> Columns] /\ content \in [Tables -> Contents]
Whole(reg, hand, exec, cols, content) ==
    /\ \A n \in Present(reg) : Needs[reg[n]] \subseteq Symbols(reg, Present(reg))
    /\ \A t \in Tables : reg[t] # Absent => Gives[reg[t]] \subseteq cols[t]
    /\ \A s \in Scripts : hand[s] = reg[s]
    /\ \A t \in Tables : reg[t] \in Secret => content[t] # "plain"
    /\ exec \subseteq {Executables(reg)}
Current(reg, ok) == \A c \in ok : reg = Registry(c)

RuntimeInv ==
    /\ RuntimeTypes(live, handlers, execSig, okSig, columns, rows)
    /\ Whole(live, handlers, execSig, columns, rows)

(* Synchronising the tables gives them what the new registry needs, and    *)
(* encrypts the rows it calls secret.                                      *)
LEMMA SyncedTables ==
    ASSUME RuntimeInv, NEW registry \in Store, SyncTables(registry)
    PROVE  /\ columns' \in [Tables -> Columns] /\ rows' \in [Tables -> Contents]
           /\ \A t \in Tables : registry[t] # Absent => Gives[registry[t]] \subseteq columns'[t]
           /\ \A t \in Tables : registry[t] \in Secret => rows'[t] # "plain"
  <1> USE NamesAssumption, VersionsAssumption
      DEF RuntimeInv, RuntimeTypes, Whole, SyncTables, Store, Contents
  <1>1. ASSUME NEW t \in Tables
        PROVE  /\ columns'[t] = Widened(t, live, registry) /\ columns'[t] \in Columns
               /\ registry[t] # Absent => Gives[registry[t]] \subseteq columns'[t]
    BY <1>1 DEF Widened, Columns
  <1>2. ASSUME NEW t \in Tables
        PROVE  /\ rows'[t] = Recoded(t, live, registry) /\ rows'[t] \in Contents
               /\ registry[t] \in Secret => rows'[t] # "plain"
    BY <1>2 DEF Recoded
  <1>3. QED
    BY <1>1, <1>2

LEMMA RebuiltHandlers ==
    ASSUME RuntimeInv, NEW registry \in Store, RebuildHandlers(registry)
    PROVE  /\ handlers' \in Codes /\ execSig' \subseteq Codes
           /\ \A s \in Scripts : handlers'[s] = registry[s]
           /\ execSig' \subseteq {Executables(registry)}
  <1> USE DEF RuntimeInv, RuntimeTypes, Whole, RebuildHandlers
  <1>1. Executables(registry) \in Codes
    BY NamesAssumption DEF Executables, Store, Codes
  <1>2. CASE Executables(registry) \in execSig
    <2>1. Executables(registry) = Executables(live)
      BY <1>2
    <2>2. \A s \in Scripts : registry[s] = live[s]
      BY <2>1 DEF Executables
    <2>3. QED
      BY <1>1, <1>2, <2>2
  <1>3. CASE Executables(registry) \notin execSig
    BY <1>1, <1>3 DEF Executables
  <1>4. QED
    BY <1>2, <1>3

(* applyWebArtifacts() leaves a whole runtime, whatever it reports.        *)
LEMMA ApplyIsSound ==
    ASSUME RuntimeInv, NEW c \in Store, NEW fails,
           applyWebArtifacts(c, Registry(c), fails)
    PROVE  RuntimeInv'
  <1>1. CASE Unchanged(c) \/ fails
    BY <1>1 DEF applyWebArtifacts, runtime, physical, RuntimeInv, RuntimeTypes, Whole
  <1>2. CASE ~(Unchanged(c) \/ fails)
    <2>1. /\ live' = Registry(c) /\ SyncTables(Registry(c)) /\ RebuildHandlers(Registry(c))
          /\ okSig' \in {{c}, okSig}
      BY <1>2 DEF applyWebArtifacts
    <2>2. okSig' \subseteq Store
      BY <2>1 DEF RuntimeInv, RuntimeTypes
    <2>3. Registry(c) \in Store
      BY RegistryIsClosed
    <2>4. QED
      BY <2>1, <2>2, <2>3, RegistryIsClosed, SyncedTables, RebuiltHandlers
         DEF RuntimeInv, RuntimeTypes, Whole
  <1>3. QED
    BY <1>1, <1>2

(* Without errors, it leaves the registry of what it was given.            *)
LEMMA ApplyIsCurrent ==
    ASSUME Current(live, okSig), NEW c, NEW fails,
           applyWebArtifacts(c, Registry(c), fails), Errors(c, Registry(c), fails) = {}
    PROVE  live' = Registry(c) /\ Current(live', okSig')
  <1>1. CASE Unchanged(c)
    BY <1>1 DEF Unchanged, Current, applyWebArtifacts, runtime
  <1>2. CASE ~Unchanged(c)
    <2>1. ~fails
      BY <1>2 DEF Errors
    <2>2. Errors(c, Registry(c), FALSE) = {}
      BY <1>2, <2>1 DEF Errors
    <2>3. QED
      BY <1>2, <2>1, <2>2 DEF applyWebArtifacts, Current
  <1>3. QED
    BY <1>1, <1>2

-----------------------------------------------------------------------------
(* The inductive invariant.                                                *)

(* A previewed change set is waiting as it was validated; once it is stored*)
(* it is counted, and with the commit it is gone.                          *)
PreviewInv ==
    /\ previews = [p \in Previews |-> previews[p]]
    /\ \A p \in Previews : previews[p].state = "waiting" =>
          previews[p].candidate = Merge(previews[p].base, previews[p].ops)
    /\ \A p \in Previews : audit[p] <= 1
    /\ saved = Unsaved => \A p \in Previews : previews[p].state # "gone" => audit[p] = 0

(* What the catch block and the rollbacks go back to is whole, and is what *)
(* the change set was validated against.                                   *)
SavedInv ==
    saved # Unsaved =>
        /\ Whole(saved.live, saved.handlers, saved.execSig, saved.columns, saved.rows)
        /\ previews[saved.preview].state = "waiting"
        /\ saved.stored = previews[saved.preview].base
        /\ \A p \in Previews :
              saved.audit[p] <= 1 /\ (previews[p].state # "gone" => saved.audit[p] = 0)
        /\ pc \in {"failing", "applied"} => stored = saved.stored /\ audit = saved.audit
        /\ pc \in {"persisted", "dataCommitted"} =>
              /\ stored = previews[saved.preview].candidate
              /\ audit = [saved.audit EXCEPT ![saved.preview] = 1]

(* As long as nothing has been reported, the registry is that of what is   *)
(* stored, or about to be, and so is each signature.                       *)
FreshInv ==
    /\ pc = "boot" => ~troubled
    /\ ~troubled =>
        /\ pc \in {"idle", "marking"} => live = Registry(stored)
        /\ pc # "failing" => Current(live, okSig)
        /\ pc \in {"applied", "persisted", "dataCommitted"} =>
              live = Registry(previews[saved.preview].candidate)
        /\ pc = "approving" => live = Registry(Merge(stored, proposals[approving].ops))
        /\ saved # Unsaved => saved.live = Registry(saved.stored) /\ Current(saved.live, saved.okSig)

(* The ledger of proposals: every storing is marked, or counted as one     *)
(* whose mark was lost, or about to be marked.                             *)
Proposed == [status : {"pending", "approved", "rejected"}, ops : ChangeSets, base : Store]
ProposalInv ==
    /\ \A p \in Proposals : proposals[p] \in {Unsent, Deleted} \union Proposed
    /\ proposals = [p \in Proposals |-> proposals[p]]
    /\ applied \in [Proposals -> Nat] /\ unmarked \in [Proposals -> Nat]
    /\ pc \in {"approving", "marking"} =>
          approving \in Proposals /\ proposals[approving].status = "pending"
    /\ pc = "approving" => proposals[approving].base = stored
    /\ pc = "marking" => applied[approving] = unmarked[approving] + 1
    /\ \A p \in Proposals :
          /\ proposals[p].status = "unsent" => applied[p] = unmarked[p]
          /\ proposals[p].status = "approved" => applied[p] = unmarked[p] + 1
          /\ proposals[p].status = "rejected" => applied[p] = unmarked[p]
          /\ proposals[p].status = "pending" =>
                applied[p] = unmarked[p] \/ (pc = "marking" /\ approving = p)
          /\ applied[p] <= unmarked[p] + 1

(* The contents of apps are manifests, in the store and in change sets.    *)
ManifestInv ==
    \A a \in Apps :
        /\ stored[a] \in Manifests \union {Absent}
        /\ saved # Unsaved => saved.stored[a] \in Manifests \union {Absent}
        /\ \A p \in Previews : previews[p].state = "waiting" =>
              previews[p].ops[a] \in Manifests \union {Absent, Keep}

IInv == TypeOK /\ RuntimeInv /\ PreviewInv /\ SavedInv /\ FreshInv /\ ProposalInv /\ ManifestInv

-----------------------------------------------------------------------------
(* Helpers keep their types.                                               *)

Ops == [Names -> Versions \union {Absent, Keep}]

LEMMA MergeIsStore ==
    ASSUME NEW base \in Store, NEW ops \in Ops
    PROVE  Merge(base, ops) \in Store
  BY DEF Merge, Store, Ops

LEMMA MergeKeepsManifests ==
    ASSUME NEW base \in Store, NEW ops \in Ops, NEW a \in Apps,
           base[a] \in Manifests \union {Absent}, ops[a] \in Manifests \union {Absent, Keep}
    PROVE  Merge(base, ops)[a] \in Manifests \union {Absent}
  BY NamesAssumption DEF Merge

LEMMA FaultyIsBoolean ==
    ASSUME NEW kind, NEW fault \in Faulty(kind) PROVE fault \in BOOLEAN
  BY Zenon DEF Faulty

LEMMA ChargedFaults == ASSUME faults \in Nat, NEW fault, Charge(fault) PROVE faults' \in Nat
  BY DEF Charge

LEMMA SomeErrors == ASSUME NEW S, NEW n \in S PROVE S # {}
  OBVIOUS

(* The runtime's types are those of TypeOK.                                *)
LEMMA RuntimeTypesAreTypes ==
    RuntimeTypes(live, handlers, execSig, okSig, columns, rows) <=>
        /\ live \in Store /\ handlers \in [Scripts -> Versions \union {Absent}]
        /\ execSig \subseteq [Scripts -> Versions \union {Absent}]
        /\ okSig \subseteq Store
        /\ columns \in [Tables -> SUBSET UNION {Gives[v] : v \in Versions}]
        /\ rows \in [Tables -> {"none", "plain", "cipher"}]
  BY DEF RuntimeTypes, Codes, Columns, Contents

-----------------------------------------------------------------------------
(* Steps between requests: the workspace is idle after them, and what is   *)
(* stored, if nothing has been reported, is what is live.                  *)
LEMMA IdleStep ==
    ASSUME IInv, pc \in {"boot", "idle"}, pc' = "idle",
           RuntimeInv', stored' \in Store, troubled' \in BOOLEAN,
           ~troubled' => live' = Registry(stored') /\ Current(live', okSig'),
           \A a \in Apps : stored'[a] \in Manifests \union {Absent},
           UNCHANGED <<previews, audit, saved, proposals, applied, unmarked, restarts>>,
           faults' \in Nat, requests' \in Nat
    PROVE  IInv'
  <1>1. saved = Unsaved /\ saved' = Unsaved
    BY DEF IInv, TypeOK
  <1>2. TypeOK'
    BY <1>1, RuntimeTypesAreTypes, SMTT(20) DEF IInv, RuntimeInv, TypeOK, RuntimeTypes, Codes, Columns, Contents
  <1>3. PreviewInv' /\ SavedInv'
    BY <1>1 DEF IInv, PreviewInv, SavedInv
  <1>4. FreshInv'
    BY <1>1 DEF FreshInv
  <1>5. ProposalInv'
    BY DEF IInv, ProposalInv
  <1>6. ManifestInv'
    BY <1>1 DEF IInv, ManifestInv
  <1>7. QED
    BY <1>2, <1>3, <1>4, <1>5, <1>6 DEF IInv

(* Writing one artifact keeps the store a store.                           *)
LEMMA UpsertStep ==
    ASSUME IInv, Request, NEW n \in Names, NEW v \in VersionsOf[n], Upsert(n, v),
           UNCHANGED <<previews, audit, control, restarts, proposals, applied, unmarked>>
    PROVE  IInv'
  <1> DEFINE candidate == [stored EXCEPT ![n] = v]
  <1>1. candidate \in Store /\ stored \in Store
    BY VersionsAssumption DEF IInv, TypeOK, Store
  <1>2. \A a \in Apps : candidate[a] \in Manifests \union {Absent}
                        /\ stored[a] \in Manifests \union {Absent}
    BY <1>1, ManifestsAssumption, NamesAssumption DEF IInv, ManifestInv, Store
  <1>3. PICK fails \in Faulty("migrate"), storeFails \in Faulty("store") :
          /\ applyWebArtifacts(candidate, Registry(candidate), fails)
          /\ stored' = IF n \in Errors(candidate, Registry(candidate), fails) \/ storeFails
                       THEN stored ELSE candidate
          /\ troubled' = \/ troubled \/ Errors(candidate, Registry(candidate), fails) # {}
                         \/ storeFails
          /\ Charge(fails \/ storeFails)
    BY DEF Upsert
  <1> HIDE DEF candidate
  <1>4. RuntimeInv'
    BY <1>1, <1>3, ApplyIsSound DEF IInv
  <1>5. stored' \in {stored, candidate} /\ troubled' \in BOOLEAN
    BY <1>3, FaultyIsBoolean DEF IInv, TypeOK
  <1>6. ASSUME ~troubled' PROVE live' = Registry(stored') /\ Current(live', okSig')
    <2>1. /\ ~troubled /\ Errors(candidate, Registry(candidate), fails) = {} /\ ~storeFails
      BY <1>3, <1>6
    <2>2. stored' = candidate
      BY <1>3, <2>1
    <2>3. Current(live, okSig)
      BY <2>1 DEF IInv, FreshInv, Request
    <2>4. QED
      BY <1>3, <2>1, <2>2, <2>3, ApplyIsCurrent
  <1>7. faults' \in Nat /\ requests' \in Nat /\ pc = "idle" /\ pc' = "idle"
    BY <1>3, ChargedFaults DEF IInv, TypeOK, Request, control
  <1>8. QED
    BY <1>1, <1>2, <1>4, <1>5, <1>6, <1>7, IdleStep DEF control

(* Writing rows first and applying what is then stored.                    *)
LEMMA StoreThenApplyStep ==
    ASSUME IInv, Request, NEW after \in Store, StoreThenApply(after),
           \A a \in Apps : after[a] \in Manifests \union {Absent},
           UNCHANGED <<previews, audit, control, restarts, proposals, applied, unmarked>>
    PROVE  IInv'
  <1>1. PICK fails \in Faulty("migrate"), storeFails \in Faulty("store") :
          /\ IF storeFails
             THEN /\ \E written \in SUBSET {n \in Names : after[n] # stored[n]} :
                       stored' = [n \in Names |-> IF n \in written THEN after[n] ELSE stored[n]]
                  /\ troubled' = TRUE
                  /\ UNCHANGED <<runtime, physical>>
             ELSE /\ stored' = after
                  /\ applyWebArtifacts(after, Registry(after), fails)
                  /\ troubled' = (troubled \/ Errors(after, Registry(after), fails) # {})
          /\ Charge(fails \/ storeFails)
    BY DEF StoreThenApply
  <1>2. faults' \in Nat /\ requests' \in Nat /\ pc = "idle" /\ pc' = "idle"
    BY <1>1, ChargedFaults DEF IInv, TypeOK, Request, control
  <1>3. stored \in Store /\ \A a \in Apps : stored[a] \in Manifests \union {Absent}
    BY DEF IInv, TypeOK, ManifestInv
  <1>4. CASE storeFails
    <2>1. stored' \in Store /\ \A a \in Apps : stored'[a] \in Manifests \union {Absent}
      BY <1>1, <1>3, <1>4, NamesAssumption DEF Store
    <2>2. RuntimeInv'
      BY <1>1, <1>4 DEF IInv, RuntimeInv, RuntimeTypes, Whole, runtime, physical
    <2>3. troubled' = TRUE
      BY <1>1, <1>4
    <2>4. QED
      BY <1>2, <2>1, <2>2, <2>3, IdleStep DEF control
  <1>5. CASE ~storeFails
    <2>1. /\ stored' = after /\ applyWebArtifacts(after, Registry(after), fails)
          /\ troubled' = (troubled \/ Errors(after, Registry(after), fails) # {})
      BY <1>1, <1>5
    <2>2. RuntimeInv'
      BY <2>1, ApplyIsSound DEF IInv
    <2>3. ASSUME ~troubled' PROVE live' = Registry(stored') /\ Current(live', okSig')
      <3>1. ~troubled /\ Errors(after, Registry(after), fails) = {}
        BY <2>1, <2>3
      <3>2. Current(live, okSig)
        BY <3>1 DEF IInv, FreshInv, Request
      <3>3. QED
        BY <2>1, <3>1, <3>2, ApplyIsCurrent
    <2>4. troubled' \in BOOLEAN
      BY <2>1 DEF IInv, TypeOK
    <2>5. QED
      BY <1>2, <2>1, <2>2, <2>3, <2>4, IdleStep DEF control
  <1>6. QED
    BY <1>4, <1>5

-----------------------------------------------------------------------------
(* The designer's requests.                                                *)

Frame == UNCHANGED <<tokens, proposals, applied, unmarked>>

LEMMA BootStep == ASSUME IInv, Boot, Frame PROVE IInv'
  <1>1. PICK fails \in Faulty("migrate") :
          /\ applyWebArtifacts(stored, Registry(stored), fails)
          /\ troubled' = (Errors(stored, Registry(stored), fails) # {})
          /\ Charge(fails)
    BY DEF Boot
  <1>2. stored \in Store /\ stored' = stored /\ ~troubled
    BY DEF Boot, IInv, TypeOK, FreshInv
  <1>3. RuntimeInv'
    BY <1>1, <1>2, ApplyIsSound DEF IInv
  <1>4. ~troubled' => live' = Registry(stored') /\ Current(live', okSig')
    BY <1>1, <1>2, ApplyIsCurrent DEF IInv, FreshInv, Boot
  <1>5. faults' \in Nat /\ requests' \in Nat
    BY <1>1, ChargedFaults DEF IInv, TypeOK, Boot
  <1>6. QED
    BY <1>1, <1>2, <1>3, <1>4, <1>5, IdleStep DEF Boot, Frame, IInv, ManifestInv

LEMMA WriteSteps ==
    ASSUME IInv, Frame,
           PutArtifact \/ PostArtifact \/ DeleteArtifact \/ DeleteApp \/ PutModel \/ DeleteModel
    PROVE  IInv'
  <1> USE DEF Frame
  <1>1. stored \in Store /\ \A a \in Apps : stored[a] \in Manifests \union {Absent}
    BY DEF IInv, TypeOK, ManifestInv
  <1>2. CASE PutArtifact
    BY <1>2, UpsertStep DEF PutArtifact
  <1>3. CASE PostArtifact
    BY <1>3, UpsertStep DEF PostArtifact
  <1>4. CASE DeleteArtifact
    <2>1. PICK n \in Names \ Apps : StoreThenApply([stored EXCEPT ![n] = Absent])
      BY <1>4 DEF DeleteArtifact
    <2> DEFINE after == [stored EXCEPT ![n] = Absent]
    <2>2. after \in Store /\ \A a \in Apps : after[a] \in Manifests \union {Absent}
      BY <1>1, NamesAssumption DEF Store
    <2> HIDE DEF after
    <2>3. StoreThenApply(after)
      BY <2>1 DEF after
    <2>4. QED
      BY <1>4, <2>2, <2>3, StoreThenApplyStep DEF DeleteArtifact
  <1>5. CASE DeleteApp
    <2>1. PICK d \in Apps :
            StoreThenApply([n \in Names |->
                IF n = d \/ (n \notin Apps /\ AppOf[n] = d) THEN Absent ELSE stored[n]])
      BY <1>5 DEF DeleteApp
    <2> DEFINE after == [n \in Names |->
                IF n = d \/ (n \notin Apps /\ AppOf[n] = d) THEN Absent ELSE stored[n]]
    <2>2. after \in Store /\ \A a \in Apps : after[a] \in Manifests \union {Absent}
      BY <1>1, NamesAssumption DEF Store
    <2>3. StoreThenApply(after)
      BY <2>1
    <2> HIDE DEF after
    <2>4. QED
      BY <1>5, <2>2, <2>3, StoreThenApplyStep DEF DeleteApp
  <1>6. CASE PutModel
    <2>1. PICK d \in Apps : stored[d] # Absent
                            /\ StoreThenApply([stored EXCEPT ![d] = WithModel[stored[d]]])
      BY <1>6 DEF PutModel
    <2> DEFINE after == [stored EXCEPT ![d] = WithModel[stored[d]]]
    <2>2. WithModel[stored[d]] \in Manifests /\ Manifests \subseteq Versions
      BY <1>1, <2>1, ManifestsAssumption
    <2>3. after \in Store /\ \A a \in Apps : after[a] \in Manifests \union {Absent}
      BY <1>1, <2>2, NamesAssumption DEF Store
    <2>4. StoreThenApply(after)
      BY <2>1
    <2> HIDE DEF after
    <2>5. QED
      BY <1>6, <2>3, <2>4, StoreThenApplyStep DEF PutModel
  <1>7. CASE DeleteModel
    <2>1. PICK d \in Apps :
            StoreThenApply([n \in Names |->
                IF n = d /\ stored[d] # Absent THEN WithoutModel[stored[d]]
                ELSE IF n \notin Apps /\ AppOf[n] = d THEN Absent ELSE stored[n]])
      BY <1>7 DEF DeleteModel
    <2> DEFINE after == [n \in Names |->
                IF n = d /\ stored[d] # Absent THEN WithoutModel[stored[d]]
                ELSE IF n \notin Apps /\ AppOf[n] = d THEN Absent ELSE stored[n]]
    <2>2. /\ stored[d] # Absent => WithoutModel[stored[d]] \in Manifests
          /\ Manifests \subseteq Versions
      BY <1>1, ManifestsAssumption
    <2>3. after \in Store
      BY <1>1, <2>2 DEF Store
    <2>4. \A a \in Apps : after[a] \in Manifests \union {Absent}
      BY <1>1, <2>2, NamesAssumption
    <2>5. StoreThenApply(after)
      BY <2>1
    <2> HIDE DEF after
    <2>6. QED
      BY <1>7, <2>3, <2>4, <2>5, StoreThenApplyStep DEF DeleteModel
  <1>8. QED
    BY <1>2, <1>3, <1>4, <1>5, <1>6, <1>7

(* A reload swaps the registry as an apply does, and widens every table.   *)
LEMMA ReloadStep == ASSUME IInv, Reload, Frame PROVE IInv'
  <1> DEFINE registry == Registry(stored)
  <1>1. PICK fails \in Faulty("migrate") :
         LET errors == Errors(stored, registry, fails)
             skips == Unchanged(stored) \/ fails
             now == IF skips THEN live ELSE registry
         IN /\ live' = now
            /\ IF skips THEN UNCHANGED <<handlers, execSig>> ELSE RebuildHandlers(registry)
            /\ okSig' = IF errors = {} THEN {stored} ELSE okSig
            /\ columns' = [t \in Tables |-> columns[t] \union
                              (IF now[t] = Absent THEN {} ELSE Gives[now[t]])]
            /\ rows' = [t \in Tables |-> Recoded(t, live, now)]
            /\ troubled' = (troubled \/ errors # {})
            /\ Charge(fails)
    BY DEF Reload
  <1> DEFINE skips == Unchanged(stored) \/ fails
             now == IF skips THEN live ELSE registry
             errors == Errors(stored, registry, fails)
  <1>2. stored \in Store /\ registry \in Store /\ now \in Store /\ stored' = stored
    BY RegistryIsClosed DEF IInv, TypeOK, Reload
  <1>3. /\ live' = now /\ troubled' = (troubled \/ errors # {})
        /\ okSig' = IF errors = {} THEN {stored} ELSE okSig
    BY <1>1
  <1>4. /\ \A n \in Present(now) : Needs[now[n]] \subseteq Symbols(now, Present(now))
        /\ \A s \in Scripts : handlers'[s] = now[s]
        /\ handlers' \in Codes /\ execSig' \subseteq Codes /\ execSig' \subseteq {Executables(now)}
    <2>1. CASE skips
      BY <1>1, <2>1 DEF IInv, RuntimeInv, RuntimeTypes, Whole
    <2>2. CASE ~skips
      <3>1. now = registry /\ RebuildHandlers(registry)
        BY <1>1, <2>2
      <3>2. QED
        BY <1>2, <3>1, RegistryIsClosed, RebuiltHandlers DEF IInv
    <2>3. QED
      BY <2>1, <2>2
  <1> HIDE DEF now
  <1>5. /\ columns' = [t \in Tables |-> columns[t] \union
                          (IF now[t] = Absent THEN {} ELSE Gives[now[t]])]
        /\ rows' = [t \in Tables |-> Recoded(t, live, now)]
    BY <1>1 DEF now
  <1>6. columns' \in [Tables -> Columns]
        /\ \A t \in Tables : now[t] # Absent => Gives[now[t]] \subseteq columns'[t]
    BY <1>2, <1>5, NamesAssumption DEF IInv, RuntimeInv, RuntimeTypes, Store, Columns
  <1>7. rows' \in [Tables -> Contents] /\ \A t \in Tables : now[t] \in Secret => rows'[t] # "plain"
    BY <1>2, <1>5, NamesAssumption, VersionsAssumption
       DEF IInv, RuntimeInv, RuntimeTypes, Store, Contents, Recoded
  <1>8. okSig' \subseteq Store
    BY <1>2, <1>3 DEF IInv, RuntimeInv, RuntimeTypes
  <1>9. RuntimeInv'
    BY <1>2, <1>3, <1>4, <1>6, <1>7, <1>8 DEF RuntimeInv, RuntimeTypes, Whole
  <1>10. ASSUME ~troubled' PROVE live' = Registry(stored') /\ Current(live', okSig')
    <2>1. ~troubled /\ errors = {} /\ pc = "idle" /\ live = Registry(stored)
      BY <1>3, <1>10 DEF IInv, FreshInv, Reload, Request
    <2>2. now = Registry(stored)
      BY <2>1 DEF now
    <2>3. QED
      BY <1>2, <1>3, <2>1, <2>2 DEF Current
  <1>11. /\ troubled' \in BOOLEAN /\ faults' \in Nat /\ requests' \in Nat
         /\ pc = "idle" /\ pc' = "idle"
    BY <1>1, <1>3, ChargedFaults DEF IInv, TypeOK, Reload, Request, control
  <1>12. QED
    BY <1>2, <1>9, <1>10, <1>11, IdleStep DEF Reload, Frame, control, IInv, ManifestInv

(* A purge takes a table the registry lacks; a row is written as its live  *)
(* table wants it.                                                         *)
LEMMA TableSteps == ASSUME IInv, Purge \/ InsertRow, Frame PROVE IInv'
  <1>1. RuntimeInv'
    <2>1. CASE Purge
      BY <2>1, VersionsAssumption DEF Purge, IInv, RuntimeInv, RuntimeTypes, Whole, Columns, Contents, runtime
    <2>2. CASE InsertRow
      BY <2>2 DEF InsertRow, IInv, RuntimeInv, RuntimeTypes, Whole, Contents, runtime
    <2>3. QED
      BY <2>1, <2>2
  <1>2. /\ pc = "idle" /\ pc' = "idle" /\ faults' \in Nat /\ requests' \in Nat
        /\ UNCHANGED <<stored, live, okSig, troubled, previews, audit, saved, restarts>>
    BY DEF Purge, InsertRow, Request, runtime, control, bounds, IInv, TypeOK
  <1>3. ~troubled' => live' = Registry(stored') /\ Current(live', okSig')
    BY <1>2 DEF IInv, FreshInv
  <1>4. QED
    BY <1>1, <1>2, <1>3, IdleStep DEF Frame, IInv, TypeOK, ManifestInv

-----------------------------------------------------------------------------
(* Change sets.                                                            *)

Still == UNCHANGED <<stored, runtime, physical, audit, control, troubled, faults, restarts>>

(* A change set that has validated waits with what it was validated for.   *)
LEMMA WaitingStep ==
    ASSUME IInv, Request, Still, Frame, NEW p \in Previews, NEW ops \in Ops,
           \A a \in Apps : ops[a] \in Manifests \union {Absent, Keep},
           previews' = [previews EXCEPT ![p] =
              [state |-> "waiting", ops |-> ops, base |-> stored, candidate |-> Merge(stored, ops)]],
           previews[p].state = "unused"
    PROVE  IInv'
  <1> DEFINE new == [state |-> "waiting", ops |-> ops, base |-> stored, candidate |-> Merge(stored, ops)]
  <1>1. stored \in Store /\ Merge(stored, ops) \in Store /\ saved = Unsaved /\ saved' = Unsaved
    BY MergeIsStore DEF IInv, TypeOK, Request, Still, control
  <1>2. new \in Waiting
    BY <1>1 DEF Waiting, Ops
  <1>3. /\ previews' = [q \in Previews |-> previews'[q]]
        /\ \A q \in Previews : previews'[q] = IF q = p THEN new ELSE previews[q]
    BY DEF IInv, PreviewInv
  <1>4. new.state = "waiting" /\ new.candidate = Merge(new.base, new.ops) /\ new.ops = ops
    OBVIOUS
  <1> HIDE DEF new
  <1> USE DEF Still, runtime, physical, control
  <1>5. requests' \in Nat /\ pc = "idle" /\ pc' = "idle"
    BY DEF Request, IInv, TypeOK
  <1>6. TypeOK'
    BY <1>1, <1>2, <1>3, <1>5 DEF IInv, TypeOK
  <1>7. RuntimeInv'
    BY DEF IInv, RuntimeInv, RuntimeTypes, Whole
  <1>8. PreviewInv' /\ SavedInv'
    BY <1>1, <1>3, <1>4 DEF IInv, PreviewInv, SavedInv
  <1>9. FreshInv'
    BY <1>1, <1>5 DEF IInv, FreshInv
  <1>10. ProposalInv'
    BY <1>5 DEF IInv, ProposalInv, Frame
  <1>11. ManifestInv'
    BY <1>1, <1>3, <1>4 DEF IInv, ManifestInv
  <1>12. QED
    BY <1>6, <1>7, <1>8, <1>9, <1>10, <1>11 DEF IInv

LEMMA ValidateStep == ASSUME IInv, Validate, Frame PROVE IInv'
  <1>1. PICK p \in Previews, ops \in ChangeSets :
         /\ previews[p].state = "unused"
         /\ previews' = [previews EXCEPT ![p] =
              [state |-> "waiting", ops |-> ops, base |-> stored, candidate |-> Merge(stored, ops)]]
    BY DEF Validate
  <1>2. ops \in Ops
    BY VersionsAssumption DEF Ops
  <1>3. \A a \in Apps : ops[a] \in Manifests \union {Absent, Keep}
    BY ManifestsAssumption
  <1>4. QED
    BY <1>1, <1>2, <1>3, WaitingStep DEF Validate, Still

(* What a package asks for is a change set on manifests and contents.      *)
LEMMA PackageOperations ==
    ASSUME NEW pkg \in Packages, NEW base \in Store,
           \A a \in Apps : base[a] \in Manifests \union {Absent}
    PROVE  /\ modelPackageOperations(base, pkg) \in Ops
           /\ modelPackageOperations(base, pkg)[pkg.app] \in Manifests
           /\ pkg.models \subseteq ModelsOf[modelPackageOperations(base, pkg)[pkg.app]]
           /\ base[pkg.app] # Absent => ModelsOf[base[pkg.app]] \subseteq
                                        ModelsOf[modelPackageOperations(base, pkg)[pkg.app]]
           /\ \A a \in Apps \ {pkg.app} : modelPackageOperations(base, pkg)[a] = Keep
  <1> DEFINE old == base[pkg.app]  new == pkg.artifacts[pkg.app]
             listed == ModelsOf[old] \union ModelsOf[new]
             ops == modelPackageOperations(base, pkg)
  <1>1. /\ pkg.app \in Apps /\ pkg.app \in Names /\ new \in Manifests /\ new \in Versions
        /\ old \in Manifests \union {Absent} /\ pkg.models \subseteq ModelsOf[new]
    BY PackageAssumption, ManifestsAssumption, NamesAssumption
  <1>2. CASE old = Absent
    <2>1. mergeAppManifest(base, pkg) = new
      BY <1>2 DEF mergeAppManifest
    <2>2. QED
      <3>1. ops[pkg.app] = new
        BY <1>1, <2>1 DEF modelPackageOperations
      <3>2. ops \in Ops
        BY <1>1, <2>1, PackageAssumption DEF modelPackageOperations, Ops
      <3>3. \A a \in Apps \ {pkg.app} : ops[a] = Keep
        BY <1>1, PackageAssumption, NamesAssumption DEF modelPackageOperations, Replaced, Placed
      <3>4. QED
        BY <1>1, <1>2, <3>1, <3>2, <3>3
  <1>3. CASE old # Absent
    <2>1. old \in Manifests /\ old \in Versions
      BY <1>1, <1>3, ManifestsAssumption
    <2>2. listed \in SUBSET Models
      BY <1>1, <2>1, PackagesAssumption
    <2>3. PICK v \in {old, new} : mergeAppManifest(base, pkg) = WithModels[v][listed]
      BY <1>3 DEF mergeAppManifest
    <2>4. /\ WithModels[v][listed] \in Manifests /\ WithModels[v][listed] \in Versions
          /\ ModelsOf[WithModels[v][listed]] = listed
      <3>1. v \in Manifests /\ Manifests \subseteq Versions
        BY <1>1, <2>1, ManifestsAssumption
      <3>2. \A models \in SUBSET Models :
               WithModels[v][models] \in Manifests /\ ModelsOf[WithModels[v][models]] = models
        BY <3>1, ManifestsAssumption
      <3>3. QED
        BY <2>2, <3>1, <3>2
    <2>5. ops[pkg.app] = WithModels[v][listed]
      BY <1>1, <2>3 DEF modelPackageOperations
    <2>6. ops \in Ops
      BY <1>1, <2>3, <2>4, PackageAssumption DEF modelPackageOperations, Ops
    <2>7. \A a \in Apps \ {pkg.app} : ops[a] = Keep
      BY <1>1, PackageAssumption, NamesAssumption DEF modelPackageOperations, Replaced, Placed
    <2>8. QED
      BY <1>1, <2>4, <2>5, <2>6, <2>7
  <1>4. QED
    BY <1>2, <1>3

LEMMA PreviewPackageStep == ASSUME IInv, PreviewPackage PROVE IInv'
  <1>1. PICK p \in Previews, pkg \in Packages :
         /\ previews[p].state = "unused"
         /\ previews' = [previews EXCEPT ![p] =
              [state |-> "waiting", ops |-> modelPackageOperations(stored, pkg), base |-> stored,
               candidate |-> Merge(stored, modelPackageOperations(stored, pkg))]]
    BY DEF PreviewPackage
  <1> DEFINE ops == modelPackageOperations(stored, pkg)
  <1>2. stored \in Store /\ \A a \in Apps : stored[a] \in Manifests \union {Absent}
    BY DEF IInv, TypeOK, ManifestInv
  <1>3. ops \in Ops /\ \A a \in Apps : ops[a] \in Manifests \union {Absent, Keep}
    BY <1>2, PackageOperations
  <1> HIDE DEF ops
  <1>4. previews' = [previews EXCEPT ![p] =
              [state |-> "waiting", ops |-> ops, base |-> stored, candidate |-> Merge(stored, ops)]]
    BY <1>1 DEF ops
  <1>5. Request /\ Still /\ Frame
    BY DEF PreviewPackage, Still, Frame, inbox
  <1>6. QED
    BY <1>1, <1>3, <1>4, <1>5, WaitingStep

LEMMA ExpireStep == ASSUME IInv, Expire, Frame PROVE IInv'
  <1>1. PICK p \in Previews : previews[p].state = "waiting" /\ previews' = [previews EXCEPT ![p] = Gone]
    BY DEF Expire
  <1>2. /\ previews' = [q \in Previews |-> previews'[q]]
        /\ \A q \in Previews : previews'[q] = IF q = p THEN Gone ELSE previews[q]
    BY <1>1 DEF IInv, PreviewInv
  <1> USE DEF Expire, runtime, physical, control, bounds
  <1>3. saved = Unsaved /\ saved' = Unsaved /\ pc = "idle" /\ pc' = "idle"
    BY DEF IInv, TypeOK
  <1>4. TypeOK'
    BY <1>2, <1>3 DEF IInv, TypeOK
  <1>5. RuntimeInv'
    BY DEF IInv, RuntimeInv, RuntimeTypes, Whole
  <1>6. PreviewInv' /\ SavedInv'
    BY <1>2, <1>3 DEF IInv, PreviewInv, SavedInv, Gone
  <1>7. FreshInv'
    BY <1>3 DEF IInv, FreshInv
  <1>8. ProposalInv'
    BY <1>3 DEF IInv, ProposalInv, Frame
  <1>9. ManifestInv'
    BY <1>2, <1>3 DEF IInv, ManifestInv, Gone
  <1>10. QED
    BY <1>4, <1>5, <1>6, <1>7, <1>8, <1>9 DEF IInv

-----------------------------------------------------------------------------
(* Confirming a change set.                                                *)

(* A saved state is a record of its own kind.                              *)
LEMMA SavedIsNotUnsaved == ASSUME NEW s \in Saved PROVE s # Unsaved
  <1>1. s.preview \in Previews /\ DOMAIN s = {"preview", "stored", "audit", "live", "handlers",
                                              "execSig", "okSig", "columns", "rows"}
    BY DEF Saved
  <1>2. DOMAIN Unsaved = {"state"}
    BY DEF Unsaved
  <1>3. QED
    BY <1>1, <1>2

LEMMA BeginApplyStep == ASSUME IInv, BeginApply, Frame PROVE IInv'
  <1>1. PICK p \in Previews, fails \in Faulty("migrate") :
         LET candidate == previews[p].candidate IN
         /\ previews[p].state = "waiting" /\ previews[p].base = stored
         /\ saved' = Save(p)
         /\ applyWebArtifacts(candidate, Registry(candidate), fails)
         /\ pc' = IF Errors(candidate, Registry(candidate), fails) # {} THEN "failing" ELSE "applied"
         /\ Charge(fails)
    BY DEF BeginApply
  <1> DEFINE candidate == previews[p].candidate
             errors == Errors(candidate, Registry(candidate), fails)
  <1>2. previews[p] \in Waiting
    BY <1>1 DEF IInv, TypeOK, EmptyPreview, Gone
  <1>3. candidate \in Store
    BY <1>2 DEF Waiting
  <1>4. RuntimeInv'
    BY <1>1, <1>3, ApplyIsSound DEF IInv
  <1>5. Save(p) \in Saved
    BY RuntimeTypesAreTypes DEF IInv, TypeOK, RuntimeInv, Save, Saved
  <1>6. saved' # Unsaved /\ saved' \in Saved /\ saved = Unsaved /\ pc = "idle"
    BY <1>1, <1>5, SavedIsNotUnsaved DEF IInv, TypeOK, BeginApply, Request
  <1>7. /\ pc' \in {"failing", "applied"} /\ faults' \in Nat /\ requests' \in Nat
        /\ UNCHANGED <<stored, previews, audit, troubled, restarts, proposals, applied, unmarked>>
    BY <1>1, ChargedFaults DEF BeginApply, Frame, IInv, TypeOK, Request
  <1>8. /\ saved'.preview = p /\ saved'.stored = stored /\ saved'.audit = audit
        /\ saved'.live = live /\ saved'.handlers = handlers /\ saved'.execSig = execSig
        /\ saved'.okSig = okSig /\ saved'.columns = columns /\ saved'.rows = rows
    BY <1>1 DEF Save
  <1>9. TypeOK'
    BY <1>4, <1>6, <1>7, RuntimeTypesAreTypes DEF IInv, TypeOK, RuntimeInv, RuntimeTypes, Codes, Columns, Contents
  <1>10. PreviewInv'
    BY <1>6, <1>7 DEF IInv, PreviewInv
  <1>11. SavedInv'
    <2>1. Whole(saved'.live, saved'.handlers, saved'.execSig, saved'.columns, saved'.rows)
      BY <1>8 DEF IInv, RuntimeInv
    <2>2. QED
      BY <1>1, <1>6, <1>7, <1>8, <2>1 DEF IInv, PreviewInv, SavedInv
  <1>12. FreshInv'
    <2>1. CASE errors = {}
      <3>1. pc' = "applied"
        BY <1>1, <2>1
      <3>2. ASSUME ~troubled
            PROVE  /\ live' = Registry(previews[p].candidate) /\ Current(live', okSig')
                   /\ live = Registry(stored) /\ Current(live, okSig)
        <4>1. live = Registry(stored) /\ Current(live, okSig)
          BY <1>6, <3>2 DEF IInv, FreshInv
        <4>2. QED
          BY <1>1, <2>1, <4>1, ApplyIsCurrent
      <3>3. QED
        BY <1>7, <1>8, <3>1, <3>2 DEF FreshInv
    <2>2. CASE errors # {}
      <3>1. pc' = "failing"
        BY <1>1, <2>2
      <3>2. QED
        BY <1>6, <1>7, <1>8, <3>1 DEF IInv, FreshInv
    <2>3. QED
      BY <2>1, <2>2
  <1>13. ProposalInv'
    BY <1>6, <1>7 DEF IInv, ProposalInv
  <1>14. ManifestInv'
    BY <1>6, <1>7, <1>8 DEF IInv, ManifestInv
  <1>15. QED
    BY <1>4, <1>9, <1>10, <1>11, <1>12, <1>13, <1>14 DEF IInv

(* What is waiting to be stored.                                           *)
LEMMA SavedPreview ==
    ASSUME IInv, saved # Unsaved
    PROVE  /\ saved \in Saved /\ saved.preview \in Previews
           /\ previews[saved.preview] \in Waiting
           /\ saved.stored \in Store /\ saved.audit \in [Previews -> Nat]
           /\ previews[saved.preview].candidate
                = Merge(saved.stored, previews[saved.preview].ops)
  <1>1. saved \in Saved
    BY DEF IInv, TypeOK
  <1>2. saved.preview \in Previews /\ saved.stored \in Store /\ saved.audit \in [Previews -> Nat]
    BY <1>1 DEF Saved
  <1>3. previews[saved.preview] \in Waiting
    BY <1>2 DEF IInv, TypeOK, SavedInv, EmptyPreview, Gone
  <1>4. QED
    BY <1>1, <1>2, <1>3 DEF IInv, SavedInv, PreviewInv

LEMMA PersistStep == ASSUME IInv, Persist, Frame PROVE IInv'
  <1> USE DEF Persist, runtime, physical, bounds
  <1>1. saved # Unsaved
    BY DEF IInv, TypeOK
  <1>2. /\ saved.preview \in Previews /\ previews[saved.preview] \in Waiting
        /\ saved.stored \in Store /\ saved.audit \in [Previews -> Nat]
        /\ previews[saved.preview].candidate = Merge(saved.stored, previews[saved.preview].ops)
    BY <1>1, SavedPreview
  <1>3. previews[saved.preview].candidate \in Store /\ previews[saved.preview].ops \in Ops
    BY <1>2 DEF Waiting, Ops
  <1>4. saved.audit[saved.preview] = 0 /\ audit = saved.audit /\ stored = saved.stored
    BY <1>1, <1>2 DEF IInv, SavedInv
  <1>5. audit' = [saved.audit EXCEPT ![saved.preview] = 1]
    BY <1>4, <1>2
  <1>6. audit' \in [Previews -> Nat] /\ \A p \in Previews : audit'[p] <= 1
    BY <1>1, <1>2, <1>5 DEF IInv, SavedInv
  <1>7. TypeOK'
    BY <1>1, <1>3, <1>6 DEF IInv, TypeOK
  <1>8. RuntimeInv'
    BY DEF IInv, RuntimeInv, RuntimeTypes, Whole
  <1>9. PreviewInv'
    BY <1>1, <1>6 DEF IInv, PreviewInv
  <1>10. SavedInv'
    BY <1>1, <1>5 DEF IInv, SavedInv
  <1>11. FreshInv'
    BY <1>1 DEF IInv, FreshInv
  <1>12. ProposalInv'
    BY DEF IInv, ProposalInv, Frame
  <1>13. ManifestInv'
    <2>1. \A a \in Apps : stored'[a] \in Manifests \union {Absent}
      <3>1. TAKE a \in Apps
      <3>2. /\ saved.stored[a] \in Manifests \union {Absent}
            /\ previews[saved.preview].ops[a] \in Manifests \union {Absent, Keep}
        BY <1>1, <1>2 DEF IInv, ManifestInv, SavedInv
      <3>3. QED
        BY <1>2, <1>3, <3>2, MergeKeepsManifests
    <2>2. QED
      BY <2>1 DEF IInv, ManifestInv
  <1>14. QED
    BY <1>7, <1>8, <1>9, <1>10, <1>11, <1>12, <1>13 DEF IInv

LEMMA CommitDataStep == ASSUME IInv, CommitData, Frame PROVE IInv'
  <1> USE DEF CommitData, runtime, physical, bounds
  <1>1. TypeOK'
    BY DEF IInv, TypeOK
  <1>2. RuntimeInv'
    BY DEF IInv, RuntimeInv, RuntimeTypes, Whole
  <1>3. PreviewInv' /\ SavedInv'
    BY DEF IInv, PreviewInv, SavedInv
  <1>4. FreshInv'
    BY DEF IInv, FreshInv
  <1>5. ProposalInv' /\ ManifestInv'
    BY DEF IInv, ProposalInv, ManifestInv, Frame
  <1>6. QED
    BY <1>1, <1>2, <1>3, <1>4, <1>5 DEF IInv

LEMMA CommitDesignerStep == ASSUME IInv, CommitDesigner, Frame PROVE IInv'
  <1> USE DEF CommitDesigner, runtime, physical, bounds
  <1>1. saved # Unsaved /\ saved' = Unsaved
    BY DEF IInv, TypeOK
  <1>2. saved.preview \in Previews /\ saved.audit \in [Previews -> Nat]
    BY <1>1, SavedPreview
  <1>3. /\ previews' = [q \in Previews |-> previews'[q]]
        /\ \A q \in Previews : previews'[q] = IF q = saved.preview THEN Gone ELSE previews[q]
    BY <1>2 DEF IInv, PreviewInv
  <1>4. TypeOK'
    BY <1>1, <1>3 DEF IInv, TypeOK
  <1>5. RuntimeInv'
    BY DEF IInv, RuntimeInv, RuntimeTypes, Whole
  <1>6. PreviewInv'
    <2>1. /\ audit = [saved.audit EXCEPT ![saved.preview] = 1]
          /\ \A p \in Previews : previews[p].state # "gone" => saved.audit[p] = 0
      BY <1>1 DEF IInv, SavedInv
    <2>2. \A p \in Previews : previews'[p].state # "gone" => audit'[p] = 0
      BY <1>2, <1>3, <2>1 DEF Gone
    <2>3. QED
      BY <1>3, <2>2 DEF IInv, PreviewInv, Gone
  <1>7. SavedInv'
    BY <1>1 DEF SavedInv
  <1>8. FreshInv'
    BY <1>1 DEF IInv, FreshInv, SavedInv
  <1>9. ProposalInv'
    BY DEF IInv, ProposalInv, Frame
  <1>10. ManifestInv'
    BY <1>1, <1>3 DEF IInv, ManifestInv, Gone
  <1>11. QED
    BY <1>4, <1>5, <1>6, <1>7, <1>8, <1>9, <1>10 DEF IInv

(* The designer database commits once the data database has.               *)
CommitsTogether == "commit" \notin FaultKinds

LEMMA FailStep == ASSUME CommitsTogether, IInv, Fail, Frame PROVE IInv'
  <1>1. /\ pc \in {"failing", "applied", "persisted"} /\ faults' \in Nat
        /\ stored' = saved.stored /\ audit' = saved.audit
        /\ columns' = saved.columns /\ rows' = saved.rows
        /\ pc' = "idle" /\ saved' = Unsaved
        /\ live' = saved.live /\ handlers' = saved.handlers
        /\ execSig' = saved.execSig /\ okSig' = saved.okSig
        /\ UNCHANGED <<previews, troubled, requests, restarts>>
    BY DEF Fail, Throwing, RollBackStores, CommitsTogether, IInv, TypeOK
  <1>2. saved # Unsaved
    BY <1>1 DEF IInv, TypeOK
  <1>3. saved \in Saved
    BY <1>2, SavedPreview
  <1>4. RuntimeInv'
    BY <1>1, <1>2, <1>3 DEF IInv, SavedInv, RuntimeInv, RuntimeTypes, Saved, Codes, Columns, Contents
  <1>5. TypeOK'
    BY <1>1, <1>3, <1>4, RuntimeTypesAreTypes
       DEF IInv, TypeOK, RuntimeInv, RuntimeTypes, Codes, Columns, Contents, Saved
  <1>6. PreviewInv' /\ SavedInv'
    BY <1>1, <1>2 DEF IInv, PreviewInv, SavedInv
  <1>7. FreshInv'
    BY <1>1, <1>2 DEF IInv, FreshInv
  <1>8. ProposalInv'
    BY <1>1 DEF IInv, ProposalInv, Frame
  <1>9. ManifestInv'
    BY <1>1, <1>2 DEF IInv, ManifestInv
  <1>10. QED
    BY <1>4, <1>5, <1>6, <1>7, <1>8, <1>9 DEF IInv

LEMMA CrashStep ==
    ASSUME IInv, Crash, UNCHANGED <<tokens, proposals, applied>>,
           IF pc = "marking" THEN MarkLost(approving) ELSE UNCHANGED unmarked
    PROVE  IInv'
  <1>1. /\ restarts' = restarts + 1 /\ pc' = "boot" /\ saved' = Unsaved /\ troubled' = FALSE
        /\ live' = Nothing /\ handlers' = [s \in Scripts |-> Absent]
        /\ execSig' = {} /\ okSig' = {}
        /\ previews' = [p \in Previews |-> IF previews[p].state = "waiting" THEN Gone ELSE previews[p]]
        /\ UNCHANGED <<faults, requests>>
    BY DEF Crash, NoSignature
  <1>2. /\ stored' = IF saved = Unsaved THEN stored ELSE saved.stored
        /\ audit' = IF saved = Unsaved THEN audit ELSE saved.audit
        /\ columns' \in {columns, saved.columns} /\ rows' \in {rows, saved.rows}
        /\ saved = Unsaved => columns' = columns /\ rows' = rows
    BY DEF Crash, RollBackStores, physical
  <1>3. saved # Unsaved => saved \in Saved
    BY SavedPreview
  <1>4. RuntimeInv'
    BY <1>1, <1>2, <1>3, NamesAssumption, VersionsAssumption
       DEF IInv, RuntimeInv, RuntimeTypes, Whole, Nothing, Store, Present, Saved, Codes, Columns, Contents
  <1>5. /\ stored' \in Store /\ audit' \in [Previews -> Nat]
        /\ \A a \in Apps : stored'[a] \in Manifests \union {Absent}
    BY <1>2, <1>3 DEF IInv, TypeOK, Saved, ManifestInv
  <1>6. /\ previews' = [p \in Previews |-> previews'[p]]
        /\ \A p \in Previews : previews'[p] \in {EmptyPreview, Gone} /\ previews'[p].state # "waiting"
    BY <1>1 DEF IInv, TypeOK, EmptyPreview, Gone, Waiting
  <1>7. TypeOK'
    <2>1. troubled' \in BOOLEAN
      BY <1>1, Zenon
    <2>2. QED
      BY <1>1, <1>4, <1>5, <1>6, <2>1, RuntimeTypesAreTypes
         DEF IInv, TypeOK, RuntimeInv, RuntimeTypes, Codes, Columns, Contents
  <1>8. PreviewInv' /\ SavedInv'
    <2>1. \A p \in Previews : audit'[p] <= 1 /\ (previews'[p].state # "gone" => audit'[p] = 0)
      BY <1>1, <1>2 DEF IInv, PreviewInv, SavedInv, Gone
    <2>2. QED
      BY <1>1, <1>6, <2>1 DEF PreviewInv, SavedInv
  <1>9. FreshInv'
    BY <1>1 DEF FreshInv, Current
  <1>10. ProposalInv'
    <2>1. CASE pc = "marking"
      <3>1. approving \in Proposals /\ applied[approving] = unmarked[approving] + 1
        BY <2>1 DEF IInv, ProposalInv
      <3>2. /\ unmarked' \in [Proposals -> Nat] /\ unmarked'[approving] = unmarked[approving] + 1
            /\ \A p \in Proposals \ {approving} : unmarked'[p] = unmarked[p]
        BY <2>1, <3>1 DEF MarkLost, IInv, ProposalInv
      <3>3. QED
        BY <1>1, <2>1, <3>1, <3>2 DEF IInv, ProposalInv
    <2>2. CASE pc # "marking"
      BY <1>1, <2>2 DEF IInv, ProposalInv
    <2>3. QED
      BY <2>1, <2>2
  <1>11. ManifestInv'
    BY <1>1, <1>5, <1>6 DEF ManifestInv
  <1>12. QED
    BY <1>4, <1>7, <1>8, <1>9, <1>10, <1>11 DEF IInv

-----------------------------------------------------------------------------
(* Tokens and proposals.                                                   *)

LEMMA ProposalStatuses ==
    /\ Unsent.status = "unsent" /\ Deleted.status = "deleted"
    /\ \A r \in Proposed : r.status \in {"pending", "approved", "rejected"}
    /\ \A r \in Proposed : [r EXCEPT !.status = "approved"] \in Proposed
                           /\ [r EXCEPT !.status = "approved"].status = "approved"
    /\ \A r \in Proposed : [r EXCEPT !.status = "rejected"] \in Proposed
                           /\ [r EXCEPT !.status = "rejected"].status = "rejected"
  BY DEF Unsent, Deleted, Proposed

(* Steps of the inbox between requests leave the workspace alone.          *)
LEMMA InboxStep ==
    ASSUME IInv, UNCHANGED <<workspace, faults, restarts>>, requests' \in Nat, ProposalInv',
           pc # "approving"
    PROVE  IInv'
  <1> USE DEF workspace, runtime, physical, control
  <1>1. TypeOK'
    BY DEF IInv, TypeOK
  <1>2. RuntimeInv'
    BY DEF IInv, RuntimeInv, RuntimeTypes, Whole
  <1>3. PreviewInv' /\ SavedInv'
    BY DEF IInv, PreviewInv, SavedInv
  <1>4. FreshInv'
    BY DEF IInv, FreshInv
  <1>5. ManifestInv'
    BY DEF IInv, ManifestInv
  <1>6. QED
    BY <1>1, <1>2, <1>3, <1>4, <1>5 DEF IInv

LEMMA TokenSteps == ASSUME IInv, CreateToken \/ EndToken PROVE IInv'
  <1>1. /\ UNCHANGED <<workspace, faults, requests, restarts, proposals, approving, applied, unmarked>>
        /\ pc = "idle"
    BY DEF CreateToken, EndToken, bounds
  <1>2. ProposalInv' /\ requests' \in Nat
    BY <1>1 DEF IInv, ProposalInv, TypeOK, workspace, control
  <1>3. QED
    BY <1>1, <1>2, InboxStep

LEMMA ProposeStep == ASSUME IInv, Propose PROVE IInv'
  <1>1. PICK p \in Proposals, ops \in ChangeSets :
          /\ proposals[p] = Unsent
          /\ proposals' = [proposals EXCEPT ![p] = [status |-> "pending", ops |-> ops, base |-> stored]]
    BY DEF Propose
  <1>2. /\ UNCHANGED <<workspace, faults, restarts, approving, applied, unmarked>>
        /\ pc = "idle" /\ pc' = "idle" /\ requests' \in Nat
    BY DEF Propose, Request, IInv, TypeOK, workspace, control
  <1> DEFINE new == [status |-> "pending", ops |-> ops, base |-> stored]
  <1>3. new \in Proposed /\ new.status = "pending"
    BY DEF Proposed, IInv, TypeOK
  <1>4. /\ proposals' = [q \in Proposals |-> proposals'[q]]
        /\ \A q \in Proposals : proposals'[q] = IF q = p THEN new ELSE proposals[q]
    BY <1>1 DEF IInv, ProposalInv
  <1> HIDE DEF new
  <1>5. applied[p] = unmarked[p] /\ applied[p] \in Nat /\ unmarked[p] \in Nat
    BY <1>1, ProposalStatuses DEF IInv, ProposalInv, TypeOK
  <1>6. ProposalInv'
    BY <1>2, <1>3, <1>4, <1>5 DEF IInv, ProposalInv
  <1>7. QED
    BY <1>2, <1>6, InboxStep

(* A pending proposal is an entry that was sent.                           *)
LEMMA ReviewedAreProposed ==
    ASSUME IInv, NEW p \in Proposals, proposals[p].status \in {"pending", "approved", "rejected"}
    PROVE  proposals[p] \in Proposed
  BY ProposalStatuses DEF IInv, ProposalInv

LEMMA RejectStep == ASSUME IInv, Reject PROVE IInv'
  <1>1. PICK p \in Proposals : proposals[p].status = "pending" /\ SetStatus(p, "rejected")
    BY DEF Reject
  <1>2. /\ UNCHANGED <<workspace, faults, restarts, approving, applied, unmarked>>
        /\ pc = "idle" /\ pc' = "idle" /\ requests' \in Nat
    BY DEF Reject, Request, IInv, TypeOK, workspace, control
  <1>3. proposals[p] \in Proposed
    BY <1>1, ReviewedAreProposed
  <1>4. /\ proposals' = [q \in Proposals |-> proposals'[q]]
        /\ \A q \in Proposals : q # p => proposals'[q] = proposals[q]
        /\ proposals'[p] \in Proposed /\ proposals'[p].status = "rejected"
    BY <1>1, <1>3, ProposalStatuses DEF IInv, ProposalInv, SetStatus
  <1>5. applied[p] = unmarked[p]
    BY <1>1, <1>2 DEF IInv, ProposalInv
  <1>6. ProposalInv'
    BY <1>2, <1>4, <1>5 DEF IInv, ProposalInv
  <1>7. QED
    BY <1>2, <1>6, InboxStep

LEMMA DeleteProposalStep == ASSUME IInv, DeleteProposal PROVE IInv'
  <1>1. PICK p \in Proposals : proposals' = [proposals EXCEPT ![p] = Deleted]
    BY DEF DeleteProposal
  <1>2. /\ UNCHANGED <<workspace, faults, restarts, approving, applied, unmarked>>
        /\ pc = "idle" /\ pc' = "idle" /\ requests' \in Nat
    BY DEF DeleteProposal, Request, IInv, TypeOK, workspace, control
  <1>3. /\ proposals' = [q \in Proposals |-> proposals'[q]]
        /\ \A q \in Proposals : proposals'[q] = IF q = p THEN Deleted ELSE proposals[q]
    BY <1>1 DEF IInv, ProposalInv
  <1>4. ProposalInv'
    BY <1>2, <1>3, ProposalStatuses DEF IInv, ProposalInv
  <1>5. QED
    BY <1>2, <1>4, InboxStep

LEMMA ApproveStep == ASSUME IInv, Approve PROVE IInv'
  <1>1. PICK p \in Proposals, fails \in Faulty("migrate") :
         LET candidate == Merge(stored, proposals[p].ops)
             errors == Errors(candidate, Registry(candidate), fails) IN
         /\ Revalidates(p)
         /\ applyWebArtifacts(candidate, Registry(candidate), fails)
         /\ troubled' = (troubled \/ errors # {})
         /\ IF errors = {} THEN pc' = "approving" /\ approving' = p ELSE UNCHANGED <<pc, approving>>
         /\ Charge(fails)
    BY DEF Approve
  <1> DEFINE candidate == Merge(stored, proposals[p].ops)
             errors == Errors(candidate, Registry(candidate), fails)
  <1>2. proposals[p] \in Proposed /\ proposals[p].status = "pending" /\ proposals[p].base = stored
    BY <1>1, ReviewedAreProposed DEF Revalidates
  <1>3. proposals[p].ops \in Ops /\ stored \in Store
    BY <1>2, VersionsAssumption DEF Proposed, Ops, IInv, TypeOK
  <1>4. candidate \in Store
    BY <1>3, MergeIsStore
  <1>5. RuntimeInv'
    BY <1>1, <1>4, ApplyIsSound DEF IInv
  <1>6. /\ UNCHANGED <<stored, previews, audit, saved, restarts, proposals, applied, unmarked>>
        /\ pc = "idle" /\ saved = Unsaved
        /\ faults' \in Nat /\ requests' \in Nat /\ troubled' \in BOOLEAN
    BY <1>1, ChargedFaults DEF Approve, Request, IInv, TypeOK
  <1>7. \/ pc' = "approving" /\ approving' = p /\ errors = {}
        \/ pc' = "idle" /\ approving' = approving /\ errors # {}
    BY <1>1, <1>6
  <1>8. TypeOK'
    BY <1>5, <1>6, <1>7, RuntimeTypesAreTypes
       DEF IInv, TypeOK, RuntimeInv, RuntimeTypes, Codes, Columns, Contents
  <1>9. PreviewInv' /\ SavedInv'
    BY <1>6 DEF IInv, PreviewInv, SavedInv
  <1>10. FreshInv'
    <2>1. CASE errors = {}
      <3>1. ASSUME ~troubled' PROVE live' = Registry(candidate) /\ Current(live', okSig')
        <4>1. Current(live, okSig)
          BY <1>1, <1>6, <3>1 DEF IInv, FreshInv
        <4>2. QED
          BY <1>1, <2>1, <4>1, ApplyIsCurrent
      <3>2. QED
        BY <1>6, <1>7, <2>1, <3>1 DEF FreshInv
    <2>2. CASE errors # {}
      <3>1. troubled' /\ pc' = "idle"
        BY <1>1, <1>6, <2>2
      <3>2. QED
        BY <3>1 DEF FreshInv
    <2>3. QED
      BY <2>1, <2>2
  <1>11. ProposalInv'
    BY <1>2, <1>6, <1>7 DEF IInv, ProposalInv
  <1>12. ManifestInv'
    BY <1>6 DEF IInv, ManifestInv
  <1>13. QED
    BY <1>5, <1>8, <1>9, <1>10, <1>11, <1>12 DEF IInv

LEMMA StoreProposalStep == ASSUME IInv, StoreProposal PROVE IInv'
  <1>1. PICK storeFails \in Faulty("store") :
         /\ IF storeFails
            THEN pc' = "idle" /\ approving' = Nobody /\ UNCHANGED <<stored, applied>>
            ELSE /\ pc' = "marking" /\ UNCHANGED approving
                 /\ stored' = Merge(stored, proposals[approving].ops)
                 /\ applied' = [applied EXCEPT ![approving] = @ + 1]
         /\ troubled' = (troubled \/ storeFails)
         /\ Charge(storeFails)
    BY DEF StoreProposal
  <1>2. /\ pc = "approving" /\ saved = Unsaved /\ saved' = Unsaved
        /\ UNCHANGED <<live, handlers, execSig, okSig, columns, rows, previews, audit, saved,
                       requests, restarts, proposals, unmarked>>
        /\ faults' \in Nat /\ troubled' \in BOOLEAN
    BY <1>1, ChargedFaults, FaultyIsBoolean DEF StoreProposal, runtime, physical, IInv, TypeOK
  <1>3. approving \in Proposals /\ proposals[approving].status = "pending"
    BY <1>2 DEF IInv, ProposalInv
  <1>4. proposals[approving] \in Proposed /\ proposals[approving].ops \in ChangeSets /\ stored \in Store
    BY <1>3, ReviewedAreProposed DEF Proposed, IInv, TypeOK
  <1>5. proposals[approving].ops \in Ops
    BY <1>4, VersionsAssumption DEF Ops
  <1>6. Merge(stored, proposals[approving].ops) \in Store
    BY <1>4, <1>5, MergeIsStore
  <1>7. stored' \in Store /\ pc' \in {"idle", "marking"}
    BY <1>1, <1>4, <1>6
  <1>8. TypeOK'
    BY <1>2, <1>7 DEF IInv, TypeOK
  <1>9. RuntimeInv'
    BY <1>2 DEF IInv, RuntimeInv, RuntimeTypes, Whole
  <1>10. PreviewInv' /\ SavedInv'
    BY <1>2 DEF IInv, PreviewInv, SavedInv
  <1>11. FreshInv'
    BY <1>1, <1>2 DEF IInv, FreshInv
  <1>12. ProposalInv'
    <2>1. CASE storeFails
      BY <1>1, <1>2, <1>3, <2>1 DEF IInv, ProposalInv
    <2>2. CASE ~storeFails
      <3>1. /\ pc' = "marking" /\ approving' = approving
            /\ applied' = [applied EXCEPT ![approving] = @ + 1]
        BY <1>1, <2>2
      <3>2. applied[approving] = unmarked[approving] /\ unmarked[approving] \in Nat
        BY <1>2, <1>3 DEF IInv, ProposalInv, TypeOK
      <3>3. /\ applied' \in [Proposals -> Nat]
            /\ applied'[approving] = applied[approving] + 1
            /\ \A p \in Proposals \ {approving} : applied'[p] = applied[p]
        BY <1>3, <3>1 DEF IInv, ProposalInv
      <3>4. QED
        BY <1>2, <1>3, <3>1, <3>2, <3>3 DEF IInv, ProposalInv
    <2>3. QED
      BY <2>1, <2>2
  <1>13. ManifestInv'
    <2>1. \A a \in Apps : Merge(stored, proposals[approving].ops)[a] \in Manifests \union {Absent}
      BY <1>4, <1>5, ManifestsAssumption, MergeKeepsManifests DEF IInv, ManifestInv
    <2>2. QED
      BY <1>1, <1>2, <2>1 DEF IInv, ManifestInv
  <1>14. QED
    BY <1>8, <1>9, <1>10, <1>11, <1>12, <1>13 DEF IInv

LEMMA MarkApprovedStep == ASSUME IInv, MarkApproved PROVE IInv'
  <1> USE DEF runtime, physical
  <1>1. PICK fails \in Faulty("store") :
         /\ IF fails THEN MarkLost(approving) /\ UNCHANGED proposals
            ELSE SetStatus(approving, "approved") /\ UNCHANGED unmarked
         /\ Charge(fails)
    BY DEF MarkApproved
  <1>2. /\ pc = "marking" /\ pc' = "idle" /\ saved = Unsaved /\ saved' = Unsaved
        /\ UNCHANGED <<stored, runtime, physical, previews, audit, troubled, requests, restarts, applied>>
        /\ faults' \in Nat
    BY <1>1, ChargedFaults DEF MarkApproved, IInv, TypeOK
  <1>3. approving \in Proposals /\ proposals[approving].status = "pending"
        /\ applied[approving] = unmarked[approving] + 1
    BY <1>2 DEF IInv, ProposalInv
  <1>4. proposals[approving] \in Proposed
    BY <1>3, ReviewedAreProposed
  <1>5. TypeOK'
    BY <1>2 DEF IInv, TypeOK
  <1>6. RuntimeInv'
    BY <1>2 DEF IInv, RuntimeInv, RuntimeTypes, Whole
  <1>7. PreviewInv' /\ SavedInv'
    BY <1>2 DEF IInv, PreviewInv, SavedInv
  <1>8. FreshInv'
    BY <1>2 DEF IInv, FreshInv
  <1>9. ProposalInv'
    <2>1. CASE fails
      <3>1. /\ unmarked' \in [Proposals -> Nat] /\ unmarked'[approving] = unmarked[approving] + 1
            /\ \A p \in Proposals \ {approving} : unmarked'[p] = unmarked[p]
            /\ proposals' = proposals
        BY <1>1, <1>3, <2>1 DEF MarkLost, IInv, ProposalInv
      <3>2. QED
        BY <1>2, <1>3, <3>1, ProposalStatuses DEF IInv, ProposalInv
    <2>2. CASE ~fails
      <3>1. /\ proposals' = [q \in Proposals |-> proposals'[q]] /\ unmarked' = unmarked
            /\ \A q \in Proposals : q # approving => proposals'[q] = proposals[q]
            /\ proposals'[approving] \in Proposed /\ proposals'[approving].status = "approved"
        BY <1>1, <1>3, <1>4, <2>2, ProposalStatuses DEF IInv, ProposalInv, SetStatus
      <3>2. QED
        BY <1>2, <1>3, <3>1 DEF IInv, ProposalInv
    <2>3. QED
      BY <2>1, <2>2
  <1>10. ManifestInv'
    BY <1>2 DEF IInv, ManifestInv
  <1>11. QED
    BY <1>5, <1>6, <1>7, <1>8, <1>9, <1>10 DEF IInv

-----------------------------------------------------------------------------
(* The invariant is inductive.                                             *)

LEMMA InitialInv == WorkspaceInit => IInv
  <1> SUFFICES ASSUME WorkspaceInit PROVE IInv
    OBVIOUS
  <1> USE DEF WorkspaceInit, Init
  <1>1. Nothing \in Store /\ Present(Nothing) = {} /\ InitialStore \in Store
    BY VersionsAssumption DEF Nothing, Store, Present
  <1>2. RuntimeTypes(live, handlers, execSig, okSig, columns, rows)
    BY <1>1 DEF RuntimeTypes, Codes, Columns, Contents, NoSignature
  <1>3. Whole(live, handlers, execSig, columns, rows)
    BY <1>1, NamesAssumption, VersionsAssumption DEF Whole, Nothing, NoSignature
  <1>4. TypeOK
    <2>1. troubled \in BOOLEAN
      BY Zenon
    <2>2. QED
      BY <1>1, <1>2, <2>1, RuntimeTypesAreTypes DEF TypeOK
  <1>5. PreviewInv /\ SavedInv
    BY DEF PreviewInv, SavedInv, EmptyPreview
  <1>6. FreshInv
    BY DEF FreshInv, Current, NoSignature
  <1>7. ProposalInv
    BY ProposalStatuses DEF ProposalInv
  <1>8. ManifestInv
    BY ManifestsAssumption DEF ManifestInv, EmptyPreview
  <1>9. QED
    BY <1>2, <1>3, <1>4, <1>5, <1>6, <1>7, <1>8 DEF IInv, RuntimeInv

(* Only a crash comes between storing a proposal and marking it.           *)
LEMMA OnlyCrashesWhileMarking == ASSUME Next, ~Crash PROVE pc # "marking"
  <1>1. CASE \/ Boot \/ PutArtifact \/ PostArtifact \/ DeleteArtifact \/ DeleteApp
             \/ PutModel \/ DeleteModel \/ Reload \/ Purge
    BY <1>1 DEF Boot, PutArtifact, PostArtifact, DeleteArtifact, DeleteApp, PutModel, DeleteModel,
                Reload, Purge, Request
  <1>2. CASE \/ InsertRow \/ Validate \/ Expire \/ BeginApply \/ Persist \/ CommitData
             \/ CommitDesigner \/ Fail
    BY <1>2 DEF InsertRow, Validate, Expire, BeginApply, Persist, CommitData, CommitDesigner,
                Fail, Throwing, Request
  <1>3. QED
    BY <1>1, <1>2 DEF Next

LEMMA InvStep ==
    ASSUME CommitsTogether, IInv, [PackagesNext]_<<vars, inbox>>
    PROVE  IInv'
  <1>1. CASE Designing
    <2>1. CASE Crash
      BY <1>1, <2>1, CrashStep DEF Designing
    <2>2. CASE Next /\ ~Crash
      <3>1. Frame
        BY <1>1, <2>2, OnlyCrashesWhileMarking DEF Designing, Frame
      <3>2. QED
        BY <2>2, <3>1, BootStep, WriteSteps, ReloadStep, TableSteps, ValidateStep, ExpireStep,
           BeginApplyStep, PersistStep, CommitDataStep, CommitDesignerStep, FailStep
           DEF Next
    <2>3. QED
      BY <1>1, <2>1, <2>2 DEF Designing
  <1>2. CASE CreateToken \/ EndToken \/ Propose
    BY <1>2, TokenSteps, ProposeStep
  <1>3. CASE Approve \/ StoreProposal \/ MarkApproved \/ Reject \/ DeleteProposal
    BY <1>3, ApproveStep, StoreProposalStep, MarkApprovedStep, RejectStep, DeleteProposalStep
  <1>4. CASE PreviewPackage
    BY <1>4, PreviewPackageStep
  <1>5. CASE UNCHANGED <<vars, inbox>>
    <2> USE <1>5 DEF vars, inbox, runtime, physical, control, bounds
    <2>1. TypeOK' /\ RuntimeInv'
      BY DEF IInv, TypeOK, RuntimeInv, RuntimeTypes, Whole
    <2>2. PreviewInv' /\ SavedInv' /\ FreshInv'
      BY DEF IInv, PreviewInv, SavedInv, FreshInv
    <2>3. ProposalInv' /\ ManifestInv'
      BY DEF IInv, ProposalInv, ManifestInv
    <2>4. QED
      BY <2>1, <2>2, <2>3 DEF IInv
  <1>6. QED
    BY <1>1, <1>2, <1>3, <1>4, <1>5 DEF PackagesNext, WorkspaceNext

THEOREM WorkspaceInvariance == ASSUME CommitsTogether PROVE PackagesSpec => []IInv
  <1>1. IInv /\ [PackagesNext]_<<vars, inbox>> => IInv'
    BY InvStep
  <1>2. QED
    BY InitialInv, <1>1, PTL DEF PackagesSpec

-----------------------------------------------------------------------------
(* What is live is whole, through rejected saves, isolation, purges, failed*)
(* deployments, approvals, packages and restarts, whatever the artifacts   *)
(* and however many faults there are: the registry is closed, has its      *)
(* tables and its scripts' handlers, and no encrypted field in the clear.  *)
THEOREM RuntimeSoundness == ASSUME CommitsTogether PROVE PackagesSpec => []RuntimeIsSound
  <1>1. IInv => RuntimeIsSound
    BY DEF IInv, RuntimeInv, Whole, RuntimeIsSound, LiveIsClosed, LiveHasItsTables,
           HandlersAreLive, EncryptedAtRest
  <1>2. QED
    BY <1>1, WorkspaceInvariance, PTL

(* Skipping an apply by its signature loses nothing until an error has been*)
(* reported: the registry is then the one the stored artifacts define.     *)
THEOREM Freshness == ASSUME CommitsTogether PROVE PackagesSpec => []FreshUnlessTroubled
  <1>1. IInv => FreshUnlessTroubled
    BY DEF IInv, FreshInv, FreshUnlessTroubled
  <1>2. QED
    BY <1>1, WorkspaceInvariance, PTL

(* The bounds count the faults and the restarts that happen.               *)
LEMMA CountsGrow ==
    ASSUME TypeOK, Next
    PROVE  faults' \in Nat /\ restarts' \in Nat /\ faults' + restarts' >= faults + restarts
  <1>1. CASE \/ Boot \/ PutArtifact \/ PostArtifact \/ DeleteArtifact \/ DeleteApp
             \/ PutModel \/ DeleteModel \/ Reload \/ BeginApply
    <2>1. restarts' = restarts
      BY <1>1 DEF Boot, PutArtifact, PostArtifact, DeleteArtifact, DeleteApp, PutModel, DeleteModel,
                  Reload, BeginApply
    <2>2. PICK fault : Charge(fault)
      <3>1. CASE Boot \/ Reload \/ BeginApply
        BY <3>1 DEF Boot, Reload, BeginApply
      <3>2. CASE PutArtifact \/ PostArtifact
        BY <3>2 DEF PutArtifact, PostArtifact, Upsert
      <3>3. CASE DeleteArtifact \/ DeleteApp \/ PutModel \/ DeleteModel
        BY <3>3 DEF DeleteArtifact, DeleteApp, PutModel, DeleteModel, StoreThenApply
      <3>4. QED
        BY <1>1, <3>1, <3>2, <3>3
    <2>3. QED
      BY <2>1, <2>2 DEF TypeOK, Charge
  <1>2. CASE \/ Purge \/ InsertRow \/ Validate \/ Expire \/ Persist \/ CommitData
             \/ CommitDesigner
    <2>1. restarts' = restarts /\ faults' = faults
      BY <1>2 DEF Purge, InsertRow, Validate, Expire, Persist, CommitData, CommitDesigner, bounds
    <2>2. QED
      BY <2>1 DEF TypeOK
  <1>3. CASE Fail \/ Crash
    <2>1. /\ restarts' \in {restarts, restarts + 1}
          /\ faults' \in {faults, faults + 1}
      BY <1>3 DEF Fail, Throwing, Crash
    <2>2. QED
      BY <2>1 DEF TypeOK
  <1>4. QED
    BY <1>1, <1>2, <1>3 DEF Next

(* Every lost mark took a fault or a restart of its own.                   *)
LostInv == \A p \in Proposals : unmarked[p] <= faults + restarts

LEMMA LostStep ==
    ASSUME IInv, LostInv, [PackagesNext]_<<vars, inbox>> PROVE LostInv'
  <1>1. TypeOK /\ unmarked \in [Proposals -> Nat]
    BY DEF IInv, ProposalInv
  <1>2. CASE unmarked' = unmarked
    <2>1. faults' \in Nat /\ restarts' \in Nat /\ faults' + restarts' >= faults + restarts
      <3>1. CASE Designing
        BY <1>1, <3>1, CountsGrow DEF Designing
      <3>2. CASE CreateToken \/ EndToken \/ Propose \/ Reject \/ DeleteProposal \/ PreviewPackage
        BY <1>1, <3>2 DEF CreateToken, EndToken, Propose, Reject, DeleteProposal, PreviewPackage,
                          bounds, TypeOK
      <3>3. CASE Approve \/ StoreProposal \/ MarkApproved
        <4>1. restarts' = restarts /\ faults' \in {faults, faults + 1}
          BY <3>3 DEF Approve, StoreProposal, MarkApproved, Charge
        <4>2. QED
          BY <1>1, <4>1 DEF TypeOK
      <3>4. CASE UNCHANGED <<vars, inbox>>
        BY <1>1, <3>4 DEF vars, bounds, TypeOK
      <3>5. QED
        BY <3>1, <3>2, <3>3, <3>4 DEF PackagesNext, WorkspaceNext
    <2>2. ASSUME NEW p \in Proposals PROVE unmarked'[p] <= faults' + restarts'
      <3>1. unmarked[p] \in Nat /\ unmarked[p] <= faults + restarts
        BY <1>1 DEF LostInv
      <3>2. QED
        BY <1>1, <1>2, <2>1, <3>1 DEF TypeOK
    <2>3. QED
      BY <2>2 DEF LostInv
  <1>3. CASE unmarked' # unmarked
    <2>1. MarkLost(approving) /\ faults' + restarts' = faults + restarts + 1
      <3>1. CASE Designing
        <4>1. pc = "marking" /\ MarkLost(approving) /\ Crash
          BY <1>3, <3>1, OnlyCrashesWhileMarking DEF Designing
        <4>2. QED
          BY <1>1, <4>1 DEF Crash, TypeOK
      <3>2. CASE MarkApproved
        <4>1. PICK fails \in Faulty("store") :
                /\ IF fails THEN MarkLost(approving) ELSE UNCHANGED unmarked
                /\ Charge(fails)
          BY <3>2 DEF MarkApproved
        <4>2. fails /\ restarts' = restarts
          BY <1>3, <3>2, <4>1 DEF MarkApproved
        <4>3. QED
          BY <1>1, <4>1, <4>2 DEF Charge, TypeOK
      <3>3. QED
        BY <1>3, <3>1, <3>2 DEF PackagesNext, WorkspaceNext, CreateToken, EndToken, Propose, Approve,
           StoreProposal, Reject, DeleteProposal, PreviewPackage, inbox
    <2>2. \A p \in Proposals : unmarked'[p] \in {unmarked[p], unmarked[p] + 1}
      BY <1>1, <2>1 DEF MarkLost
    <2>3. QED
      BY <1>1, <2>1, <2>2 DEF LostInv, TypeOK
  <1>4. QED
    BY <1>2, <1>3

(* A preview is stored at most once.  A proposal is stored as often as it  *)
(* was decided: once when it is approved, never when it is rejected, but   *)
(* for the storings whose mark a failed write or a restart took, each of   *)
(* which is a fault or a restart that happened.                            *)
THEOREM Decisions == ASSUME CommitsTogether PROVE PackagesSpec => []DecidedOnce
  <1>1. IInv /\ LostInv => DecidedOnce
    BY DEF IInv, PreviewInv, ProposalInv, LostInv, DecidedOnce
  <1>2. WorkspaceInit => LostInv
    BY DEF WorkspaceInit, Init, LostInv
  <1>3. IInv /\ LostInv /\ [PackagesNext]_<<vars, inbox>> => LostInv'
    BY LostStep
  <1>4. QED
    BY <1>1, <1>2, <1>3, WorkspaceInvariance, PTL DEF PackagesSpec

-----------------------------------------------------------------------------
(* Only the transaction counts a preview as stored, ...                    *)
LEMMA OnlyPersistStores ==
    ASSUME IInv, [PackagesNext]_<<vars, inbox>>, NEW p \in Previews, audit'[p] > audit[p]
    PROVE  Persist /\ p = saved.preview
  <1>1. audit \in [Previews -> Nat]
    BY DEF IInv, TypeOK
  <1>2. CASE Persist
    <2>1. saved # Unsaved
      BY <1>2 DEF Persist, IInv, TypeOK
    <2>2. QED
      BY <1>1, <1>2, <2>1, SavedPreview DEF Persist
  <1>3. CASE Fail \/ Crash
    <2>1. audit' = audit \/ (saved # Unsaved /\ audit' = saved.audit)
      BY <1>3 DEF Fail, Crash, RollBackStores, Throwing, IInv, TypeOK
    <2>2. saved # Unsaved => saved.audit[p] <= audit[p]
      <3>1. SUFFICES ASSUME saved # Unsaved PROVE saved.audit[p] <= audit[p]
        OBVIOUS
      <3>2. saved.audit \in [Previews -> Nat] /\ saved.preview \in Previews
        BY <3>1, SavedPreview
      <3>3. \/ audit = saved.audit
            \/ audit = [saved.audit EXCEPT ![saved.preview] = 1] /\ saved.audit[p] <= 1
        BY <3>1 DEF IInv, SavedInv, TypeOK
      <3>4. QED
        <4>1. CASE audit = saved.audit
          BY <3>2, <4>1
        <4>2. CASE audit = [saved.audit EXCEPT ![saved.preview] = 1] /\ saved.audit[p] <= 1
          BY <3>2, <4>2
        <4>3. QED
          BY <3>3, <4>1, <4>2
    <2>3. audit[p] \in Nat /\ (saved # Unsaved => saved.audit[p] \in Nat)
      BY <1>1, SavedPreview
    <2>4. ~(audit'[p] > audit[p])
      BY <2>1, <2>2, <2>3
    <2>5. QED
      BY <2>4
  <1>4. CASE audit' = audit
    BY <1>1, <1>4
  <1>5. Persist \/ Fail \/ Crash \/ audit' = audit
    <2>1. CASE Designing
      <3>1. CASE \/ Boot \/ PutArtifact \/ PostArtifact \/ DeleteArtifact \/ DeleteApp
                 \/ PutModel \/ DeleteModel \/ Reload
        BY <3>1 DEF Boot, PutArtifact, PostArtifact, DeleteArtifact, DeleteApp, PutModel, DeleteModel, Reload
      <3>2. CASE Purge \/ InsertRow \/ Validate \/ Expire \/ BeginApply \/ CommitData \/ CommitDesigner
        BY <3>2 DEF Purge, InsertRow, Validate, Expire, BeginApply, CommitData, CommitDesigner
      <3>3. QED
        BY <2>1, <3>1, <3>2 DEF Designing, Next
    <2>2. CASE PackagesNext /\ ~Designing
      BY <2>2 DEF PackagesNext, WorkspaceNext, CreateToken, EndToken, Propose, Approve,
                  StoreProposal, MarkApproved, Reject, DeleteProposal, PreviewPackage, workspace
    <2>3. CASE UNCHANGED <<vars, inbox>>
      BY <2>3 DEF vars
    <2>4. QED
      BY <2>1, <2>2, <2>3
  <1>6. QED
    BY <1>2, <1>3, <1>4, <1>5

(* ... and only the approval under way counts a proposal.                  *)
LEMMA OnlyApprovalStores ==
    ASSUME IInv, [PackagesNext]_<<vars, inbox>>, NEW p \in Proposals, applied'[p] > applied[p]
    PROVE  /\ p = approving /\ pc = "approving"
           /\ stored' = Merge(stored, proposals[p].ops)
  <1>1. applied \in [Proposals -> Nat] /\ (pc = "approving" => approving \in Proposals)
    BY DEF IInv, ProposalInv
  <1>2. applied' # applied
    BY <1>1
  <1>3. StoreProposal
    BY <1>2 DEF PackagesNext, WorkspaceNext, Designing, CreateToken, EndToken, Propose, Approve,
                MarkApproved, Reject, DeleteProposal, PreviewPackage, inbox
  <1>4. /\ pc = "approving" /\ applied' = [applied EXCEPT ![approving] = @ + 1]
        /\ stored' = Merge(stored, proposals[approving].ops)
    BY <1>2, <1>3 DEF StoreProposal
  <1>5. QED
    BY <1>1, <1>4

(* What a confirmed preview stores.                                        *)
LEMMA PersistedIsShown ==
    ASSUME IInv, Persist
    PROVE  /\ previews[saved.preview] \in Waiting
           /\ stored = previews[saved.preview].base
           /\ stored' = Merge(stored, previews[saved.preview].ops)
  <1>1. saved # Unsaved
    BY DEF Persist, IInv, TypeOK
  <1>2. QED
    BY <1>1, SavedPreview DEF Persist, IInv, SavedInv

LEMMA ShownStep ==
    ASSUME IInv, [PackagesNext]_<<vars, inbox>>
    PROVE  /\ \A p \in Previews : audit'[p] > audit[p] => Onto(previews[p].base, previews[p].ops)
           /\ \A p \in Proposals : applied'[p] > applied[p] => Onto(proposals[p].base, proposals[p].ops)
  <1>1. ASSUME NEW p \in Previews, audit'[p] > audit[p]
        PROVE  Onto(previews[p].base, previews[p].ops)
    BY <1>1, OnlyPersistStores, PersistedIsShown DEF Onto
  <1>2. ASSUME NEW p \in Proposals, applied'[p] > applied[p]
        PROVE  Onto(proposals[p].base, proposals[p].ops)
    BY <1>2, OnlyApprovalStores DEF Onto, IInv, ProposalInv
  <1>3. QED
    BY <1>1, <1>2

LEMMA ScopedStep ==
    ASSUME IInv, [PackagesNext]_<<vars, inbox>>, NEW p \in Previews, NEW pkg \in Packages,
           Confirmed(p, pkg)
    PROVE  /\ \A n \in Names \ Apps :
                stored'[n] = IF n \in DOMAIN pkg.artifacts THEN pkg.artifacts[n]
                             ELSE IF pkg.mode = "models" /\ n \in Placed(pkg.app, pkg.models) THEN Absent
                             ELSE stored[n]
           /\ \A a \in Apps \ {pkg.app} : stored'[a] = stored[a]
           /\ pkg.models \subseteq ModelsOf[stored'[pkg.app]]
           /\ stored[pkg.app] # Absent => ModelsOf[stored[pkg.app]] \subseteq ModelsOf[stored'[pkg.app]]
  <1> DEFINE ops == modelPackageOperations(stored, pkg)
  <1>1. stored \in Store /\ \A a \in Apps : stored[a] \in Manifests \union {Absent}
    BY DEF IInv, TypeOK, ManifestInv
  <1>2. stored' = Merge(stored, ops)
    BY OnlyPersistStores, PersistedIsShown DEF Confirmed
  <1>3. /\ ops \in Ops /\ ops[pkg.app] \in Manifests
        /\ pkg.models \subseteq ModelsOf[ops[pkg.app]]
        /\ stored[pkg.app] # Absent => ModelsOf[stored[pkg.app]] \subseteq ModelsOf[ops[pkg.app]]
        /\ \A a \in Apps \ {pkg.app} : ops[a] = Keep
    BY <1>1, PackageOperations
  <1>4. pkg.app \in Apps /\ pkg.app \in Names /\ ops[pkg.app] # Absent /\ ops[pkg.app] # Keep
    BY <1>3, PackageAssumption, NamesAssumption, VersionsAssumption, ManifestsAssumption
  <1>5. \A a \in Apps : ops[a] # Absent
    BY <1>3, <1>4 DEF Absent, Keep
  <1>6. \A n \in Names : stored'[n] = IF ops[n] # Keep THEN ops[n] ELSE stored[n]
    <2> HIDE DEF ops
    <2>1. {a \in Apps : ops[a] = Absent} = {}
      BY <1>5
    <2>2. QED
      BY <1>2, <2>1 DEF Merge
  <1>7. ASSUME NEW n \in Names \ Apps
        PROVE  stored'[n] = IF n \in DOMAIN pkg.artifacts THEN pkg.artifacts[n]
                            ELSE IF pkg.mode = "models" /\ n \in Placed(pkg.app, pkg.models) THEN Absent
                            ELSE stored[n]
    <2>1. n # pkg.app
      BY <1>4
    <2>2. ops[n] = IF n \in DOMAIN pkg.artifacts THEN pkg.artifacts[n]
                   ELSE IF n \in Replaced(pkg) /\ stored[n] # Absent THEN Absent ELSE Keep
      BY <2>1 DEF modelPackageOperations
    <2>3. n \in DOMAIN pkg.artifacts => pkg.artifacts[n] # Keep
      BY PackageAssumption, ManifestsAssumption
    <2>4. n \in Replaced(pkg) <=> pkg.mode = "models" /\ n \in Placed(pkg.app, pkg.models)
      BY DEF Replaced
    <2> HIDE DEF ops
    <2>5. QED
      BY <1>6, <2>2, <2>3, <2>4 DEF Absent, Keep
  <1>8. ASSUME NEW a \in Apps \ {pkg.app} PROVE stored'[a] = stored[a]
    <2> HIDE DEF ops
    <2>1. QED
      BY <1>3, <1>6, NamesAssumption
  <1>9. stored'[pkg.app] = ops[pkg.app]
    <2> HIDE DEF ops
    <2>1. QED
      BY <1>4, <1>6
  <1>10. QED
    <2> HIDE DEF ops
    <2>1. QED
      BY <1>3, <1>7, <1>8, <1>9

(* What is confirmed or approved is what was shown, on the workspace it was*)
(* validated against; a package replaces what is in its scope, leaves the  *)
(* rest alone and loses no model.                                          *)
THEOREM Confirmations == ASSUME CommitsTogether PROVE PackagesSpec => ConfirmedIsWhole
  <1>1. IInv /\ [PackagesNext]_<<vars, inbox>> =>
          [ /\ \A p \in Previews : audit'[p] > audit[p] => Onto(previews[p].base, previews[p].ops)
            /\ \A p \in Proposals : applied'[p] > applied[p] => Onto(proposals[p].base, proposals[p].ops)
          ]_<<vars, inbox>>
    BY ShownStep
  <1>2. IInv /\ [PackagesNext]_<<vars, inbox>> =>
          [\A p \in Previews, pkg \in Packages : Confirmed(p, pkg) =>
             /\ \A n \in Names \ Apps :
                  stored'[n] = IF n \in DOMAIN pkg.artifacts THEN pkg.artifacts[n]
                               ELSE IF pkg.mode = "models" /\ n \in Placed(pkg.app, pkg.models) THEN Absent
                               ELSE stored[n]
             /\ \A a \in Apps \ {pkg.app} : stored'[a] = stored[a]
             /\ pkg.models \subseteq ModelsOf[stored'[pkg.app]]
             /\ stored[pkg.app] # Absent => ModelsOf[stored[pkg.app]] \subseteq ModelsOf[stored'[pkg.app]]
          ]_<<vars, inbox>>
    BY ScopedStep
  <1>3. PackagesSpec => ShownIsApplied
    BY <1>1, WorkspaceInvariance, PTL DEF PackagesSpec, ShownIsApplied
  <1>4. PackagesSpec => DeploymentsAreScoped
    BY <1>2, WorkspaceInvariance, PTL DEF PackagesSpec, DeploymentsAreScoped
  <1>5. QED
    BY <1>3, <1>4 DEF ConfirmedIsWhole
=============================================================================
