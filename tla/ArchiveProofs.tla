----------------------------- MODULE ArchiveProofs -----------------------------
(***************************************************************************)
(* The safety of the document archive for any documents, batches, restores *)
(* and policies, and for any number of changes, throws and crashes.        *)
(***************************************************************************)
EXTENDS Archive, FiniteSetTheorems, TLAPS

At == {"idle", "next", "packing", "opening", "copying", "unlinking", "done"}
Working == {"packing", "opening", "copying"}
Batch == [at : At, files : BOOLEAN, queue : SUBSET Headers, doc : Headers, taken : SUBSET Parts,
          unread : SUBSET Lines, tocopy : SUBSET Files, file : SUBSET Files,
          unlinking : SUBSET (Files \X (1..MaxIds))]
Restore == [at : {"idle", "reading", "attaching", "done"}, row : SUBSET Row, id : 0..MaxIds,
            left : SUBSET Files]

(* The kinds of the variables, as records.                                 *)
KindInv ==
    /\ present \subseteq Keys /\ id \in [Keys -> 1..MaxIds] /\ saved \in [Keys -> SUBSET Parts]
    /\ content \subseteq Files \X (1..MaxIds) /\ dangling \subseteq Files \X (1..MaxIds)
    /\ writable \in BOOLEAN /\ policy \in Policies
    /\ catalog \subseteq Row /\ archived \in [Shas -> {"none", "torn", "whole"}]
    /\ batch \in [Batches -> Batch] /\ restore \in [Restores -> Restore]
    /\ late \subseteq Parts \X (1..MaxIds) /\ gone \subseteq Parts \X (1..MaxIds)
    /\ cut \subseteq Shas
    /\ faults \in 0..MaxFaults /\ changes \in 0..MaxChanges

(* A batch that works on no document holds nothing of one; a copy is of one*)
(* file that is still to be copied.                                        *)
Shape(c) ==
    /\ c.at \notin Working => c.doc = NoHeader /\ c.taken = {} /\ c.tocopy = {}
    /\ IF c.at \in {"opening", "copying"} THEN \E f \in c.tocopy : c.file = {f} ELSE c.file = {}
    /\ IsFiniteSet(c.queue) /\ Cardinality(c.queue) <= Limit
ShapeInv == \A b \in Batches : Shape(batch[b])

(* Saved parts belong to a live document, and files to a part that is there*)
(* too; a payload holds the parts of one document, with their parents.     *)
SavedInv ==
    \A k \in Keys : \A p \in saved[k] :
        /\ k \in present /\ DocOf[p] = k
        /\ p \in Files => ParentOf[p] \in saved[k] \union {Header}
Whole(row) ==
    \A p \in row.parts : /\ DocOf[p] = row.key
                         /\ p \in Files => ParentOf[p] \in row.parts \union {Header}
RowInv == \A row \in catalog : Whole(row)

(* A header that was read is out of date, or has the listed fields saved   *)
(* before.                                                                 *)
Queued(c) ==
    \A g \in c.queue :
        /\ g.key \in Keys /\ g.id \in 1..id[g.key]
        /\ \A p \in g.fields : DocOf[p] = g.key
        /\ Live(g) => \A p \in saved[g.key] \intersect Fields :
              Listed(p) => p \in g.fields \/ <<p, g.id>> \in late
QueueInv == \A b \in Batches : Queued(batch[b])

(* What was taken of a document are parts of it, parents with their files; *)
(* of what is saved to it live and listed only what came later or is still *)
(* to be read was not taken.                                               *)
Taken(c) ==
    c.at \in Working =>
        /\ c.doc.key \in Keys /\ c.doc.id \in 1..id[c.doc.key] /\ c.unread \subseteq c.taken
        /\ \A p \in c.taken :
              /\ DocOf[p] = c.doc.key
              /\ p \in Files => ParentOf[p] \in c.taken \union {Header}
        /\ Live(c.doc) => \A p \in saved[c.doc.key] : Listed(p) =>
              p \in c.taken \/ <<p, c.doc.id>> \in late \/ (p \in Files /\ ParentOf[p] \in c.unread)
TakenInv == \A b \in Batches : Taken(batch[b])

(* Live files are unlinked of rows only that are gone for good.            *)
Unlinked(c) ==
    \A x \in c.unlinking : LET k == DocOf[x[1]]
                           IN x[2] <= id[k] /\ (k \in present => x[2] < id[k])
UnlinkInv == \A b \in Batches : Unlinked(batch[b])

(* A copy that is not whole is being written, or broke off.                *)
ShaInv ==
    \A sha \in Shas :
        /\ archived[sha] # "none" => Kept(sha)
        /\ archived[sha] = "none" /\ Copying(sha) # {} => sha \in cut
CopyInv ==
    \A b \in Batches : \A f \in batch[b].taken \intersect Files :
        f \in batch[b].tocopy \/ Kept(ShaOf[f])

(* A restore works on one archived document, under an id no batch has seen,*)
(* and what it is done with is there, as long as its document is.          *)
Restoring(r) ==
    /\ restore[r].row \subseteq catalog
    /\ \A row, other \in restore[r].row : row = other
    /\ restore[r].at = "attaching" => \A row \in restore[r].row :
          /\ restore[r].id \in 1..id[row.key]
          /\ restore[r].left \subseteq Mapped(row)
          /\ \A b \in Batches : batch[b].at \in Working /\ batch[b].doc.key = row.key
                                => batch[b].doc.id # restore[r].id
          /\ row.key \in present /\ id[row.key] = restore[r].id =>
                /\ Written(row) \subseteq saved[row.key]
                /\ \A f \in (row.parts \intersect Files) \ restore[r].left : Restorable(f) =>
                      /\ f \in saved[row.key]
                      /\ <<f, restore[r].id>> \in content \/ ShaOf[f] \in cut
RestoreInv == \A r \in Restores : Restoring(r)

IInv == /\ KindInv /\ ShapeInv /\ SavedInv /\ RowInv /\ QueueInv /\ TakenInv /\ UnlinkInv
        /\ ShaInv /\ CopyInv /\ RestoreInv /\ NothingIsLost
-----------------------------------------------------------------------------
LEMMA InvImplies == IInv => NothingIsLost /\ ArchiveIsSound
  <1> SUFFICES ASSUME IInv PROVE ArchiveIsSound
    BY DEF IInv
  <1> USE DEF IInv
  <1>1. TypeOK
    <2>1. ASSUME NEW b \in Batches PROVE
              /\ DOMAIN batch[b] = DOMAIN Idle
              /\ batch[b].at \in At /\ batch[b].queue \subseteq Headers /\ batch[b].doc \in Headers
              /\ batch[b].taken \subseteq Parts /\ batch[b].unread \subseteq Lines
              /\ batch[b].tocopy \subseteq Files /\ batch[b].file \subseteq Files
              /\ batch[b].unlinking \subseteq Files \X (1..MaxIds)
      <3>1. batch[b] \in Batch
        BY <2>1 DEF KindInv
      <3>2. QED
        BY <3>1 DEF Batch, Idle, Between
    <2>2. ASSUME NEW r \in Restores PROVE
              /\ restore[r].at \in {"idle", "reading", "attaching", "done"}
              /\ restore[r].id \in 0..MaxIds /\ restore[r].left \subseteq Files
      <3>1. restore[r] \in Restore
        BY <2>2 DEF KindInv
      <3>2. QED
        BY <3>1 DEF Restore
    <2>3. \A r \in Restores : restore[r].row \subseteq catalog
      BY DEF RestoreInv, Restoring
    <2>4. \A b \in Batches : /\ Cardinality(batch[b].queue) <= Limit
                             /\ batch[b].at \notin Working => batch[b].doc = NoHeader /\ batch[b].taken = {}
                                                              /\ batch[b].tocopy = {}
      BY DEF ShapeInv, Shape
    <2>5. QED
      BY <2>1, <2>2, <2>3, <2>4 DEF TypeOK, KindInv, At, Working
  <1>2. RestoreIsComplete
    BY DEF RestoreIsComplete, Restored, Restorable, Written, RestoreInv, Restoring
  <1>3. QED
    BY <1>1, <1>2 DEF ArchiveIsSound

(* What the restart of a request leaves behind.                            *)
LEMMA Nothing ==
    /\ Idle \in Batch /\ NoRestore \in Restore
    /\ \A c \in Batch : \A a \in At : [c EXCEPT !.at = a] \in Batch
    /\ \A b : Over(b) \in Batch /\ Over(b).at \in {"idle", "done"}
    /\ \A b : Shape(Over(b)) /\ Queued(Over(b)) /\ Unlinked(Over(b))
    /\ Shape(Idle) /\ Queued(Idle) /\ Unlinked(Idle)
  <1>1. {} \subseteq Headers /\ {} \subseteq Parts /\ 0 \in 0..MaxIds /\ NoHeader \in Headers
    BY BoundsAssumption DEF NoHeader, Headers, None
  <1>2. Idle \in Batch
    BY <1>1 DEF Idle, Between, Batch, At
  <1>3. NoRestore \in Restore
    BY <1>1 DEF NoRestore, Restore
  <1>4. IsFiniteSet({}) /\ Cardinality({}) = 0 /\ 0 <= Limit
    BY FS_EmptySet, BoundsAssumption
  <1>5. \A b : Over(b) \in Batch /\ Over(b).at \in {"idle", "done"}
    <2>1. \A at \in At : Between(at, FALSE, {}) \in Batch /\ Between(at, FALSE, {}).at = at
      BY <1>1 DEF Between, Batch
    <2>2. QED
      BY <2>1 DEF Over, At
  <1>6. Shape(Idle) /\ Queued(Idle) /\ Unlinked(Idle)
    BY <1>4 DEF Idle, Between, Shape, Queued, Unlinked, Working
  <1>7. \A b : Shape(Over(b)) /\ Queued(Over(b)) /\ Unlinked(Over(b))
    BY <1>4 DEF Over, Between, Shape, Queued, Unlinked, Working
  <1>8. \A c \in Batch : \A a \in At : [c EXCEPT !.at = a] \in Batch
    BY DEF Batch
  <1>9. QED
    BY <1>2, <1>3, <1>5, <1>6, <1>7, <1>8

LEMMA InitialInv == Init => IInv
  <1> SUFFICES ASSUME Init PROVE IInv
    OBVIOUS
  <1> USE DEF Init
  <1>1. KindInv
    <2>1. 1 \in 1..MaxIds /\ 0 \in 0..MaxFaults /\ 0 \in 0..MaxChanges
      BY BoundsAssumption
    <2>2. writable \in BOOLEAN
      BY Zenon
    <2>3. policy \in Policies
      BY PoliciesAssumption
    <2>4. saved \in [Keys -> SUBSET Parts]
      BY PartsAssumption
    <2>5. batch \in [Batches -> Batch] /\ restore \in [Restores -> Restore]
      BY Nothing
    <2>6. QED
      BY <2>1, <2>2, <2>3, <2>4, <2>5 DEF KindInv
  <1>2. ShapeInv /\ QueueInv /\ UnlinkInv
    BY Nothing DEF ShapeInv, QueueInv, UnlinkInv
  <1>3. \A b \in Batches : batch[b].at = "idle" /\ batch[b].taken = {}
    BY DEF Idle, Between
  <1>4. TakenInv /\ CopyInv
    BY <1>3 DEF TakenInv, Taken, CopyInv, Working
  <1>5. SavedInv
    BY PartsAssumption DEF SavedInv, Parts
  <1>6. \A sha \in Shas : Copying(sha) = {}
    BY <1>3 DEF Copying
  <1>7. RowInv /\ ShaInv /\ NothingIsLost
    BY <1>6 DEF RowInv, ShaInv, NothingIsLost
  <1>8. RestoreInv
    BY DEF RestoreInv, Restoring, NoRestore
  <1>9. QED
    BY <1>1, <1>2, <1>4, <1>5, <1>7, <1>8 DEF IInv
-----------------------------------------------------------------------------
(* The batches.                                                            *)

(* The catalog stays or gets rows of whole documents.                      *)
Catalogues ==
    \/ catalog' = catalog
    \/ catalog \subseteq catalog' /\ catalog' \subseteq Row /\ \A row \in catalog' \ catalog : Whole(row)

(* A batch goes on, and the documents and the restores do not.             *)
Moves(b, c) ==
    /\ batch' = [batch EXCEPT ![b] = c] /\ c \in Batch /\ Shape(c)
    /\ UNCHANGED <<documents, restore, late, gone>> /\ Catalogues
    /\ cut \subseteq cut' /\ content' \subseteq content
    /\ \A x \in content \ content' : x \in batch[b].unlinking

(* The document it works on is the one it had, or is not archived yet.     *)
Known(b, c) == c.at \in Working => \/ batch[b].at \in Working /\ c.doc = batch[b].doc
                                   \/ ~Stored(c.doc.key)

LEMMA BatchFrame ==
    ASSUME IInv, KindInv', ShaInv', \A sha \in Shas : Kept(sha) => Kept(sha)',
           NEW b \in Batches, NEW c, Moves(b, c), Known(b, c),
           Queued(c), Taken(c), Unlinked(c),
           \A f \in c.taken \intersect Files : f \in c.tocopy \/ Kept(ShaOf[f])'
    PROVE  IInv'
  <1> USE DEF IInv, documents
  <1>1. /\ batch'[b] = c /\ \A x \in Batches \ {b} : batch'[x] = batch[x]
        /\ \A x \in Batches : batch[x] \in Batch /\ batch'[x] \in Batch
    BY DEF Moves, KindInv
  <1>2. ShapeInv'
    BY <1>1 DEF ShapeInv, Moves, Shape
  <1>3. SavedInv' /\ RowInv' /\ catalog \subseteq catalog'
    BY DEF Moves, SavedInv, RowInv, Catalogues, Whole
  <1>4. QueueInv'
    BY <1>1 DEF Moves, QueueInv, Queued, Live
  <1>5. TakenInv'
    BY <1>1 DEF Moves, TakenInv, Taken, Live
  <1>6. UnlinkInv'
    BY <1>1 DEF Moves, UnlinkInv, Unlinked
  <1>7. CopyInv'
    <2>1. ASSUME NEW x \in Batches, NEW f \in batch'[x].taken \intersect Files
          PROVE  f \in batch'[x].tocopy \/ Kept(ShaOf[f])'
      <3>1. ShaOf[f] \in Shas
        BY PartsAssumption
      <3>2. CASE x = b
        BY <1>1, <2>1, <3>2
      <3>3. CASE x # b
        BY <1>1, <2>1, <3>1, <3>3 DEF CopyInv
      <3>4. QED
        BY <3>2, <3>3
    <2>2. QED
      BY <2>1 DEF CopyInv
  <1>8. NothingIsLost'
    <2>1. ASSUME NEW x \in gone \ late, Listed(x[1])
          PROVE  (InPayload(x[1], x[2]) /\ (x[1] \in Files => Kept(ShaOf[x[1]])))'
      <3>1. InPayload(x[1], x[2])' /\ (x[1] \in Files => ShaOf[x[1]] \in Shas)
        BY <1>3, <2>1, PartsAssumption DEF NothingIsLost, InPayload, Moves
      <3>2. QED
        BY <2>1, <3>1 DEF NothingIsLost
    <2>2. QED
      BY <2>1 DEF NothingIsLost, Moves
  <1>9. RestoreInv'
    <2>1. ASSUME NEW r \in Restores, restore[r].at = "attaching", NEW row \in restore[r].row
          PROVE  /\ \A x \in Batches : batch'[x].at \in Working /\ batch'[x].doc.key = row.key
                                       => batch'[x].doc.id # restore[r].id
                 /\ row.key \in present /\ id[row.key] = restore[r].id =>
                    \A f \in (row.parts \intersect Files) \ restore[r].left : Restorable(f) =>
                          f \in saved[row.key] /\ (<<f, restore[r].id>> \in content' \/ ShaOf[f] \in cut')
      <3>1. row \in catalog /\ Stored(row.key)
        BY <2>1 DEF RestoreInv, Restoring, Stored
      <3>2. \A x \in Batches : batch'[x].at \in Working /\ batch'[x].doc.key = row.key
                               => batch'[x].doc.id # restore[r].id
        BY <1>1, <2>1, <3>1 DEF RestoreInv, Restoring, Known
      <3>3. ASSUME NEW f \in (row.parts \intersect Files) \ restore[r].left,
                   row.key \in present, id[row.key] = restore[r].id, <<f, restore[r].id>> \in content \ content'
            PROVE  FALSE
        <4>1. <<f, restore[r].id>> \in batch[b].unlinking /\ DocOf[f] = row.key
          BY <3>1, <3>3 DEF Moves, RowInv, Whole
        <4>2. restore[r].id < id[row.key]
          BY <3>3, <4>1 DEF UnlinkInv, Unlinked
        <4>3. id[row.key] \in Nat
          BY <3>1, <3>3 DEF KindInv
        <4>4. QED
          BY <3>3, <4>2, <4>3
      <3>4. QED
        BY <2>1, <3>2, <3>3 DEF Moves, RestoreInv, Restoring
    <2>2. QED
      BY <1>3, <2>1 DEF Moves, RestoreInv, Restoring
  <1>10. QED
    BY <1>2, <1>3, <1>4, <1>5, <1>6, <1>7, <1>8, <1>9

(* A step that copies nothing, and takes no more than it had.              *)
LEMMA QuietFrame ==
    ASSUME IInv, NEW b \in Batches, NEW c, Moves(b, c), Known(b, c), Queued(c), Taken(c), Unlinked(c),
           batch[b].at # "copying", c.at # "copying", UNCHANGED <<archived, cut>>,
           content' \in SUBSET (Files \X (1..MaxIds)), dangling' = dangling, UNCHANGED world,
           faults' \in 0..MaxFaults, changes' = changes,
           \A f \in c.taken \intersect Files : f \in c.tocopy \/ Kept(ShaOf[f])
    PROVE  IInv'
  <1>1. KindInv'
    BY DEF IInv, KindInv, Moves, Catalogues, documents, world
  <1>2. \A sha \in Shas : Copying(sha)' = Copying(sha)
    BY <1>1 DEF IInv, KindInv, Moves, Copying
  <1>3. \A sha \in Shas : Kept(sha)' = Kept(sha)
    BY <1>2 DEF Kept
  <1>4. ShaInv'
    BY <1>2, <1>3 DEF ShaInv, IInv
  <1>5. \A f \in Files : ShaOf[f] \in Shas
    BY PartsAssumption
  <1>6. \A f \in c.taken \intersect Files : f \in c.tocopy \/ Kept(ShaOf[f])'
    BY <1>3, <1>5
  <1>7. QED
    BY <1>1, <1>3, <1>4, <1>6, BatchFrame

LEMMA Dropping ==
    ASSUME IInv, NEW b \in Batches
    PROVE  LET c == Dropped(batch[b])
           IN /\ c \in Batch /\ c.at = "next" /\ c.taken = {} /\ Shape(c)
              /\ Known(b, c) /\ Queued(c) /\ Taken(c) /\ Unlinked(c)
  <1>1. batch[b] \in Batch /\ Shape(batch[b]) /\ Queued(batch[b])
    BY DEF IInv, KindInv, ShapeInv, QueueInv
  <1>2. Dropped(batch[b]) \in Batch
    <2>1. batch[b].files \in BOOLEAN /\ batch[b].queue \in SUBSET Headers
      BY <1>1 DEF Batch
    <2>2. NoHeader \in Headers
      BY BoundsAssumption DEF NoHeader, Headers, None
    <2>3. QED
      BY <2>1, <2>2 DEF Dropped, Between, Batch, At
  <1>3. /\ Dropped(batch[b]).at = "next" /\ Dropped(batch[b]).queue = batch[b].queue
        /\ Dropped(batch[b]).doc = NoHeader /\ Dropped(batch[b]).taken = {}
        /\ Dropped(batch[b]).tocopy = {} /\ Dropped(batch[b]).file = {} /\ Dropped(batch[b]).unlinking = {}
    BY DEF Dropped, Between
  <1>4. QED
    BY <1>1, <1>2, <1>3 DEF Shape, Known, Queued, Taken, Unlinked, Working

(* A throw, at whatever step of a document it happens.                     *)
LEMMA SkipStep ==
    ASSUME IInv, NEW b \in Batches, Skip(b), batch[b].at # "copying", Catalogues,
           UNCHANGED <<live, world, archived, restore, history>>, faults' \in 0..MaxFaults, changes' = changes
    PROVE  IInv'
  <1>1. Moves(b, Dropped(batch[b]))
    BY Dropping DEF Moves, Skip, live, documents, history
  <1>2. content' \in SUBSET (Files \X (1..MaxIds))
    BY DEF IInv, KindInv, live
  <1>3. QED
    BY <1>1, <1>2, Dropping, QuietFrame DEF live, history

LEMMA CandidatesAreRows ==
    \A h \in Candidates :
        /\ h.key \in present /\ Cardinality({j \in present : j < h.key}) < Limit
        /\ h.id = id[h.key] /\ h.fields = (saved[h.key] \intersect Fields) \ Outside
        /\ h = [key |-> h.key, id |-> id[h.key], fields |-> (saved[h.key] \intersect Fields) \ Outside]
  <1> DEFINE Older(k) == {j \in present : j < k}
  <1>1. SUFFICES ASSUME NEW h \in Candidates
        PROVE  /\ h.key \in present /\ Cardinality(Older(h.key)) < Limit
               /\ h.id = id[h.key] /\ h.fields = (saved[h.key] \intersect Fields) \ Outside
               /\ h = [key |-> h.key, id |-> id[h.key], fields |-> (saved[h.key] \intersect Fields) \ Outside]
    OBVIOUS
  <1>2. PICK k \in {i \in present : Cardinality(Older(i)) < Limit} :
            h = [key |-> k, id |-> id[k], fields |-> (saved[k] \intersect Fields) \ Outside]
    BY DEF Candidates
  <1> HIDE DEF Older
  <1>3. h.key = k /\ h.id = id[k] /\ h.fields = (saved[k] \intersect Fields) \ Outside
    BY <1>2
  <1>4. QED
    BY <1>2, <1>3

(* The candidates are at most batchSize: their ranks differ.               *)
LEMMA CandidatesAreFew ==
    ASSUME IInv
    PROVE  IsFiniteSet(Candidates) /\ Cardinality(Candidates) <= Limit /\ Candidates \subseteq Headers
  <1> DEFINE Older(k) == {j \in present : j < k}
             rank == [h \in Candidates |-> Cardinality(Older(h.key))]
  <1>1. present \subseteq Keys /\ Keys \subseteq Nat \ {None} /\ IsFiniteSet(present)
    BY KeysAssumption, FS_Subset DEF IInv, KindInv
  <1>2. \A k \in present : IsFiniteSet(Older(k)) /\ Cardinality(Older(k)) \in Nat
    <2>1. \A k : Older(k) \in SUBSET present
      OBVIOUS
    <2>2. QED
      BY <1>1, <2>1, FS_Subset, FS_CardinalityType
  <1>3. ASSUME NEW j \in present, NEW k \in present, j < k
        PROVE  Cardinality(Older(j)) # Cardinality(Older(k))
    <2>1. j \in Nat /\ k \in Nat /\ \A i \in present : i \in Nat
      BY <1>1
    <2>2. Older(j) \subseteq Older(k) /\ j \in Older(k) /\ j \notin Older(j)
      <3>1. \A i \in present : i < j => i < k
        BY <1>3, <2>1
      <3>2. j < k /\ ~(j < j)
        BY <1>3, <2>1
      <3>3. QED
        BY <3>1, <3>2
    <2>3. Older(j) \in SUBSET Older(k)
      BY <2>2
    <2> HIDE DEF Older
    <2>4. QED
      BY <1>2, <2>2, <2>3, FS_Subset
  <1>4. \A h \in Candidates : h.key \in present /\ Cardinality(Older(h.key)) < Limit
                              /\ h = [key |-> h.key, id |-> id[h.key], fields |-> (saved[h.key] \intersect Fields) \ Outside]
    BY CandidatesAreRows
  <1>5. \A g, h \in Candidates : Cardinality(Older(g.key)) = Cardinality(Older(h.key)) => g = h
    <2>1. SUFFICES ASSUME NEW g \in Candidates, NEW h \in Candidates,
                          Cardinality(Older(g.key)) = Cardinality(Older(h.key))
                   PROVE  g = h
      OBVIOUS
    <2> HIDE DEF Older
    <2>2. g.key \in Nat /\ h.key \in Nat /\ g.key \in present /\ h.key \in present
      BY <1>1, <1>4
    <2>3. g.key = h.key
      BY <1>3, <2>1, <2>2
    <2>4. QED
      BY <1>4, <2>3
  <1> HIDE DEF Older
  <1>6. rank \in Injection(Candidates, 0..(Limit - 1))
    <2>1. \A h \in Candidates : Cardinality(Older(h.key)) \in 0..(Limit - 1)
      BY <1>2, <1>4, BoundsAssumption
    <2>2. rank \in [Candidates -> 0..(Limit - 1)]
      BY <2>1
    <2>3. \A g, h \in Candidates : rank[g] = rank[h] => g = h
      BY <1>5
    <2> HIDE DEF rank
    <2>4. QED
      BY <2>2, <2>3 DEF Injection, IsInjective
  <1>7. IsFiniteSet(0..(Limit - 1)) /\ Cardinality(0..(Limit - 1)) = Limit
    BY FS_Interval, BoundsAssumption
  <1>8. Candidates \subseteq Headers
    BY <1>1, <1>4 DEF Headers, IInv, KindInv
  <1> HIDE DEF rank
  <1>9. QED
    BY <1>6, <1>7, <1>8, FS_Injection

LEMMA StartBatchStep == ASSUME IInv, NEW b \in Batches, StartBatch(b) PROVE IInv'
  <1> DEFINE c == Between("next", policy.files, Candidates)
  <1>1. policy.files \in BOOLEAN
    BY PoliciesAssumption DEF IInv, KindInv
  <1>2. /\ c.at = "next" /\ c.queue = Candidates /\ c.doc = NoHeader /\ c.taken = {} /\ c.tocopy = {}
        /\ c.file = {} /\ c.unlinking = {}
    BY DEF Between
  <1>3. c \in Batch
    <2>1. NoHeader \in Headers
      BY BoundsAssumption DEF NoHeader, Headers, None
    <2>2. QED
      BY <1>1, <2>1, CandidatesAreFew DEF Between, Batch, At
  <1>4. batch' = [batch EXCEPT ![b] = c]
    BY DEF StartBatch
  <1> HIDE DEF c
  <1>5. Shape(c) /\ Known(b, c) /\ Taken(c) /\ Unlinked(c)
    BY <1>2, CandidatesAreFew DEF Shape, Known, Taken, Unlinked, Working
  <1>6. Queued(c)
    <2>1. ASSUME NEW g \in Candidates
          PROVE  /\ g.key \in Keys /\ g.id \in 1..id[g.key] /\ g.fields = (saved[g.key] \intersect Fields) \ Outside
                 /\ \A p \in g.fields : DocOf[p] = g.key
      <3>1. g.key \in present /\ g.id = id[g.key] /\ g.fields = (saved[g.key] \intersect Fields) \ Outside
        BY CandidatesAreRows
      <3>2. g.key \in Keys /\ id[g.key] \in 1..MaxIds
        BY <3>1 DEF IInv, KindInv
      <3>3. QED
        BY <3>1, <3>2, BoundsAssumption DEF IInv, SavedInv
    <2>2. QED
      BY <1>2, <2>1 DEF Queued, Listed
  <1>7. Moves(b, c)
    BY <1>3, <1>4, <1>5 DEF StartBatch, Moves, Catalogues, live, documents, store, history
  <1>8. content' \in SUBSET (Files \X (1..MaxIds)) /\ faults' \in 0..MaxFaults
    BY DEF IInv, KindInv, StartBatch, live, bounds
  <1>9. batch[b].at # "copying" /\ c.at # "copying" /\ c.taken = {}
    BY <1>2 DEF StartBatch
  <1>10. QED
    BY <1>5, <1>6, <1>7, <1>8, <1>9, QuietFrame DEF StartBatch, live, store, history, bounds

(* What is saved to a document that was read, of the kinds the queries ask.*)
LEMMA Reading ==
    ASSUME IInv, NEW h
    PROVE  /\ PartsOf(h) \subseteq Parts /\ LinesOf(h) \subseteq Lines
           /\ \A p \in PartsOf(h) : /\ p \in saved[h.key] /\ Live(h) /\ DocOf[p] = h.key
                                    /\ p \in Files /\ Listed(p) => ParentOf[p] \in LinesOf(h) \union {Header}
           /\ \A ps : FilesOf(h, ps) \subseteq PartsOf(h) \intersect Files
           /\ \A ps : \A f \in FilesOf(h, ps) : ParentOf[f] \in ps
  <1>1. PartsOf(h) \subseteq Parts
    BY DEF IInv, KindInv, PartsOf, Live
  <1>2. ASSUME NEW p \in PartsOf(h)
        PROVE  /\ p \in saved[h.key] /\ Live(h) /\ DocOf[p] = h.key
               /\ p \in Files /\ Listed(p) => ParentOf[p] \in LinesOf(h) \union {Header}
    <2>1. p \in saved[h.key] /\ Live(h) /\ h.key \in Keys /\ PartsOf(h) = saved[h.key]
      BY <1>2 DEF IInv, KindInv, PartsOf, Live
    <2>2. p \in Files => ParentOf[p] \in Lines \union {Header}
      BY PartsAssumption
    <2>3. QED
      BY <2>1, <2>2 DEF IInv, SavedInv, LinesOf, Listed
  <1>3. \A ps : FilesOf(h, ps) \subseteq PartsOf(h) \intersect Files /\ \A f \in FilesOf(h, ps) : ParentOf[f] \in ps
    BY DEF FilesOf
  <1>4. QED
    BY <1>1, <1>2, <1>3 DEF LinesOf

LEMMA TakeDocumentStep == ASSUME IInv, NEW b \in Batches, TakeDocument(b) PROVE IInv'
  <1>1. batch[b] \in Batch /\ Shape(batch[b]) /\ Queued(batch[b]) /\ batch[b].at = "next"
    BY DEF IInv, KindInv, ShapeInv, QueueInv, TakeDocument
  <1>2. /\ UNCHANGED <<documents, catalog, restore, late, gone, archived, cut, world, changes, content, dangling>>
        /\ content \in SUBSET (Files \X (1..MaxIds)) /\ faults' \in 0..MaxFaults
    BY DEF TakeDocument, live, store, history, bounds, documents, IInv, KindInv
  <1>3. CASE batch' = [batch EXCEPT ![b] = Over(b)]
    <2>1. /\ Over(b) \in Batch /\ Over(b).at \notin Working /\ Over(b).at # "copying" /\ Shape(Over(b))
          /\ Queued(Over(b)) /\ Unlinked(Over(b))
      BY Nothing DEF Working
    <2>2. Over(b).taken = {} /\ Taken(Over(b)) /\ Known(b, Over(b))
      BY <2>1 DEF Shape, Taken, Known
    <2>3. Moves(b, Over(b))
      BY <1>2, <1>3, <2>1 DEF Moves, Catalogues
    <2>4. QED
      BY <1>1, <1>2, <2>1, <2>2, <2>3, QuietFrame
  <1>4. ASSUME NEW h \in Open(b), batch' = [batch EXCEPT ![b] = Taking(batch[b], h)]
        PROVE  IInv'
    <2> DEFINE top == FilesOf(h, {Header})
               c == Taking(batch[b], h)
    <2>1. h \in batch[b].queue /\ ~Refused(b, h)
      BY DEF Open
    <2>2. h \in Headers /\ batch[b].queue \subseteq Headers /\ batch[b].files \in BOOLEAN
      BY <1>1, <2>1 DEF Batch
    <2>3. /\ h.key \in Keys /\ h.id \in 1..id[h.key] /\ \A p \in h.fields : DocOf[p] = h.key
          /\ Live(h) => \A p \in saved[h.key] \intersect Fields :
                Listed(p) => p \in h.fields \/ <<p, h.id>> \in late
      BY <1>1, <2>1 DEF Queued
    <2>4. h.fields \subseteq Fields /\ Fields \subseteq Parts /\ Lines \subseteq Parts
      BY <2>2 DEF Headers, Parts
    <2>5. top \subseteq Files /\ LinesOf(h) \subseteq Lines /\ top \subseteq PartsOf(h) /\ LinesOf(h) \subseteq PartsOf(h)
          /\ \A f \in top : ParentOf[f] = Header
      BY Reading DEF LinesOf
    <2>6. top \subseteq Parts
      BY <2>5 DEF Parts
    <2>7. /\ c.at = "packing" /\ c.queue = {g \in batch[b].queue : g.key > h.key} /\ c.doc = h
          /\ c.taken = h.fields \union LinesOf(h) \union top
          /\ c.unread = (IF batch[b].files THEN LinesOf(h) ELSE {})
          /\ c.tocopy = top /\ c.file = {} /\ c.unlinking = {}
      BY DEF Taking
    <2>8. c \in Batch
      BY <2>2, <2>4, <2>5, <2>6 DEF Taking, Batch, At
    <2>9. batch' = [batch EXCEPT ![b] = c]
      BY <1>4
    <2> HIDE DEF c, top
    <2>10. Shape(c)
      <3>1. c.queue \in SUBSET batch[b].queue /\ IsFiniteSet(batch[b].queue) /\ Cardinality(batch[b].queue) <= Limit
        BY <1>1, <2>7 DEF Shape
      <3>2. IsFiniteSet(c.queue) /\ Cardinality(c.queue) <= Cardinality(batch[b].queue)
        BY <3>1, FS_Subset
      <3>3. Cardinality(c.queue) \in Nat /\ Cardinality(batch[b].queue) \in Nat
        BY <3>1, <3>2, FS_CardinalityType
      <3>4. Cardinality(c.queue) <= Limit
        BY <3>1, <3>2, <3>3, BoundsAssumption
      <3>5. QED
        BY <2>7, <3>2, <3>4 DEF Shape, Working
    <2>11. Queued(c) /\ Unlinked(c)
      BY <1>1, <2>7 DEF Queued, Unlinked
    <2>12. Known(b, c)
      BY <2>1, <2>7 DEF Known, Refused
    <2>13. Taken(c)
      <3>1. \A p \in c.taken : DocOf[p] = h.key /\ (p \in Files => ParentOf[p] = Header)
        BY <2>3, <2>4, <2>5, <2>7, Reading, PartsAssumption
      <3>2. ASSUME Live(h), NEW p \in saved[h.key], Listed(p)
            PROVE  p \in c.taken \/ <<p, h.id>> \in late \/ (p \in Files /\ ParentOf[p] \in c.unread)
        <4>1. p \in PartsOf(h) /\ p \in Parts
          BY <3>2, Reading DEF PartsOf
        <4>2. CASE p \in Fields
          BY <2>3, <2>7, <3>2, <4>2
        <4>3. CASE p \in Lines
          BY <2>7, <3>2, <4>1, <4>3 DEF LinesOf, Listed
        <4>4. CASE p \in Files
          <5>1. ParentOf[p] \in LinesOf(h) \union {Header}
            BY <3>2, <4>1, <4>4, Reading
          <5>2. p \in FilesOf(h, LinesOf(h) \union {Header})
            BY <4>1, <4>4, <5>1 DEF FilesOf
          <5>3. batch[b].files
            BY <2>1, <5>2 DEF Refused
          <5>4. ParentOf[p] = Header => p \in top
            BY <4>1, <4>4 DEF FilesOf, top
          <5>5. QED
            BY <2>7, <4>4, <5>1, <5>3, <5>4
        <4>5. QED
          BY <4>1, <4>2, <4>3, <4>4 DEF Parts
      <3>3. c.unread \subseteq c.taken
        BY <2>7
      <3>4. QED
        BY <2>3, <2>7, <3>1, <3>2, <3>3 DEF Taken
    <2>14. Moves(b, c)
      BY <1>2, <2>8, <2>9, <2>10 DEF Moves, Catalogues
    <2>15. \A f \in c.taken \intersect Files : f \in c.tocopy
      BY <2>4, <2>5, <2>7, PartsAssumption
    <2>16. batch[b].at # "copying" /\ c.at # "copying"
      BY <1>1, <2>7
    <2>17. QED
      BY <1>2, <2>11, <2>12, <2>13, <2>14, <2>15, <2>16, QuietFrame
  <1>5. QED
    BY <1>3, <1>4 DEF TakeDocument

LEMMA ReadLineStep == ASSUME IInv, NEW b \in Batches, NEW l \in Lines, ReadLine(b, l) PROVE IInv'
  <1> DEFINE h == batch[b].doc
             found == FilesOf(h, {l})
             c == WithFiles(batch[b], l)
  <1>1. /\ batch[b] \in Batch /\ Shape(batch[b]) /\ Queued(batch[b]) /\ Taken(batch[b]) /\ Unlinked(batch[b])
        /\ batch[b].at = "packing" /\ batch[b].tocopy = {} /\ l \in batch[b].unread
    BY DEF IInv, KindInv, ShapeInv, QueueInv, TakenInv, UnlinkInv, ReadLine
  <1>2. /\ UNCHANGED <<documents, catalog, restore, late, gone, archived, cut, world, changes, content, dangling>>
        /\ content \in SUBSET (Files \X (1..MaxIds)) /\ faults' \in 0..MaxFaults
    BY DEF ReadLine, live, store, history, bounds, documents, IInv, KindInv
  <1>3. batch' = [batch EXCEPT ![b] = c]
    BY DEF ReadLine
  <1>4. /\ found \subseteq PartsOf(h) \intersect Files /\ found \subseteq Parts
        /\ \A f \in found : ParentOf[f] = l /\ DocOf[f] = h.key
    BY Reading DEF Parts
  <1>5. batch[b].taken \union found \in SUBSET Parts /\ found \in SUBSET Files /\ batch[b].unread \ {l} \in SUBSET Lines
    BY <1>1, <1>4 DEF Batch
  <1> HIDE DEF found
  <1>6. /\ c \in Batch /\ c.unread = batch[b].unread \ {l} /\ c.tocopy = found
        /\ c.taken = batch[b].taken \union found /\ c.at = "packing" /\ c.queue = batch[b].queue
        /\ c.doc = h /\ c.file = batch[b].file /\ c.unlinking = batch[b].unlinking
    BY <1>1, <1>5 DEF WithFiles, found, Batch
  <1> HIDE DEF c
  <1>7. Shape(c) /\ Queued(c) /\ Unlinked(c) /\ Known(b, c)
    BY <1>1, <1>6 DEF Shape, Queued, Unlinked, Known, Working
  <1>8. Taken(c)
    <2>1. /\ h.key \in Keys /\ h.id \in 1..id[h.key] /\ batch[b].unread \subseteq batch[b].taken
          /\ \A p \in batch[b].taken : DocOf[p] = h.key /\ (p \in Files => ParentOf[p] \in batch[b].taken \union {Header})
          /\ Live(h) => \A p \in saved[h.key] : Listed(p) =>
                p \in batch[b].taken \/ <<p, h.id>> \in late \/ (p \in Files /\ ParentOf[p] \in batch[b].unread)
      BY <1>1 DEF Taken, Working
    <2>2. l \in batch[b].taken
      BY <1>1, <2>1
    <2>3. \A p \in c.taken : DocOf[p] = h.key /\ (p \in Files => ParentOf[p] \in c.taken \union {Header})
      BY <1>4, <1>6, <2>1, <2>2
    <2>4. ASSUME Live(h), NEW p \in saved[h.key], Listed(p)
          PROVE  p \in c.taken \/ <<p, h.id>> \in late \/ (p \in Files /\ ParentOf[p] \in c.unread)
      <3>1. CASE p \in Files /\ ParentOf[p] = l
        <4>1. p \in found
          BY <2>4, <3>1 DEF found, FilesOf, PartsOf
        <4>2. QED
          BY <1>6, <4>1
      <3>2. QED
        BY <1>6, <2>1, <2>4, <3>1
    <2>5. c.unread \subseteq c.taken
      BY <1>6, <2>1
    <2>6. QED
      BY <1>6, <2>1, <2>3, <2>4, <2>5 DEF Taken
  <1>9. Moves(b, c)
    BY <1>2, <1>3, <1>6, <1>7 DEF Moves, Catalogues
  <1>10. \A f \in c.taken \intersect Files : f \in c.tocopy \/ Kept(ShaOf[f])
    BY <1>1, <1>6 DEF IInv, CopyInv
  <1>11. batch[b].at # "copying" /\ c.at # "copying"
    BY <1>1, <1>6
  <1>12. QED
    BY <1>2, <1>7, <1>8, <1>9, <1>10, <1>11, QuietFrame

LEMMA Charging == ASSUME IInv, NEW fault \in Faulty, Charge(fault) PROVE faults' \in 0..MaxFaults
  <1>1. fault \in BOOLEAN /\ (fault => faults < MaxFaults) /\ faults \in 0..MaxFaults
    BY DEF Faulty, IInv, KindInv
  <1>2. QED
    BY <1>1, BoundsAssumption DEF Charge

LEMMA Copies ==
    ASSUME NEW c \in Batch, NEW f \in Files
    PROVE  /\ LET d == Opening(c, f)
              IN /\ d \in Batch /\ d.at = "opening" /\ d.file = {f} /\ d.tocopy = c.tocopy
                 /\ d.queue = c.queue /\ d.doc = c.doc /\ d.taken = c.taken /\ d.unread = c.unread
                 /\ d.unlinking = c.unlinking
           /\ LET d == Copied(c, f)
              IN /\ d \in Batch /\ d.at = "packing" /\ d.file = {} /\ d.tocopy = c.tocopy \ {f}
                 /\ d.queue = c.queue /\ d.doc = c.doc /\ d.taken = c.taken /\ d.unread = c.unread
                 /\ d.unlinking = c.unlinking
           /\ LET d == [c EXCEPT !.at = "copying"]
              IN /\ d \in Batch /\ d.at = "copying" /\ d.file = c.file /\ d.tocopy = c.tocopy
                 /\ d.queue = c.queue /\ d.doc = c.doc /\ d.taken = c.taken /\ d.unread = c.unread
                 /\ d.unlinking = c.unlinking
  BY DEF Batch, At, Opening, Copied

LEMMA CopiedOf ==
    ASSUME NEW c \in Batch, NEW f \in Files
    PROVE  /\ Copied(c, f) \in Batch /\ Copied(c, f).at = "packing" /\ Copied(c, f).tocopy = c.tocopy \ {f}
           /\ Copied(c, f).queue = c.queue /\ Copied(c, f).doc = c.doc /\ Copied(c, f).taken = c.taken
           /\ Copied(c, f).unread = c.unread /\ Copied(c, f).unlinking = c.unlinking
  BY DEF Batch, At, Copied

LEMMA OpeningShape ==
    ASSUME NEW c \in Batch, NEW f \in c.tocopy, Shape(c)
    PROVE  Shape(Opening(c, f))
  <1> DEFINE d == Opening(c, f)
  <1>1. d.at = "opening" /\ d.file = {f} /\ f \in d.tocopy /\ d.queue = c.queue
    BY DEF Batch, Opening
  <1> HIDE DEF d
  <1>2. d.at \in Working /\ d.at \in {"opening", "copying"} /\ \E g \in d.tocopy : d.file = {g}
    BY <1>1 DEF Working
  <1>3. IsFiniteSet(d.queue) /\ Cardinality(d.queue) <= Limit
    BY <1>1 DEF Shape
  <1>4. Shape(d)
    BY <1>2, <1>3 DEF Shape
  <1>5. QED
    BY <1>4 DEF d

(* A batch goes on with the same document.                                 *)
LEMMA GoingOn ==
    ASSUME IInv, NEW b \in Batches, NEW d, batch[b].at \in Working, d.at \in Working,
           d.queue = batch[b].queue, d.doc = batch[b].doc, d.taken = batch[b].taken,
           d.unread = batch[b].unread, d.unlinking = batch[b].unlinking
    PROVE  Known(b, d) /\ Queued(d) /\ Taken(d) /\ Unlinked(d)
  <1>1. Queued(batch[b]) /\ Taken(batch[b]) /\ Unlinked(batch[b])
    BY DEF IInv, QueueInv, TakenInv, UnlinkInv
  <1>2. QED
    BY <1>1 DEF Known, Queued, Taken, Unlinked

LEMMA CheckTargetStep == ASSUME IInv, NEW b \in Batches, NEW f \in Files, CheckTarget(b, f) PROVE IInv'
  <1>1. batch[b] \in Batch /\ Shape(batch[b]) /\ batch[b].at = "packing" /\ f \in batch[b].tocopy
    BY DEF IInv, KindInv, ShapeInv, CheckTarget
  <1>2. /\ UNCHANGED <<documents, catalog, restore, late, gone, archived, cut, world, changes, content, dangling>>
        /\ content \in SUBSET (Files \X (1..MaxIds)) /\ faults' \in 0..MaxFaults
    BY DEF CheckTarget, live, store, history, bounds, documents, IInv, KindInv
  <1>3. ASSUME NEW c, batch' = [batch EXCEPT ![b] = c], c \in Batch, Shape(c), c.at \in {"packing", "opening"},
               c.queue = batch[b].queue, c.doc = batch[b].doc, c.taken = batch[b].taken,
               c.unread = batch[b].unread, c.unlinking = batch[b].unlinking,
               \A g \in batch[b].tocopy : g \in c.tocopy \/ Kept(ShaOf[g])
        PROVE  IInv'
    <2>1. Known(b, c) /\ Queued(c) /\ Taken(c) /\ Unlinked(c)
      BY <1>1, <1>3, GoingOn DEF Working
    <2>2. Moves(b, c)
      BY <1>2, <1>3 DEF Moves, Catalogues
    <2>3. \A g \in c.taken \intersect Files : g \in c.tocopy \/ Kept(ShaOf[g])
      BY <1>3 DEF IInv, CopyInv
    <2>4. QED
      BY <1>1, <1>2, <1>3, <2>1, <2>2, <2>3, QuietFrame
  <1>4. CASE archived[ShaOf[f]] = "none"
    <2>1. batch' = [batch EXCEPT ![b] = Opening(batch[b], f)]
      BY <1>4 DEF CheckTarget
    <2>2. Shape(Opening(batch[b], f))
      BY <1>1, OpeningShape
    <2>3. QED
      BY <1>1, <1>3, <2>1, <2>2, Copies
  <1>5. CASE archived[ShaOf[f]] # "none"
    <2>1. batch' = [batch EXCEPT ![b] = Copied(batch[b], f)]
      BY <1>5 DEF CheckTarget
    <2>2. Shape(Copied(batch[b], f))
      BY <1>1, Copies DEF Shape, Working
    <2>3. Kept(ShaOf[f])
      BY <1>5, PartsAssumption DEF IInv, ShaInv
    <2> DEFINE c == Copied(batch[b], f)
    <2>4. /\ c \in Batch /\ c.at = "packing" /\ c.tocopy = batch[b].tocopy \ {f}
          /\ c.queue = batch[b].queue /\ c.doc = batch[b].doc /\ c.taken = batch[b].taken
          /\ c.unread = batch[b].unread /\ c.unlinking = batch[b].unlinking
      BY <1>1, CopiedOf
    <2> HIDE DEF c
    <2>5. \A g \in batch[b].tocopy : g \in c.tocopy \/ Kept(ShaOf[g])
      BY <2>3, <2>4
    <2>6. batch' = [batch EXCEPT ![b] = c] /\ Shape(c)
      BY <2>1, <2>2 DEF c
    <2>7. QED
      BY <1>3, <2>4, <2>5, <2>6
  <1>6. QED
    BY <1>4, <1>5

LEMMA OpenCopyStep == ASSUME IInv, NEW b \in Batches, OpenCopy(b) PROVE IInv'
  <1>1. batch[b] \in Batch /\ Shape(batch[b]) /\ batch[b].at = "opening"
    BY DEF IInv, KindInv, ShapeInv, OpenCopy
  <1>2. PICK f \in batch[b].file :
           IF <<f, batch[b].doc.id>> \in content
           THEN /\ archived' = [archived EXCEPT ![ShaOf[f]] = "torn"]
                /\ batch' = [batch EXCEPT ![b].at = "copying"]
           ELSE Skip(b) /\ UNCHANGED archived
    BY DEF OpenCopy
  <1>3. batch[b].file = {f} /\ f \in batch[b].tocopy /\ f \in Files
    BY <1>1, <1>2 DEF Shape, Batch
  <1>4. CASE Skip(b) /\ UNCHANGED archived
    <2>1. /\ UNCHANGED <<live, world, archived, restore, history, changes>> /\ Catalogues
          /\ faults' \in 0..MaxFaults
      BY <1>4 DEF OpenCopy, bounds, Catalogues, IInv, KindInv
    <2>2. QED
      BY <1>1, <1>4, <2>1, SkipStep
  <1>5. CASE archived' = [archived EXCEPT ![ShaOf[f]] = "torn"] /\ batch' = [batch EXCEPT ![b].at = "copying"]
    <2> DEFINE c == [batch[b] EXCEPT !.at = "copying"]
    <2>1. batch' = [batch EXCEPT ![b] = c]
      BY <1>5 DEF IInv, KindInv
    <2>2. /\ c \in Batch /\ c.at = "copying" /\ c.file = {f} /\ c.tocopy = batch[b].tocopy
          /\ c.queue = batch[b].queue /\ c.doc = batch[b].doc /\ c.taken = batch[b].taken
          /\ c.unread = batch[b].unread /\ c.unlinking = batch[b].unlinking
      BY <1>1, <1>3, Copies
    <2> HIDE DEF c
    <2>3. Shape(c)
      BY <1>1, <1>3, <2>2 DEF Shape, Working
    <2>4. Known(b, c) /\ Queued(c) /\ Taken(c) /\ Unlinked(c)
      BY <1>1, <2>2, GoingOn DEF Working
    <2>5. UNCHANGED <<documents, catalog, restore, late, gone, cut, content>>
      BY DEF OpenCopy, live, history, documents
    <2>6. Moves(b, c)
      BY <2>1, <2>2, <2>3, <2>5 DEF Moves, Catalogues
    <2>7. KindInv'
      BY <1>5, <2>1, <2>2, <2>5 DEF OpenCopy, IInv, KindInv, documents, live, world, history, bounds
    <2>8. ShaOf[f] \in Shas /\ \A g \in Files : ShaOf[g] \in Shas
      BY <1>3, PartsAssumption
    <2>9. \A sha \in Shas : Copying(sha)' = IF sha = ShaOf[f] THEN Copying(sha) \union {b} ELSE Copying(sha)
      BY <1>1, <2>1, <2>2, <2>7 DEF Copying, IInv, KindInv
    <2>10. /\ archived'[ShaOf[f]] = "torn"
           /\ \A sha \in Shas \ {ShaOf[f]} : archived'[sha] = archived[sha]
      BY <1>5, <2>8 DEF IInv, KindInv
    <2>11. ShaInv' /\ \A sha \in Shas : Kept(sha) => Kept(sha)'
      BY <2>5, <2>9, <2>10 DEF IInv, ShaInv, Kept
    <2>12. \A g \in c.taken \intersect Files : g \in c.tocopy \/ Kept(ShaOf[g])'
      BY <2>2, <2>8, <2>11 DEF IInv, CopyInv
    <2>13. QED
      BY <2>4, <2>6, <2>7, <2>11, <2>12, BatchFrame
  <1>6. QED
    BY <1>2, <1>4, <1>5

LEMMA EndCopyStep == ASSUME IInv, NEW b \in Batches, EndCopy(b) PROVE IInv'
  <1>1. batch[b] \in Batch /\ Shape(batch[b]) /\ batch[b].at = "copying"
    BY DEF IInv, KindInv, ShapeInv, EndCopy
  <1>2. PICK f \in batch[b].file, fault \in Faulty :
            /\ archived' = [archived EXCEPT ![ShaOf[f]] =
                   IF fault \/ archived[ShaOf[f]] = "none" THEN "none"
                   ELSE IF Copying(ShaOf[f]) = {b} THEN "whole" ELSE "torn"]
            /\ cut' = IF fault THEN cut \union {ShaOf[f]} ELSE cut
            /\ IF fault THEN Skip(b) ELSE batch' = [batch EXCEPT ![b] = Copied(batch[b], f)]
            /\ Charge(fault)
    BY DEF EndCopy
  <1>3. batch[b].file = {f} /\ f \in batch[b].tocopy /\ f \in Files
    BY <1>1, <1>2 DEF Shape, Batch
  <1>4. ShaOf[f] \in Shas /\ (\A g \in Files : ShaOf[g] \in Shas) /\ fault \in BOOLEAN
    BY <1>3, PartsAssumption DEF Faulty
  <1>5. /\ UNCHANGED <<documents, catalog, restore, late, gone, content, dangling, world, changes>>
        /\ cut \subseteq cut' /\ cut' \subseteq Shas /\ faults' \in 0..MaxFaults
    BY <1>2, <1>4, Charging DEF EndCopy, live, documents, IInv, KindInv
  <1>6. archived' \in [Shas -> {"none", "torn", "whole"}]
    BY <1>2 DEF IInv, KindInv
  <1>7. ASSUME NEW c, batch' = [batch EXCEPT ![b] = c], c \in Batch, Shape(c), c.at # "copying",
               Known(b, c), Queued(c), Taken(c), Unlinked(c),
               \A g \in c.taken \intersect Files : g \in c.tocopy \/ Kept(ShaOf[g])
        PROVE  IInv'
    <2>1. Moves(b, c)
      BY <1>5, <1>7 DEF Moves, Catalogues
    <2>2. KindInv'
      BY <1>5, <1>6, <1>7 DEF IInv, KindInv, documents, world
    <2>3. \A sha \in Shas : Copying(sha)' = Copying(sha) \ {b}
      BY <1>7, <2>2 DEF Copying, IInv, KindInv
    <2>4. b \in Copying(ShaOf[f]) /\ \A sha \in Shas \ {ShaOf[f]} : b \notin Copying(sha)
      BY <1>1, <1>3 DEF Copying
    <2>5. \A sha \in Shas \ {ShaOf[f]} : archived'[sha] = archived[sha] /\ Copying(sha)' = Copying(sha)
      <3>1. archived \in [Shas -> {"none", "torn", "whole"}]
        BY DEF IInv, KindInv
      <3>2. \A sha \in Shas \ {ShaOf[f]} : archived'[sha] = archived[sha]
        BY <1>2, <3>1
      <3>3. \A sha \in Shas \ {ShaOf[f]} : Copying(sha)' = Copying(sha)
        BY <2>3, <2>4
      <3>4. QED
        BY <3>2, <3>3
    <2>6. archived'[ShaOf[f]] = IF fault \/ archived[ShaOf[f]] = "none" THEN "none"
                                ELSE IF Copying(ShaOf[f]) = {b} THEN "whole" ELSE "torn"
      BY <1>2, <1>4 DEF IInv, KindInv
    <2>7. fault => ShaOf[f] \in cut'
      BY <1>2
    <2>8. archived[ShaOf[f]] = "none" => ShaOf[f] \in cut'
      BY <1>4, <1>5, <2>4 DEF IInv, ShaInv
    <2>9. archived'[ShaOf[f]] = "torn" => Copying(ShaOf[f])' # {}
      BY <1>4, <2>3, <2>4, <2>6
    <2>10. Kept(ShaOf[f])' /\ (archived'[ShaOf[f]] = "none" => ShaOf[f] \in cut')
      BY <2>6, <2>7, <2>8, <2>9 DEF Kept
    <2>11. ASSUME NEW sha \in Shas
           PROVE  /\ Kept(sha) => Kept(sha)'
                  /\ archived'[sha] # "none" => Kept(sha)'
                  /\ archived'[sha] = "none" /\ Copying(sha)' # {} => sha \in cut'
      <3>1. CASE sha = ShaOf[f]
        BY <2>10, <3>1
      <3>2. CASE sha # ShaOf[f]
        BY <1>5, <2>5, <3>2 DEF Kept, IInv, ShaInv
      <3>3. QED
        BY <3>1, <3>2
    <2>12. ShaInv' /\ \A sha \in Shas : Kept(sha) => Kept(sha)'
      BY <2>11 DEF ShaInv
    <2>13. \A g \in c.taken \intersect Files : g \in c.tocopy \/ Kept(ShaOf[g])'
      BY <1>4, <1>7, <2>12
    <2>14. QED
      BY <1>7, <2>1, <2>2, <2>12, <2>13, BatchFrame
  <1>8. CASE fault
    <2>1. batch' = [batch EXCEPT ![b] = Dropped(batch[b])]
      BY <1>2, <1>8 DEF Skip
    <2>2. /\ Dropped(batch[b]) \in Batch /\ Shape(Dropped(batch[b])) /\ Dropped(batch[b]).at # "copying"
          /\ Known(b, Dropped(batch[b])) /\ Queued(Dropped(batch[b])) /\ Taken(Dropped(batch[b]))
          /\ Unlinked(Dropped(batch[b])) /\ Dropped(batch[b]).taken = {}
      BY Dropping
    <2>3. QED
      BY <1>7, <2>1, <2>2
  <1>9. CASE ~fault
    <2> DEFINE c == Copied(batch[b], f)
    <2>1. /\ c \in Batch /\ c.at = "packing" /\ c.tocopy = batch[b].tocopy \ {f} /\ c.file = {}
          /\ c.queue = batch[b].queue /\ c.doc = batch[b].doc /\ c.taken = batch[b].taken
          /\ c.unread = batch[b].unread /\ c.unlinking = batch[b].unlinking
      <3>1. batch[b] \in Batch /\ f \in Files
        BY <1>1, <1>3
      <3>2. QED
        BY <3>1, Copies
    <2>2. batch' = [batch EXCEPT ![b] = c]
      BY <1>2, <1>9
    <2> HIDE DEF c
    <2>3. Shape(c)
      BY <1>1, <2>1 DEF Shape, Working
    <2>4. Known(b, c) /\ Queued(c) /\ Taken(c) /\ Unlinked(c)
      BY <1>1, <2>1, GoingOn DEF Working
    <2>5. b \in Copying(ShaOf[f])
      BY <1>1, <1>3 DEF Copying
    <2>6. \A g \in c.taken \intersect Files : g \in c.tocopy \/ Kept(ShaOf[g])
      BY <2>1, <2>5 DEF IInv, CopyInv, Kept
    <2>7. QED
      BY <1>7, <2>1, <2>2, <2>3, <2>4, <2>6
  <1>10. QED
    BY <1>8, <1>9

LEMMA FailPayloadStep == ASSUME IInv, NEW b \in Batches, FailPayload(b) PROVE IInv'
  <1>1. batch[b].at = "packing" /\ Skip(b) /\ Charge(TRUE) /\ TRUE \in Faulty
        /\ UNCHANGED <<live, world, archived, restore, history, changes>> /\ Catalogues
    BY DEF FailPayload, Packed, store, Catalogues
  <1>2. faults' \in 0..MaxFaults
    BY <1>1, Charging
  <1>3. QED
    BY <1>1, <1>2, SkipStep

LEMMA UnlinkLiveStep == ASSUME IInv, NEW b \in Batches, UnlinkLive(b) PROVE IInv'
  <1>1. batch[b] \in Batch /\ Shape(batch[b]) /\ Queued(batch[b]) /\ Unlinked(batch[b])
        /\ batch[b].at = "unlinking"
    BY DEF IInv, KindInv, ShapeInv, QueueInv, UnlinkInv, UnlinkLive
  <1>2. PICK x \in batch[b].unlinking, fault \in Faulty :
            /\ IF batch[b].unlinking = {x} THEN Skip(b)
               ELSE batch' = [batch EXCEPT ![b].unlinking = @ \ {x}]
            /\ content' = IF fault THEN content ELSE content \ {x}
            /\ Charge(fault)
    BY DEF UnlinkLive
  <1>3. /\ UNCHANGED <<documents, catalog, restore, late, gone, archived, cut, world, changes, dangling>>
        /\ content' \subseteq content /\ (\A y \in content \ content' : y \in batch[b].unlinking)
        /\ content' \in SUBSET (Files \X (1..MaxIds)) /\ faults' \in 0..MaxFaults
    BY <1>2, Charging DEF UnlinkLive, store, history, documents, IInv, KindInv
  <1>4. CASE Skip(b)
    <2>1. Moves(b, Dropped(batch[b]))
      BY <1>3, <1>4, Dropping DEF Skip, Moves, Catalogues
    <2>2. QED
      BY <1>1, <1>3, <2>1, Dropping, QuietFrame
  <1>5. CASE batch' = [batch EXCEPT ![b].unlinking = @ \ {x}]
    <2> DEFINE c == [batch[b] EXCEPT !.unlinking = batch[b].unlinking \ {x}]
    <2>1. batch' = [batch EXCEPT ![b] = c]
      BY <1>5 DEF IInv, KindInv
    <2>2. /\ c \in Batch /\ c.at = "unlinking" /\ c.file = batch[b].file /\ c.tocopy = batch[b].tocopy
          /\ c.queue = batch[b].queue /\ c.doc = batch[b].doc /\ c.taken = batch[b].taken
          /\ c.unlinking = batch[b].unlinking \ {x}
      BY <1>1 DEF Batch
    <2> HIDE DEF c
    <2>3. Shape(c) /\ Queued(c) /\ Unlinked(c) /\ Taken(c) /\ Known(b, c) /\ c.taken = {}
      BY <1>1, <2>2 DEF Shape, Queued, Unlinked, Taken, Known, Working
    <2>4. Moves(b, c)
      BY <1>3, <2>1, <2>2, <2>3 DEF Moves, Catalogues
    <2>5. QED
      BY <1>1, <1>3, <2>2, <2>3, <2>4, QuietFrame
  <1>6. QED
    BY <1>2, <1>4, <1>5
-----------------------------------------------------------------------------
(* Documents come and go.                                                  *)

(* A document stays, goes, or comes under a new id.                        *)
Ages ==
    /\ \A k \in Keys : id'[k] = id[k] \/ id'[k] = id[k] + 1
    /\ \A k \in present' : id'[k] = id[k] + 1 \/ (k \in present /\ id'[k] = id[k])
    /\ late \subseteq late'

(* No batch takes a document meanwhile, and each either is still to read   *)
(* what is new in one, or it counts as late.                               *)
Overlooked(b, k) ==
    \A p \in saved'[k] \ saved[k] :
        /\ p \in Fields => \A g \in batch[b].queue : g.key = k /\ g.id = id[k] => <<p, g.id>> \in late'
        /\ LET h == batch[b].doc
           IN h.key = k /\ h.id = id[k] =>
                 <<p, h.id>> \in late' \/ (p \in Files /\ ParentOf[p] \in batch[b].unread)
Waits(b) ==
    /\ batch'[b].at \in Working => batch'[b] = batch[b]
    /\ batch'[b].queue \subseteq batch[b].queue
    /\ \A x \in batch'[b].unlinking :
          \/ x \in batch[b].unlinking
          \/ LET k == DocOf[x[1]] IN x[2] <= id'[k] /\ (k \in present' => x[2] < id'[k])
    /\ \A k \in present' : id'[k] = id[k] => Overlooked(b, k)

LEMMA Waiting ==
    ASSUME IInv, KindInv', Ages, NEW b \in Batches, Waits(b)
    PROVE  Queued(batch[b])' /\ Taken(batch[b])' /\ Unlinked(batch[b])'
  <1>1. /\ batch[b] \in Batch /\ batch'[b] \in Batch /\ Queued(batch[b]) /\ Taken(batch[b]) /\ Unlinked(batch[b])
        /\ id \in [Keys -> 1..MaxIds] /\ id' \in [Keys -> 1..MaxIds] /\ present' \subseteq Keys
        /\ saved' \in [Keys -> SUBSET Parts] /\ MaxIds \in Nat
    BY BoundsAssumption DEF IInv, KindInv, QueueInv, TakenInv, UnlinkInv
  <1>2. \A k \in Keys : id[k] \in Nat /\ id'[k] \in Nat /\ id[k] <= id'[k]
    BY <1>1 DEF Ages
  <1>3. \A h : Live(h)' /\ h.id <= id[h.key] /\ h.id \in Nat => Live(h) /\ id'[h.key] = id[h.key]
    BY <1>1, <1>2 DEF Ages, Live
  <1>4. Queued(batch[b])'
    <2>1. ASSUME NEW g \in batch'[b].queue
          PROVE  /\ g.key \in Keys /\ g.id \in 1..id'[g.key]
                 /\ \A p \in g.fields : DocOf[p] = g.key
                 /\ Live(g)' => \A p \in saved'[g.key] \intersect Fields :
                       Listed(p) => p \in g.fields \/ <<p, g.id>> \in late'
      <3>1. g \in batch[b].queue /\ g.key \in Keys /\ g.id \in 1..id[g.key]
        BY <1>1, <2>1 DEF Waits, Queued
      <3>2. g.id \in 1..id'[g.key] /\ g.id \in Nat /\ g.id <= id[g.key]
        BY <1>2, <3>1
      <3>3. ASSUME Live(g)', NEW p \in saved'[g.key] \intersect Fields, Listed(p)
            PROVE  p \in g.fields \/ <<p, g.id>> \in late'
        <4>1. Live(g) /\ id'[g.key] = id[g.key] /\ g.key \in present' /\ id[g.key] = g.id
          BY <1>3, <3>2, <3>3 DEF Live
        <4>2. CASE p \in saved[g.key]
          BY <1>1, <3>1, <3>3, <4>1, <4>2 DEF Queued, Ages
        <4>3. CASE p \notin saved[g.key]
          BY <3>1, <3>3, <4>1, <4>3 DEF Waits, Overlooked
        <4>4. QED
          BY <4>2, <4>3
      <3>4. QED
        BY <1>1, <3>1, <3>2, <3>3 DEF Queued
    <2>2. QED
      BY <2>1 DEF Queued
  <1>5. Taken(batch[b])'
    <2>1. SUFFICES ASSUME batch'[b].at \in Working PROVE Taken(batch[b])'
      BY DEF Taken
    <2>2. batch'[b] = batch[b]
      BY <2>1 DEF Waits
    <2> DEFINE h == batch[b].doc
    <2>3. h.key \in Keys /\ h.id \in 1..id[h.key]
      BY <1>1, <2>1, <2>2 DEF Taken
    <2>4. h.id \in 1..id'[h.key] /\ h.id \in Nat /\ h.id <= id[h.key]
      BY <1>2, <2>3
    <2>5. ASSUME Live(h)', NEW p \in saved'[h.key], Listed(p)
          PROVE  p \in batch[b].taken \/ <<p, h.id>> \in late' \/ (p \in Files /\ ParentOf[p] \in batch[b].unread)
      <3>1. Live(h) /\ id'[h.key] = id[h.key] /\ h.key \in present' /\ id[h.key] = h.id
        BY <1>3, <2>2, <2>4, <2>5 DEF Live
      <3>2. CASE p \in saved[h.key]
        BY <1>1, <2>1, <2>2, <2>5, <3>1, <3>2 DEF Taken, Ages
      <3>3. CASE p \notin saved[h.key]
        BY <2>5, <3>1, <3>3 DEF Waits, Overlooked
      <3>4. QED
        BY <3>2, <3>3
    <2>6. QED
      <3>1. /\ h.id \in 1..id[h.key] /\ batch[b].unread \subseteq batch[b].taken
            /\ \A p \in batch[b].taken : /\ DocOf[p] = h.key
                                         /\ p \in Files => ParentOf[p] \in batch[b].taken \union {Header}
        BY <1>1, <2>1, <2>2 DEF Taken
      <3>2. h.key \in present' /\ id'[h.key] = h.id => \A p \in saved'[h.key] : Listed(p) =>
               p \in batch[b].taken \/ <<p, h.id>> \in late' \/ (p \in Files /\ ParentOf[p] \in batch[b].unread)
        <4>1. SUFFICES ASSUME h.key \in present', id'[h.key] = h.id, NEW p \in saved'[h.key], Listed(p)
                       PROVE  \/ p \in batch[b].taken \/ <<p, h.id>> \in late'
                              \/ p \in Files /\ ParentOf[p] \in batch[b].unread
          OBVIOUS
        <4>2. Live(h)'
          BY <2>2, <4>1 DEF Live
        <4>3. QED
          BY <2>5, <4>1, <4>2
      <3>3. batch'[b].doc = h
        BY <2>2
      <3> HIDE DEF h
      <3>4. QED
        BY <2>2, <2>3, <2>4, <3>1, <3>2, <3>3 DEF Taken, Live
  <1>6. Unlinked(batch[b])'
    <2>1. ASSUME NEW x \in batch'[b].unlinking
          PROVE  x[2] <= id'[DocOf[x[1]]] /\ (DocOf[x[1]] \in present' => x[2] < id'[DocOf[x[1]]])
      <3>1. CASE x \in batch[b].unlinking
        <4>1. x[1] \in Files /\ x[2] \in Nat
          BY <1>1, <3>1 DEF Batch
        <4>2. DocOf[x[1]] \in Keys
          BY <4>1, PartsAssumption DEF Parts
        <4>3. x[2] <= id[DocOf[x[1]]] /\ (DocOf[x[1]] \in present => x[2] < id[DocOf[x[1]]])
          BY <1>1, <3>1 DEF Unlinked
        <4>4. QED
          BY <1>2, <4>1, <4>2, <4>3 DEF Ages
      <3>2. CASE x \notin batch[b].unlinking
        BY <2>1, <3>2 DEF Waits
      <3>3. QED
        BY <3>1, <3>2
    <2>2. QED
      BY <2>1 DEF Unlinked
  <1>7. QED
    BY <1>4, <1>5, <1>6

(* What a restore has brought back stays with its document.                *)
Preserves ==
    \A k \in present' : id'[k] = id[k] =>
        /\ saved[k] \subseteq saved'[k]
        /\ \A f \in Files : DocOf[f] = k /\ <<f, id[k]>> \in content => <<f, id[k]>> \in content'

LEMMA Remaining ==
    ASSUME IInv, KindInv', Ages, Preserves, NEW r \in Restores, restore'[r] = restore[r],
           catalog \subseteq catalog', cut \subseteq cut',
           \A b \in Batches : batch'[b].at \in Working => batch'[b] = batch[b]
    PROVE  Restoring(r)'
  <1>1. /\ restore[r] \in Restore /\ Restoring(r) /\ catalog \subseteq Row
        /\ id \in [Keys -> 1..MaxIds] /\ id' \in [Keys -> 1..MaxIds] /\ present' \subseteq Keys
        /\ \A row \in catalog : Whole(row)
    BY DEF IInv, KindInv, RestoreInv, RowInv
  <1>2. \A k \in Keys : id[k] \in Nat /\ id'[k] \in Nat /\ id[k] <= id'[k]
    BY <1>1, BoundsAssumption DEF Ages
  <1>3. ASSUME restore[r].at = "attaching", NEW row \in restore[r].row
        PROVE  /\ restore[r].id \in 1..id'[row.key]
               /\ restore[r].left \subseteq Mapped(row)
               /\ \A b \in Batches : batch'[b].at \in Working /\ batch'[b].doc.key = row.key
                                     => batch'[b].doc.id # restore[r].id
               /\ row.key \in present' /\ id'[row.key] = restore[r].id =>
                     /\ Written(row) \subseteq saved'[row.key]
                     /\ \A f \in (row.parts \intersect Files) \ restore[r].left : Restorable(f) =>
                           /\ f \in saved'[row.key]
                           /\ <<f, restore[r].id>> \in content' \/ ShaOf[f] \in cut'
    <2>1. row \in catalog /\ row.key \in Keys /\ Whole(row)
      BY <1>1, <1>3 DEF Restoring, Row
    <2>2. restore[r].id \in 1..id[row.key] /\ restore[r].left \subseteq Mapped(row)
      BY <1>1, <1>3 DEF Restoring
    <2>3. restore[r].id \in Nat /\ restore[r].id <= id[row.key] /\ restore[r].id \in 1..id'[row.key]
      BY <1>2, <2>1, <2>2
    <2>4. \A b \in Batches : batch'[b].at \in Working /\ batch'[b].doc.key = row.key => batch'[b].doc.id # restore[r].id
      BY <1>1, <1>3 DEF Restoring
    <2>5. ASSUME row.key \in present', id'[row.key] = restore[r].id
          PROVE  /\ Written(row) \subseteq saved'[row.key]
                 /\ \A f \in (row.parts \intersect Files) \ restore[r].left : Restorable(f) =>
                       /\ f \in saved'[row.key]
                       /\ <<f, restore[r].id>> \in content' \/ ShaOf[f] \in cut'
      <3>1. row.key \in present /\ id'[row.key] = id[row.key] /\ id[row.key] = restore[r].id
        BY <1>2, <2>1, <2>3, <2>5 DEF Ages
      <3>2. saved[row.key] \subseteq saved'[row.key]
        BY <2>5, <3>1 DEF Preserves
      <3>3. ASSUME NEW f \in (row.parts \intersect Files) \ restore[r].left, Restorable(f)
            PROVE  f \in saved'[row.key] /\ (<<f, restore[r].id>> \in content' \/ ShaOf[f] \in cut')
        <4>1. DocOf[f] = row.key
          BY <2>1 DEF Whole
        <4>2. f \in saved[row.key] /\ (<<f, restore[r].id>> \in content \/ ShaOf[f] \in cut)
          BY <1>1, <1>3, <3>1, <3>3 DEF Restoring
        <4>3. <<f, id[row.key]>> \in content => <<f, id[row.key]>> \in content'
          BY <2>5, <3>1, <4>1 DEF Preserves
        <4>4. QED
          BY <3>1, <3>2, <4>2, <4>3
      <3>4. Written(row) \subseteq saved[row.key]
        BY <1>1, <1>3, <3>1 DEF Restoring
      <3>5. QED
        BY <3>2, <3>3, <3>4
    <2>6. QED
      BY <2>2, <2>3, <2>4, <2>5
  <1>4. QED
    BY <1>1, <1>3 DEF Restoring

LEMMA Storing ==
    ASSUME IInv, KindInv', archived' = archived, cut \subseteq cut',
           \A b \in Batches : \/ batch'[b] = batch[b]
                              \/ batch[b].at # "copying" /\ batch'[b].at # "copying" /\ batch'[b].taken = {}
    PROVE  ShaInv' /\ CopyInv' /\ \A sha \in Shas : Kept(sha) => Kept(sha)'
  <1>1. \A sha \in Shas : Copying(sha)' = Copying(sha)
    BY DEF Copying
  <1>2. \A sha \in Shas : Kept(sha) => Kept(sha)'
    BY <1>1 DEF Kept
  <1>3. ShaInv'
    BY <1>1, <1>2 DEF ShaInv, IInv
  <1>4. CopyInv'
    <2>1. ASSUME NEW b \in Batches, NEW f \in batch'[b].taken \intersect Files
          PROVE  f \in batch'[b].tocopy \/ Kept(ShaOf[f])'
      <3>1. ShaOf[f] \in Shas /\ batch'[b] = batch[b]
        BY <2>1, PartsAssumption
      <3>2. QED
        BY <1>2, <2>1, <3>1 DEF IInv, CopyInv
    <2>2. QED
      BY <2>1 DEF CopyInv
  <1>5. QED
    BY <1>2, <1>3, <1>4

(* What lies in the archive stays there.                                   *)
LEMMA StillArchived ==
    ASSUME IInv, catalog \subseteq catalog', late \subseteq late',
           \A sha \in Shas : Kept(sha) => Kept(sha)',
           \A x \in gone' \ gone : x \in late' \/ ~Listed(x[1]) \/ (InPayload(x[1], x[2])' /\ (x[1] \in Files => Kept(ShaOf[x[1]])))
    PROVE  NothingIsLost'
  <1>1. \A f \in Files : ShaOf[f] \in Shas
    BY PartsAssumption
  <1>2. ASSUME NEW x \in gone' \ late', Listed(x[1])
        PROVE  (InPayload(x[1], x[2]) /\ (x[1] \in Files => Kept(ShaOf[x[1]])))'
    <2>1. CASE x \in gone
      <3>1. InPayload(x[1], x[2]) /\ (x[1] \in Files => Kept(ShaOf[x[1]]))
        BY <1>2, <2>1 DEF IInv, NothingIsLost
      <3>2. InPayload(x[1], x[2])'
        BY <3>1 DEF InPayload
      <3>3. QED
        BY <1>1, <3>1, <3>2
    <2>2. CASE x \notin gone
      BY <1>1, <1>2, <2>2
    <2>3. QED
      BY <2>1, <2>2
  <1>3. QED
    BY <1>2 DEF NothingIsLost

(* What a batch is about to catalogue is a whole document.                 *)
LEMMA Payload ==
    ASSUME IInv, NEW b \in Batches, Packed(b), InsertRow(b)
    PROVE  /\ Catalogues /\ catalog \subseteq catalog' /\ catalog' \subseteq Row
           /\ \A p \in PartsOf(batch[b].doc) : Listed(p) =>
                 \/ <<p, batch[b].doc.id>> \in late
                 \/ /\ \E row \in catalog' : row.key = DocOf[p] /\ row.id = batch[b].doc.id /\ p \in row.parts
                    /\ p \in Files => Kept(ShaOf[p])
  <1> DEFINE h == batch[b].doc
             row == [by |-> b, key |-> h.key, id |-> h.id, parts |-> batch[b].taken]
  <1>1. batch[b] \in Batch /\ Taken(batch[b]) /\ batch[b].at \in Working /\ batch[b].tocopy = {} /\ batch[b].unread = {}
    BY DEF IInv, KindInv, TakenInv, Packed, Working
  <1>2. /\ h.key \in Keys /\ h.id \in 0..MaxIds /\ batch[b].taken \subseteq Parts
        /\ \A p \in batch[b].taken :
              /\ DocOf[p] = h.key
              /\ p \in Files => ParentOf[p] \in batch[b].taken \union {Header}
        /\ Live(h) => \A p \in saved[h.key] :
              Listed(p) => p \in batch[b].taken \/ <<p, h.id>> \in late
    BY <1>1 DEF Taken, Batch, Headers
  <1>3. row \in Row /\ row.parts = batch[b].taken /\ row.key = h.key /\ row.id = h.id
    BY <1>2 DEF Row
  <1>4. catalog' = catalog \union {row} /\ catalog \subseteq Row
    BY DEF InsertRow, IInv, KindInv
  <1> HIDE DEF row
  <1>5. Whole(row)
    BY <1>2, <1>3 DEF Whole
  <1>6. ASSUME NEW p \in PartsOf(h), Listed(p), <<p, h.id>> \notin late
        PROVE  /\ \E r \in catalog' : r.key = DocOf[p] /\ r.id = h.id /\ p \in r.parts
               /\ p \in Files => Kept(ShaOf[p])
    <2>1. Live(h) /\ p \in saved[h.key]
      BY <1>6, Reading
    <2>2. p \in batch[b].taken /\ DocOf[p] = h.key
      BY <1>2, <1>6, <2>1
    <2>3. \E r \in catalog' : r.key = DocOf[p] /\ r.id = h.id /\ p \in r.parts
      BY <1>3, <1>4, <2>2
    <2>4. p \in Files => Kept(ShaOf[p])
      BY <1>1, <2>2 DEF IInv, CopyInv
    <2>5. QED
      BY <2>3, <2>4
  <1>7. QED
    BY <1>3, <1>4, <1>5, <1>6 DEF Catalogues

LEMMA Unlinks ==
    ASSUME IInv, NEW b \in Batches, NEW known \in SUBSET Files, batch[b].doc.id \in 1..MaxIds
    PROVE  LET c == Unlinking(batch[b], known)
           IN /\ c \in Batch /\ c.at = "unlinking" /\ c.taken = {} /\ c.queue = batch[b].queue
              /\ c.doc = NoHeader /\ c.tocopy = {} /\ c.file = {}
              /\ c.unlinking = known \X {batch[b].doc.id}
  <1> DEFINE d == Dropped(batch[b])
  <1>1. d \in Batch /\ d.taken = {} /\ d.queue = batch[b].queue /\ d.doc = NoHeader /\ d.tocopy = {} /\ d.file = {}
    BY Dropping DEF Dropped, Between
  <1>2. known \X {batch[b].doc.id} \in SUBSET (Files \X (1..MaxIds))
    OBVIOUS
  <1> HIDE DEF d
  <1>3. LET c == [d EXCEPT !.at = "unlinking", !.unlinking = known \X {batch[b].doc.id}]
        IN /\ c \in Batch /\ c.at = "unlinking" /\ c.taken = d.taken /\ c.queue = d.queue
           /\ c.doc = d.doc /\ c.tocopy = d.tocopy /\ c.file = d.file
           /\ c.unlinking = known \X {batch[b].doc.id}
    BY <1>1, <1>2 DEF Batch, At
  <1>4. QED
    BY <1>1, <1>3 DEF Unlinking, d

LEMMA DeleteStep ==
    ASSUME IInv, NEW b \in Batches, Packed(b), InsertRow(b), Delete(b), faults' \in 0..MaxFaults,
           UNCHANGED <<id, content, world, archived, restore, late, cut, changes>>
    PROVE  IInv'
  <1> DEFINE h == batch[b].doc
             known == FilesOf(h, Parents(b))
             c == IF known = {} THEN Dropped(batch[b]) ELSE Unlinking(batch[b], known)
  <1>1. /\ batch[b] \in Batch /\ Shape(batch[b]) /\ batch[b].at = "packing"
        /\ Taken(batch[b]) /\ id \in [Keys -> 1..MaxIds]
    BY DEF IInv, KindInv, ShapeInv, TakenInv, Packed
  <1>2. h.key \in Keys /\ h.id \in 1..id[h.key] /\ h.id \in 1..MaxIds
    <2>1. h.key \in Keys /\ h.id \in 1..id[h.key]
      BY <1>1 DEF Taken, Working
    <2>2. id[h.key] \in 1..MaxIds /\ MaxIds \in Nat
      BY <1>1, <2>1, BoundsAssumption
    <2>3. QED
      BY <2>1, <2>2
  <1>3. /\ PartsOf(h) \subseteq Parts /\ known \subseteq PartsOf(h) \intersect Files
        /\ \A p \in PartsOf(h) : Live(h) /\ DocOf[p] = h.key
    BY Reading
  <1>4. /\ present' = (IF Live(h) THEN present \ {h.key} ELSE present)
        /\ saved' = [k \in Keys |-> IF k = h.key /\ Live(h) THEN {} ELSE saved[k]]
        /\ gone' = gone \union (PartsOf(h) \X {h.id})
        /\ dangling' = dangling \union ((PartsOf(h) \intersect Files) \ known) \X {h.id}
    BY DEF Delete
  <1>5. batch' = [batch EXCEPT ![b] = c]
    BY DEF Delete, Skip
  <1> HIDE DEF known, c
  <1>6. /\ c \in Batch /\ c.at \notin Working /\ c.at # "copying" /\ c.taken = {} /\ c.queue = batch[b].queue
        /\ Shape(c) /\ \A x \in c.unlinking : x[1] \in known /\ x[2] = h.id
    <2>1. CASE known = {}
      <3>1. c = Dropped(batch[b])
        BY <2>1 DEF c
      <3>2. Dropped(batch[b]).queue = batch[b].queue /\ Dropped(batch[b]).unlinking = {}
        BY DEF Dropped, Between
      <3>3. QED
        BY <3>1, <3>2, Dropping DEF Working
    <2>2. CASE known # {}
      <3>1. c = Unlinking(batch[b], known)
        BY <2>2 DEF c
      <3>2. known \in SUBSET Files
        BY <1>3
      <3>3. /\ c \in Batch /\ c.at = "unlinking" /\ c.taken = {} /\ c.queue = batch[b].queue
            /\ c.doc = NoHeader /\ c.tocopy = {} /\ c.file = {}
            /\ c.unlinking = known \X {batch[b].doc.id}
        BY <1>2, <3>1, <3>2, Unlinks
      <3>4. Shape(c)
        BY <1>1, <3>3 DEF Shape, Working
      <3>5. QED
        BY <3>3, <3>4 DEF Working
    <2>3. QED
      BY <2>1, <2>2
  <1>7. batch'[b] = c /\ (\A x \in Batches \ {b} : batch'[x] = batch[x]) /\ batch' \in [Batches -> Batch]
    BY <1>5, <1>6 DEF IInv, KindInv
  <1>8. /\ \A k \in Keys : saved'[k] \subseteq saved[k] /\ (k \in present' => saved'[k] = saved[k] /\ k \in present)
        /\ saved' \in [Keys -> SUBSET Parts] /\ present' \subseteq present
        /\ Live(h) => h.key \notin present'
    BY <1>4 DEF IInv, KindInv, Live
  <1>9. KindInv'
    <2>1. gone' \subseteq Parts \X (1..MaxIds) /\ dangling' \subseteq Files \X (1..MaxIds)
      BY <1>2, <1>3, <1>4 DEF IInv, KindInv
    <2>2. QED
      BY <1>7, <1>8, <2>1, Payload DEF IInv, KindInv, world
  <1>10. Ages /\ Preserves
    BY <1>8 DEF Ages, Preserves, IInv, KindInv
  <1>11. SavedInv'
    BY <1>4, <1>8 DEF IInv, SavedInv, KindInv, Live
  <1>12. RowInv'
    BY Payload DEF Catalogues, IInv, RowInv, Whole
  <1>13. ShapeInv'
    BY <1>6, <1>7 DEF IInv, ShapeInv, Shape
  <1>14. \A x \in Batches : Waits(x)
    <2>1. ASSUME NEW x \in Batches PROVE /\ batch'[x].at \in Working => batch'[x] = batch[x]
                                         /\ batch'[x].queue \subseteq batch[x].queue
      BY <1>6, <1>7
    <2>2. ASSUME NEW x \in Batches, NEW y \in batch'[x].unlinking, y \notin batch[x].unlinking
          PROVE  LET k == DocOf[y[1]] IN y[2] <= id'[k] /\ (k \in present' => y[2] < id'[k])
      <3>1. y[1] \in known /\ y[2] = h.id
        BY <1>6, <1>7, <2>2
      <3>2. Live(h) /\ DocOf[y[1]] = h.key
        BY <1>3, <3>1
      <3>3. h.id <= id[h.key]
        BY <1>1, <1>2
      <3>4. QED
        BY <1>8, <3>1, <3>2, <3>3
    <2>3. \A k \in present' : saved'[k] \ saved[k] = {}
      BY <1>8, <1>9 DEF KindInv
    <2>4. QED
      BY <2>1, <2>2, <2>3 DEF Waits, Overlooked
  <1>15. QueueInv' /\ TakenInv' /\ UnlinkInv'
    BY <1>9, <1>10, <1>14, Waiting DEF QueueInv, TakenInv, UnlinkInv
  <1>16. RestoreInv'
    <2>1. catalog \subseteq catalog' /\ cut \subseteq cut' /\ \A x \in Batches : batch'[x].at \in Working => batch'[x] = batch[x]
      BY <1>6, <1>7, Payload
    <2>2. QED
      BY <1>9, <1>10, <2>1, Remaining DEF RestoreInv
  <1>17. ShaInv' /\ CopyInv' /\ \A sha \in Shas : Kept(sha) => Kept(sha)'
    <2>1. \A x \in Batches : \/ batch'[x] = batch[x]
                             \/ batch[x].at # "copying" /\ batch'[x].at # "copying" /\ batch'[x].taken = {}
      BY <1>1, <1>6, <1>7
    <2>2. QED
      BY <1>9, <2>1, Storing
  <1>18. NothingIsLost'
    <2>1. ASSUME NEW x \in gone' \ gone
          PROVE  x \in late' \/ ~Listed(x[1]) \/ (InPayload(x[1], x[2])' /\ (x[1] \in Files => Kept(ShaOf[x[1]])))
      <3>1. x[1] \in PartsOf(h) /\ x[2] = h.id /\ x = <<x[1], x[2]>>
        BY <1>4, <2>1
      <3>2. QED
        BY <3>1, Payload DEF InPayload
    <2>2. QED
      BY <1>17, <2>1, Payload, StillArchived
  <1>19. QED
    BY <1>9, <1>11, <1>12, <1>13, <1>15, <1>16, <1>17, <1>18 DEF IInv

LEMMA ArchiveDocumentStep == ASSUME IInv, NEW b \in Batches, ArchiveDocument(b) PROVE IInv'
  <1>1. PICK refused \in Faulty :
            /\ IF Denied \/ refused THEN Skip(b) /\ UNCHANGED <<present, saved, dangling, gone>>
               ELSE Delete(b)
            /\ Charge(refused)
    BY DEF ArchiveDocument
  <1>2. /\ Packed(b) /\ InsertRow(b) /\ faults' \in 0..MaxFaults
        /\ UNCHANGED <<id, content, world, archived, restore, late, cut, changes>>
    BY <1>1, Charging DEF ArchiveDocument
  <1>3. CASE Skip(b) /\ UNCHANGED <<present, saved, dangling, gone>>
    <2>1. batch[b].at # "copying" /\ Catalogues /\ UNCHANGED <<live, history>>
      BY <1>2, <1>3, Payload DEF Packed, live, documents, history
    <2>2. QED
      BY <1>2, <1>3, <2>1, SkipStep
  <1>4. CASE Delete(b)
    BY <1>2, <1>4, DeleteStep
  <1>5. QED
    BY <1>1, <1>3, <1>4
-----------------------------------------------------------------------------
(* Restores, users, administrators and restarts.                           *)

(* No batch moves.                                                         *)
LEMMA WorldFrame ==
    ASSUME IInv, KindInv', SavedInv', Ages, UNCHANGED <<batch, catalog, archived, gone>>,
           cut \subseteq cut',
           \A b \in Batches : \A k \in present' : id'[k] = id[k] => Overlooked(b, k),
           \A r \in Restores : Restoring(r)'
    PROVE  IInv'
  <1>1. \A b \in Batches : Waits(b)
    BY DEF Waits
  <1>2. QueueInv' /\ TakenInv' /\ UnlinkInv'
    BY <1>1, Waiting DEF QueueInv, TakenInv, UnlinkInv
  <1>3. ShaInv' /\ CopyInv' /\ \A sha \in Shas : Kept(sha) => Kept(sha)'
    BY Storing
  <1>4. NothingIsLost'
    BY <1>3, StillArchived DEF Ages
  <1>5. ShapeInv' /\ RowInv'
    BY DEF IInv, ShapeInv, Shape, RowInv, Whole
  <1>6. QED
    BY <1>2, <1>3, <1>4, <1>5 DEF IInv, RestoreInv

(* Nothing comes to a live document.                                       *)
LEMMA NothingNew ==
    ASSUME IInv, KindInv', \A k \in present' : id'[k] = id[k] => saved'[k] \subseteq saved[k]
    PROVE  \A b \in Batches : \A k \in present' : id'[k] = id[k] => Overlooked(b, k)
  BY DEF Overlooked

(* A step that leaves the documents alone.                                 *)
LEMMA StillFrame ==
    ASSUME IInv, KindInv', UNCHANGED <<documents, content, batch, catalog, archived, history>>,
           \A r \in Restores : restore'[r] = restore[r] \/ (Restoring(r)' /\ restore'[r].row \subseteq catalog)
    PROVE  IInv'
  <1>1. Ages /\ Preserves /\ SavedInv'
    BY DEF Ages, Preserves, documents, history, IInv, SavedInv, KindInv
  <1>2. \A r \in Restores : Restoring(r)'
    BY <1>1, Remaining DEF history
  <1>3. \A b \in Batches : \A k \in present' : id'[k] = id[k] => Overlooked(b, k)
    BY NothingNew DEF documents
  <1>4. QED
    BY <1>1, <1>2, <1>3, WorldFrame DEF history

LEMMA Ended ==
    ASSUME IInv, NEW r \in Restores, End(r)
    PROVE  restore' \in [Restores -> Restore] /\ Restoring(r)' /\ (\A q \in Restores \ {r} : restore'[q] = restore[q])
           /\ restore'[r].row = {}
  <1> DEFINE d == [NoRestore EXCEPT !.at = "done"]
  <1>1. NoRestore \in Restore /\ NoRestore.row = {}
    BY Nothing DEF NoRestore
  <1>2. d \in Restore /\ d.at = "done" /\ d.row = {}
    BY <1>1 DEF Restore
  <1>3. restore' = [restore EXCEPT ![r] = d]
    BY DEF End
  <1> HIDE DEF d
  <1>4. restore' \in [Restores -> Restore] /\ restore'[r] = d /\ (\A q \in Restores \ {r} : restore'[q] = restore[q])
    BY <1>2, <1>3 DEF IInv, KindInv
  <1>5. QED
    BY <1>2, <1>4 DEF Restoring

LEMMA BeginRestoreStep == ASSUME IInv, NEW r \in Restores, NEW row \in catalog, BeginRestore(r, row) PROVE IInv'
  <1> DEFINE d == [NoRestore EXCEPT !.at = "reading", !.row = {row}]
  <1>1. NoRestore \in Restore /\ {row} \in SUBSET Row
    BY Nothing DEF IInv, KindInv
  <1>2. d \in Restore /\ d.at = "reading" /\ d.row = {row}
    BY <1>1 DEF Restore
  <1>3. restore' = [restore EXCEPT ![r] = d]
    BY DEF BeginRestore
  <1> HIDE DEF d
  <1>4. restore' \in [Restores -> Restore] /\ restore'[r] = d /\ (\A q \in Restores \ {r} : restore'[q] = restore[q])
    BY <1>2, <1>3 DEF IInv, KindInv
  <1>5. UNCHANGED <<live, world, store, batch, history, bounds>>
    BY DEF BeginRestore
  <1>6. Restoring(r)' /\ restore'[r].row \subseteq catalog
    BY <1>2, <1>4, <1>5 DEF Restoring, store
  <1>7. KindInv'
    BY <1>4, <1>5 DEF IInv, KindInv, live, documents, world, store, history, bounds
  <1>8. QED
    BY <1>4, <1>5, <1>6, <1>7, StillFrame DEF live, store

LEMMA FinishRestoreStep == ASSUME IInv, NEW r \in Restores, FinishRestore(r) PROVE IInv'
  <1>1. End(r) /\ UNCHANGED <<live, world, store, batch, history, bounds>>
    BY DEF FinishRestore
  <1>2. KindInv'
    BY <1>1, Ended DEF IInv, KindInv, live, documents, world, store, history, bounds
  <1>3. QED
    BY <1>1, <1>2, Ended, StillFrame DEF live, store

LEMMA ImportDocumentStep == ASSUME IInv, NEW r \in Restores, ImportDocument(r) PROVE IInv'
  <1>1. UNCHANGED <<content, dangling, world, store, batch, history, bounds>> /\ restore[r].at = "reading"
    BY DEF ImportDocument
  <1>2. CASE End(r) /\ UNCHANGED documents
    <2>1. KindInv'
      BY <1>1, <1>2, Ended DEF IInv, KindInv, documents, world, store, history, bounds
    <2>2. QED
      BY <1>1, <1>2, <2>1, Ended, StillFrame DEF store
  <1>3. ASSUME NEW row \in restore[r].row, Free(row.key),
               present' = present \union {row.key},
               id' = [id EXCEPT ![row.key] = IF row.key \in present THEN @ ELSE @ + 1],
               id'[row.key] <= MaxIds,
               saved' = [saved EXCEPT ![row.key] = @ \union Written(row)],
               restore' = [restore EXCEPT ![r] = [@ EXCEPT !.at = "attaching", !.id = id'[row.key],
                                                           !.left = Mapped(row)]]
        PROVE  IInv'
    <2> DEFINE k == row.key
    <2>1. /\ restore[r] \in Restore /\ Restoring(r) /\ row \in catalog /\ row \in Row /\ Whole(row)
          /\ \A other \in restore[r].row : other = row
      BY <1>3 DEF IInv, KindInv, RestoreInv, Restoring, RowInv
    <2>2. /\ k \in Keys /\ row.parts \subseteq Parts /\ k \notin present
          /\ id \in [Keys -> 1..MaxIds] /\ saved \in [Keys -> SUBSET Parts] /\ MaxIds \in Nat
      BY <1>3, <2>1, BoundsAssumption DEF Row, Free, IInv, KindInv
    <2>3. saved[k] = {}
      BY <2>2 DEF IInv, SavedInv
    <2>4. id'[k] = id[k] + 1 /\ id'[k] \in 1..MaxIds
      BY <1>3, <2>2
    <2>5. /\ id' \in [Keys -> 1..MaxIds] /\ \A j \in Keys \ {k} : id'[j] = id[j]
          /\ saved' \in [Keys -> SUBSET Parts] /\ saved'[k] = Written(row)
          /\ \A j \in Keys \ {k} : saved'[j] = saved[j]
      BY <1>3, <2>2, <2>3, <2>4 DEF Written
    <2>6. /\ Mapped(row) \subseteq row.parts \intersect Files /\ Written(row) \subseteq row.parts \ Files
          /\ \A f \in (row.parts \intersect Files) \ Mapped(row) : ~Restorable(f)
      BY <2>1, <2>2, PartsAssumption DEF Mapped, Written, Restorable, Whole
    <2> DEFINE d == [restore[r] EXCEPT !.at = "attaching", !.id = id'[k], !.left = Mapped(row)]
    <2>7. d \in Restore /\ d.at = "attaching" /\ d.id = id'[k] /\ d.left = Mapped(row) /\ d.row = restore[r].row
      <3>1. id'[k] \in 0..MaxIds /\ Mapped(row) \in SUBSET Files
        BY <2>4, <2>6
      <3>2. QED
        BY <2>1, <3>1 DEF Restore
    <2>8. restore' = [restore EXCEPT ![r] = d]
      BY <1>3
    <2> HIDE DEF d
    <2>9. restore' \in [Restores -> Restore] /\ restore'[r] = d /\ (\A q \in Restores \ {r} : restore'[q] = restore[q])
      BY <2>7, <2>8 DEF IInv, KindInv
    <2>10. KindInv'
      BY <1>1, <1>3, <2>2, <2>5, <2>9 DEF IInv, KindInv, world, store, history, bounds
    <2>11. SavedInv'
      BY <1>3, <2>1, <2>2, <2>5, <2>6, PartsAssumption DEF IInv, SavedInv, Whole, KindInv, Parts
    <2>12. Ages /\ Preserves
      BY <1>1, <1>3, <2>2, <2>4, <2>5 DEF Ages, Preserves, history, IInv, KindInv
    <2>13. \A j \in present' : id'[j] = id[j] => saved'[j] \subseteq saved[j]
      BY <1>3, <2>2, <2>4, <2>5 DEF IInv, KindInv
    <2>14. Restoring(r)'
      <3>1. restore'[r].row = restore[r].row /\ restore'[r].at = "attaching" /\ restore'[r].id = id'[k]
            /\ restore'[r].left = Mapped(row)
        BY <2>7, <2>9
      <3>2. ASSUME NEW b \in Batches, batch'[b].at \in Working, batch'[b].doc.key = k
            PROVE  batch'[b].doc.id # id'[k]
        <4>1. batch'[b] = batch[b] /\ Taken(batch[b])
          BY <1>1 DEF IInv, TakenInv
        <4>2. batch[b].doc.id \in 1..id[k] /\ id[k] \in Nat
          BY <2>2, <3>2, <4>1 DEF Taken
        <4>3. QED
          BY <2>4, <4>1, <4>2
      <3>3. id'[k] \in 1..id'[k]
        BY <2>4, <2>2
      <3>4. catalog' = catalog /\ restore[r].row = {row} /\ row \in catalog
        BY <1>1, <1>3, <2>1 DEF store
      <3>5. QED
        BY <2>5, <2>6, <3>1, <3>2, <3>3, <3>4 DEF Restoring
    <2>15. \A q \in Restores : Restoring(q)'
      BY <1>1, <2>9, <2>10, <2>12, <2>14, Remaining DEF store, history
    <2>16. QED
      BY <1>1, <2>10, <2>11, <2>12, <2>13, <2>15, NothingNew, WorldFrame DEF store, history
  <1>4. QED
    BY <1>2, <1>3 DEF ImportDocument

(* The file of a restore gets its row.                                     *)
LEMMA Attaching ==
    ASSUME IInv, NEW r \in Restores, restore[r].at = "attaching", NEW row \in restore[r].row,
           NEW f \in restore[r].left,
           restore' = [restore EXCEPT ![r].left = @ \ {f}],
           archived[ShaOf[f]] \in {"torn", "whole"},
           content' = (IF archived[ShaOf[f]] = "whole" THEN content \union {<<f, restore[r].id>>} ELSE content),
           cut' = (IF archived[ShaOf[f]] = "torn" THEN cut \union {ShaOf[f]} ELSE cut),
           LET mine == row.key \in present /\ id[row.key] = restore[r].id
           IN /\ saved' = IF mine THEN [saved EXCEPT ![row.key] = @ \union {f}] ELSE saved
              /\ dangling' = IF mine THEN dangling ELSE dangling \union {<<f, restore[r].id>>},
           faults' \in 0..MaxFaults,
           UNCHANGED <<present, id, world, store, batch, late, gone, changes>>
    PROVE  IInv'
  <1> DEFINE k == row.key
             i == restore[r].id
             mine == k \in present /\ id[k] = i
             d == [restore[r] EXCEPT !.left = restore[r].left \ {f}]
  <1>1. /\ restore[r] \in Restore /\ Restoring(r) /\ row \in catalog /\ row \in Row /\ Whole(row)
        /\ \A other \in restore[r].row : other = row
    BY DEF IInv, KindInv, RestoreInv, Restoring, RowInv
  <1>2. /\ k \in Keys /\ row.parts \subseteq Parts /\ f \in Files /\ f \in row.parts /\ i \in 1..id[k]
        /\ restore[r].left \subseteq Mapped(row) /\ ParentOf[f] \in Written(row) \union {Header}
        /\ id \in [Keys -> 1..MaxIds] /\ saved \in [Keys -> SUBSET Parts] /\ MaxIds \in Nat
    BY <1>1, BoundsAssumption DEF Row, Restore, Restoring, Mapped, IInv, KindInv
  <1>3. /\ DocOf[f] = k /\ ShaOf[f] \in Shas /\ f \in Parts /\ f \notin Fields
        /\ ParentOf[f] \in row.parts \union {Header} /\ ParentOf[f] \in Lines \union {Header}
    BY <1>1, <1>2, PartsAssumption DEF Whole, Parts
  <1>4. i \in 1..MaxIds
    <2>1. id[k] \in 1..MaxIds
      BY <1>2
    <2>2. QED
      BY <1>2, <2>1
  <1>5. d \in Restore /\ d.left = restore[r].left \ {f} /\ d.row = restore[r].row /\ d.id = i /\ d.at = "attaching"
    BY <1>1 DEF Restore
  <1>6. restore' = [restore EXCEPT ![r] = d]
    BY DEF IInv, KindInv
  <1> HIDE DEF d
  <1>7. restore' \in [Restores -> Restore] /\ restore'[r] = d /\ (\A q \in Restores \ {r} : restore'[q] = restore[q])
    BY <1>5, <1>6 DEF IInv, KindInv
  <1>8. /\ saved' \in [Keys -> SUBSET Parts] /\ \A j \in Keys \ {k} : saved'[j] = saved[j]
        /\ saved'[k] = IF mine THEN saved[k] \union {f} ELSE saved[k]
    BY <1>2, <1>3
  <1>9. KindInv'
    <2>1. <<f, i>> \in Files \X (1..MaxIds)
      BY <1>2, <1>4
    <2>2. content' \subseteq Files \X (1..MaxIds) /\ dangling' \subseteq Files \X (1..MaxIds) /\ cut' \subseteq Shas
      BY <1>3, <2>1 DEF IInv, KindInv
    <2>3. QED
      BY <1>7, <1>8, <2>2 DEF IInv, KindInv, world, store
  <1>10. SavedInv'
    <2>1. ASSUME NEW j \in Keys, NEW p \in saved'[j]
          PROVE  /\ j \in present /\ DocOf[p] = j
                 /\ p \in Files => ParentOf[p] \in saved'[j] \union {Header}
      <3>1. saved[j] \subseteq saved'[j]
        BY <1>8
      <3>2. CASE p \in saved[j]
        BY <3>1, <3>2 DEF IInv, SavedInv
      <3>3. CASE p \notin saved[j]
        <4>1. j = k /\ p = f /\ mine
          BY <1>8, <2>1, <3>3
        <4>2. Written(row) \subseteq saved[k]
          BY <1>1, <4>1 DEF Restoring
        <4>3. QED
          BY <1>2, <1>3, <3>1, <4>1, <4>2
      <3>4. QED
        BY <3>2, <3>3
    <2>2. QED
      BY <2>1 DEF SavedInv
  <1>11. Ages /\ Preserves
    BY <1>2, <1>8 DEF Ages, Preserves, IInv, KindInv
  <1>12. ASSUME NEW b \in Batches, NEW j \in present', id'[j] = id[j] PROVE Overlooked(b, j)
    <2>1. ASSUME NEW p \in saved'[j] \ saved[j] PROVE p \notin Fields /\ ~(batch[b].doc.key = j /\ batch[b].doc.id = id[j])
      <3>1. j = k /\ p = f /\ mine
        BY <1>8, <1>12, <2>1 DEF IInv, KindInv
      <3>2. CASE batch[b].at \in Working
        BY <1>1, <1>3, <3>1, <3>2 DEF Restoring
      <3>3. CASE batch[b].at \notin Working
        <4>1. batch[b].doc.key = None
          BY <3>3 DEF IInv, ShapeInv, Shape, NoHeader
        <4>2. QED
          BY <1>2, <1>3, <3>1, <4>1, KeysAssumption
      <3>4. QED
        BY <3>2, <3>3
    <2>2. QED
      BY <2>1 DEF Overlooked
  <1>13. Restoring(r)'
    <2>1. /\ restore'[r].row = restore[r].row /\ restore'[r].at = "attaching" /\ restore'[r].id = i
          /\ restore'[r].left = restore[r].left \ {f}
      BY <1>5, <1>7
    <2>2. restore[r].row = {row} /\ catalog' = catalog
      BY <1>1 DEF store
    <2>3. \A b \in Batches : batch'[b].at \in Working /\ batch'[b].doc.key = k => batch'[b].doc.id # i
      BY <1>1 DEF Restoring
    <2>4. ASSUME mine
          PROVE  /\ Written(row) \subseteq saved'[k]
                 /\ \A g \in (row.parts \intersect Files) \ (restore[r].left \ {f}) : Restorable(g) =>
                       g \in saved'[k] /\ (<<g, i>> \in content' \/ ShaOf[g] \in cut')
      <3>1. /\ Written(row) \subseteq saved[k]
            /\ \A g \in (row.parts \intersect Files) \ restore[r].left : Restorable(g) =>
                  g \in saved[k] /\ (<<g, i>> \in content \/ ShaOf[g] \in cut)
        BY <1>1, <2>4 DEF Restoring
      <3>2. f \in saved'[k] /\ saved[k] \subseteq saved'[k]
        BY <1>8, <2>4
      <3>3. content \subseteq content' /\ cut \subseteq cut' /\ (<<f, i>> \in content' \/ ShaOf[f] \in cut')
        OBVIOUS
      <3>4. QED
        BY <3>1, <3>2, <3>3
    <2>5. QED
      BY <1>1, <1>2, <2>1, <2>2, <2>3, <2>4 DEF Restoring
  <1>14. \A q \in Restores : Restoring(q)'
    <2>1. catalog \subseteq catalog' /\ cut \subseteq cut' /\ batch' = batch
      BY DEF store
    <2>2. QED
      BY <1>7, <1>9, <1>11, <1>13, <2>1, Remaining
  <1>15. cut \subseteq cut' /\ UNCHANGED <<batch, catalog, archived, gone>>
    BY DEF store
  <1>16. QED
    BY <1>9, <1>10, <1>11, <1>12, <1>14, <1>15, WorldFrame

LEMMA AttachFileStep == ASSUME IInv, NEW r \in Restores, AttachFile(r) PROVE IInv'
  <1>1. PICK row \in restore[r].row, f \in restore[r].left, fault \in Faulty :
          LET k == row.key
              mine == k \in present /\ id[k] = restore[r].id
              whole == archived[ShaOf[f]] = "whole"
          IN /\ IF fault \/ archived[ShaOf[f]] = "none"
                THEN End(r) /\ UNCHANGED <<saved, content, dangling>>
                ELSE /\ restore' = [restore EXCEPT ![r].left = @ \ {f}]
                     /\ content' = IF whole THEN content \union {<<f, restore[r].id>>} ELSE content
                     /\ saved' = IF mine THEN [saved EXCEPT ![k] = @ \union {f}] ELSE saved
                     /\ dangling' = IF mine THEN dangling
                                    ELSE dangling \union {<<f, restore[r].id>>}
             /\ cut' = IF archived[ShaOf[f]] = "torn" THEN cut \union {ShaOf[f]} ELSE cut
             /\ Charge(fault)
    BY DEF AttachFile
  <1>2. /\ UNCHANGED <<present, id, world, store, batch, late, gone, changes>> /\ restore[r].at = "attaching"
        /\ faults' \in 0..MaxFaults
    BY <1>1, Charging DEF AttachFile
  <1>3. ShaOf[f] \in Shas
    <2>1. restore[r] \in Restore
      BY DEF IInv, KindInv
    <2>2. QED
      BY <1>1, <2>1, PartsAssumption DEF Restore
  <1>4. CASE fault \/ archived[ShaOf[f]] = "none"
    <2>1. /\ End(r) /\ UNCHANGED <<saved, content, dangling>> /\ cut \subseteq cut' /\ cut' \subseteq Shas
      BY <1>1, <1>3, <1>4 DEF IInv, KindInv
    <2>2. KindInv'
      BY <1>2, <2>1, Ended DEF IInv, KindInv, world, store
    <2>3. Ages /\ Preserves /\ SavedInv'
      BY <1>2, <2>1 DEF Ages, Preserves, IInv, SavedInv, KindInv
    <2>4. catalog \subseteq catalog' /\ batch' = batch /\ UNCHANGED <<batch, catalog, archived, gone>>
      BY <1>2 DEF store
    <2>5. \A q \in Restores : Restoring(q)'
      BY <2>1, <2>2, <2>3, <2>4, Ended, Remaining
    <2>6. \A b \in Batches : \A k \in present' : id'[k] = id[k] => Overlooked(b, k)
      BY <1>2, <2>1, <2>2, NothingNew
    <2>7. QED
      BY <2>1, <2>2, <2>3, <2>4, <2>5, <2>6, WorldFrame
  <1>5. CASE ~fault /\ archived[ShaOf[f]] # "none"
    <2>1. archived[ShaOf[f]] \in {"torn", "whole"}
      BY <1>3, <1>5 DEF IInv, KindInv
    <2>2. QED
      BY <1>1, <1>2, <1>5, <2>1, Attaching
  <1>6. QED
    BY <1>4, <1>5
-----------------------------------------------------------------------------
LEMMA SavePartStep == ASSUME IInv, NEW p \in Parts, SavePart(p) PROVE IInv'
  <1> DEFINE k == DocOf[p]
  <1>1. /\ k \in present /\ p \notin saved[k] /\ changes < MaxChanges /\ changes' = changes + 1
        /\ p \in Files => ParentOf[p] \in saved[k] \union {Header}
        /\ saved' = [saved EXCEPT ![k] = @ \union {p}]
        /\ content' = (IF p \in Files THEN content \union {<<p, id[k]>>} ELSE content)
        /\ late' = (IF \E b \in Batches : ReadPast(b, p) THEN late \union {<<p, id[k]>>} ELSE late)
        /\ UNCHANGED <<present, id, dangling, world, store, batch, restore, gone, cut, faults>>
    BY DEF SavePart
  <1>2. k \in Keys /\ id \in [Keys -> 1..MaxIds] /\ saved \in [Keys -> SUBSET Parts]
    BY PartsAssumption DEF IInv, KindInv
  <1>3. /\ saved' \in [Keys -> SUBSET Parts] /\ saved'[k] = saved[k] \union {p}
        /\ \A j \in Keys \ {k} : saved'[j] = saved[j]
    BY <1>1, <1>2
  <1>4. KindInv'
    <2>1. content' \subseteq Files \X (1..MaxIds) /\ late' \subseteq Parts \X (1..MaxIds)
      BY <1>1, <1>2 DEF IInv, KindInv
    <2>2. changes' \in 0..MaxChanges
      BY <1>1, BoundsAssumption DEF IInv, KindInv
    <2>3. QED
      BY <1>1, <1>3, <2>1, <2>2 DEF IInv, KindInv, world, store
  <1>5. SavedInv'
    BY <1>1, <1>2, <1>3 DEF IInv, SavedInv
  <1>6. Ages /\ Preserves
    BY <1>1, <1>2, <1>3 DEF Ages, Preserves, IInv, KindInv
  <1>7. ASSUME NEW b \in Batches, NEW j \in present', id'[j] = id[j] PROVE Overlooked(b, j)
    <2>1. ASSUME NEW q \in saved'[j] \ saved[j]
          PROVE  /\ q \in Fields => \A g \in batch[b].queue : g.key = j /\ g.id = id[j] => <<q, g.id>> \in late'
                 /\ batch[b].doc.key = j /\ batch[b].doc.id = id[j] =>
                       <<q, batch[b].doc.id>> \in late' \/ (q \in Files /\ ParentOf[q] \in batch[b].unread)
      <3>1. j = k /\ q = p
        BY <1>3, <1>4, <2>1 DEF KindInv
      <3>2. ReadPast(b, p) => <<p, id[k]>> \in late'
        BY <1>1
      <3>3. ASSUME p \in Fields, NEW g \in batch[b].queue, g.key = k, g.id = id[k] PROVE ReadPast(b, p)
        BY <3>3 DEF ReadPast
      <3>4. ASSUME batch[b].doc.key = k, batch[b].doc.id = id[k], ~(p \in Files /\ ParentOf[p] \in batch[b].unread)
            PROVE  ReadPast(b, p)
        BY <3>4 DEF ReadPast
      <3>5. QED
        BY <3>1, <3>2, <3>3, <3>4
    <2>2. QED
      BY <2>1 DEF Overlooked
  <1>8. UNCHANGED <<batch, catalog, archived, gone>> /\ cut \subseteq cut'
    BY <1>1 DEF store
  <1>9. \A r \in Restores : Restoring(r)'
    BY <1>1, <1>4, <1>6, <1>8, Remaining
  <1>10. QED
    BY <1>4, <1>5, <1>6, <1>7, <1>8, <1>9, WorldFrame

LEMMA DeleteDocumentStep == ASSUME IInv, NEW k \in Keys, DeleteDocument(k) PROVE IInv'
  <1>1. /\ k \in present /\ changes < MaxChanges /\ changes' = changes + 1
        /\ present' = present \ {k} /\ saved' = [saved EXCEPT ![k] = {}]
        /\ content' = {x \in content : x[1] \notin saved[k] \/ x[2] # id[k]}
        /\ UNCHANGED <<id, dangling, world, store, batch, restore, history, faults>>
    BY DEF DeleteDocument
  <1>2. /\ saved' \in [Keys -> SUBSET Parts] /\ saved'[k] = {}
        /\ \A j \in Keys \ {k} : saved'[j] = saved[j]
    BY <1>1 DEF IInv, KindInv
  <1>3. KindInv'
    <2>1. changes' \in 0..MaxChanges
      BY <1>1, BoundsAssumption DEF IInv, KindInv
    <2>2. QED
      BY <1>1, <1>2, <2>1 DEF IInv, KindInv, world, store, history
  <1>4. SavedInv'
    BY <1>1, <1>2 DEF IInv, SavedInv
  <1>5. Ages
    BY <1>1 DEF Ages, history, IInv, KindInv
  <1>6. Preserves
    <2>1. \A q \in saved[k] : DocOf[q] = k
      BY DEF IInv, SavedInv
    <2>2. QED
      BY <1>1, <1>2, <2>1 DEF Preserves, IInv, KindInv
  <1>7. \A j \in present' : id'[j] = id[j] => saved'[j] \subseteq saved[j]
    BY <1>1, <1>2 DEF IInv, KindInv
  <1>8. UNCHANGED <<batch, catalog, archived, gone, cut>>
    BY <1>1 DEF store, history
  <1>9. \A r \in Restores : Restoring(r)'
    BY <1>1, <1>3, <1>5, <1>6, <1>8, Remaining
  <1>10. QED
    BY <1>3, <1>4, <1>5, <1>7, <1>8, <1>9, NothingNew, WorldFrame

LEMMA CreateDocumentStep == ASSUME IInv, NEW k \in Keys, CreateDocument(k) PROVE IInv'
  <1>1. /\ k \notin present /\ id[k] < MaxIds /\ changes < MaxChanges /\ changes' = changes + 1
        /\ present' = present \union {k} /\ id' = [id EXCEPT ![k] = @ + 1]
        /\ UNCHANGED <<saved, content, dangling, world, store, batch, restore, history, faults>>
    BY DEF CreateDocument
  <1>2. id \in [Keys -> 1..MaxIds] /\ MaxIds \in Nat
    BY BoundsAssumption DEF IInv, KindInv
  <1>3. id' \in [Keys -> 1..MaxIds] /\ id'[k] = id[k] + 1 /\ \A j \in Keys \ {k} : id'[j] = id[j]
    BY <1>1, <1>2
  <1>4. KindInv'
    <2>1. changes' \in 0..MaxChanges
      BY <1>1, BoundsAssumption DEF IInv, KindInv
    <2>2. QED
      BY <1>1, <1>3, <2>1 DEF IInv, KindInv, world, store, history
  <1>5. SavedInv'
    BY <1>1 DEF IInv, SavedInv
  <1>6. Ages /\ Preserves
    BY <1>1, <1>2, <1>3 DEF Ages, Preserves, history, IInv, KindInv
  <1>7. \A j \in present' : id'[j] = id[j] => saved'[j] \subseteq saved[j]
    BY <1>1
  <1>8. UNCHANGED <<batch, catalog, archived, gone, cut>>
    BY <1>1 DEF store, history
  <1>9. \A r \in Restores : Restoring(r)'
    BY <1>1, <1>4, <1>6, <1>8, Remaining
  <1>10. QED
    BY <1>4, <1>5, <1>6, <1>7, <1>8, <1>9, NothingNew, WorldFrame

LEMMA SettingsStep == ASSUME IInv, SavePolicy \/ Expire PROVE IInv'
  <1>1. UNCHANGED <<live, store, batch, restore, history, faults>> /\ changes' \in 0..MaxChanges
    BY BoundsAssumption DEF SavePolicy, Expire, IInv, KindInv
  <1>2. policy' \in Policies /\ writable' \in BOOLEAN
    <2>1. CASE SavePolicy
      BY <2>1 DEF SavePolicy, IInv, KindInv
    <2>2. CASE Expire
      <3>1. writable' \in BOOLEAN
        BY <2>2, Zenon DEF Expire
      <3>2. QED
        BY <2>2, <3>1 DEF Expire, IInv, KindInv
    <2>3. QED
      BY <2>1, <2>2
  <1>3. KindInv'
    BY <1>1, <1>2 DEF IInv, KindInv, live, documents, store, history
  <1>4. QED
    BY <1>1, <1>3, StillFrame DEF live, store

(* A restart, with or without the catalog row just inserted.               *)
LEMMA DieStep == ASSUME IInv, Die, Catalogues PROVE IInv'
  <1>1. /\ UNCHANGED <<live, world, archived, late, gone, changes>>
        /\ batch' = [b \in Batches |-> IF batch[b].at = "idle" THEN Idle ELSE Over(b)]
        /\ restore' = [r \in Restores |-> IF restore[r].at = "idle" THEN NoRestore
                                           ELSE [NoRestore EXCEPT !.at = "done"]]
        /\ cut' = cut \union {sha \in Shas : Copying(sha) # {}}
    BY DEF Die
  <1>2. \A b \in Batches :
           /\ batch'[b] \in Batch /\ Shape(batch'[b]) /\ batch'[b].at \notin Working /\ batch'[b].at # "copying"
           /\ batch'[b].queue = {} /\ batch'[b].unlinking = {} /\ batch'[b].taken = {}
    <2>1. /\ Idle.at = "idle" /\ Idle.queue = {} /\ Idle.unlinking = {} /\ Idle.taken = {}
          /\ \A b : Over(b).queue = {} /\ Over(b).unlinking = {} /\ Over(b).taken = {}
      BY DEF Idle, Over, Between
    <2>2. QED
      BY <1>1, <2>1, Nothing DEF Working
  <1>3. \A r \in Restores : restore'[r] \in Restore /\ restore'[r].row = {} /\ restore'[r].at # "attaching"
    <2>1. NoRestore \in Restore /\ NoRestore.row = {} /\ NoRestore.at = "idle"
      BY Nothing DEF NoRestore
    <2> DEFINE d == [NoRestore EXCEPT !.at = "done"]
    <2>2. d \in Restore /\ d.row = {} /\ d.at = "done"
      BY <2>1 DEF Restore
    <2>3. \A r \in Restores : restore'[r] = NoRestore \/ restore'[r] = d
      BY <1>1
    <2> HIDE DEF d
    <2>4. QED
      BY <2>1, <2>2, <2>3
  <1>4. KindInv'
    <2>1. batch' \in [Batches -> Batch] /\ restore' \in [Restores -> Restore]
      BY <1>1, <1>2, <1>3
    <2>2. cut' \subseteq Shas /\ catalog' \subseteq Row
      BY <1>1 DEF Catalogues, IInv, KindInv
    <2>3. faults' \in 0..MaxFaults
      BY BoundsAssumption DEF Die, IInv, KindInv
    <2>4. QED
      BY <1>1, <2>1, <2>2, <2>3 DEF IInv, KindInv, live, documents, world
  <1>5. ShapeInv' /\ SavedInv' /\ RowInv'
    BY <1>1, <1>2 DEF IInv, ShapeInv, Shape, SavedInv, RowInv, Whole, Catalogues, live, documents
  <1>6. QueueInv' /\ TakenInv' /\ UnlinkInv' /\ CopyInv'
    BY <1>2 DEF QueueInv, Queued, TakenInv, Taken, UnlinkInv, Unlinked, CopyInv
  <1>7. \A sha \in Shas : Copying(sha)' = {}
    BY <1>2 DEF Copying
  <1>8. \A sha \in Shas : Kept(sha) => Kept(sha)'
    BY <1>1 DEF Kept
  <1>9. ShaInv'
    BY <1>1, <1>7, <1>8 DEF IInv, ShaInv
  <1>10. RestoreInv'
    BY <1>3 DEF RestoreInv, Restoring
  <1>11. NothingIsLost'
    <2>1. catalog \subseteq catalog'
      BY DEF Catalogues
    <2>2. QED
      BY <1>1, <1>8, <2>1, StillArchived
  <1>12. QED
    BY <1>4, <1>5, <1>6, <1>9, <1>10, <1>11 DEF IInv

LEMMA InvStep == IInv /\ [Next]_vars => IInv'
  <1> SUFFICES ASSUME IInv, [Next]_vars PROVE IInv'
    OBVIOUS
  <1>1. ASSUME NEW b \in Batches, StartBatch(b) PROVE IInv'
    BY <1>1, StartBatchStep
  <1>2. ASSUME NEW b \in Batches, BatchStep(b) PROVE IInv'
    <2>1. CASE TakeDocument(b)
      BY <2>1, TakeDocumentStep
    <2>2. ASSUME NEW l \in Lines, ReadLine(b, l) PROVE IInv'
      BY <2>2, ReadLineStep
    <2>3. ASSUME NEW f \in Files, CheckTarget(b, f) PROVE IInv'
      BY <2>3, CheckTargetStep
    <2>4. CASE OpenCopy(b)
      BY <2>4, OpenCopyStep
    <2>5. CASE EndCopy(b)
      BY <2>5, EndCopyStep
    <2>6. CASE FailPayload(b)
      BY <2>6, FailPayloadStep
    <2>7. CASE ArchiveDocument(b)
      BY <2>7, ArchiveDocumentStep
    <2>8. CASE UnlinkLive(b)
      BY <2>8, UnlinkLiveStep
    <2>9. QED
      BY <1>2, <2>1, <2>2, <2>3, <2>4, <2>5, <2>6, <2>7, <2>8 DEF BatchStep
  <1>3. ASSUME NEW b \in Batches, RestartCatalogued(b) PROVE IInv'
    <2>1. Packed(b) /\ InsertRow(b) /\ Die
      BY <1>3 DEF RestartCatalogued
    <2>2. QED
      BY <2>1, Payload, DieStep
  <1>4. ASSUME NEW r \in Restores, RestoreStep(r) PROVE IInv'
    <2>1. ASSUME NEW row \in catalog, BeginRestore(r, row) PROVE IInv'
      BY <2>1, BeginRestoreStep
    <2>2. CASE ImportDocument(r)
      BY <2>2, ImportDocumentStep
    <2>3. CASE AttachFile(r)
      BY <2>3, AttachFileStep
    <2>4. CASE FinishRestore(r)
      BY <2>4, FinishRestoreStep
    <2>5. QED
      BY <1>4, <2>1, <2>2, <2>3, <2>4 DEF RestoreStep
  <1>5. ASSUME NEW p \in Parts, SavePart(p) PROVE IInv'
    BY <1>5, SavePartStep
  <1>6. ASSUME NEW k \in Keys, DeleteDocument(k) \/ CreateDocument(k) PROVE IInv'
    BY <1>6, DeleteDocumentStep, CreateDocumentStep
  <1>7. CASE SavePolicy \/ Expire
    BY <1>7, SettingsStep
  <1>8. CASE Restart
    BY <1>8, DieStep DEF Restart, Catalogues
  <1>9. CASE UNCHANGED vars
    <2>1. UNCHANGED <<live, world, store, batch, restore, history, bounds>>
      BY <1>9 DEF vars
    <2>2. KindInv'
      BY <2>1 DEF IInv, KindInv, live, documents, world, store, history, bounds
    <2>3. QED
      BY <2>1, <2>2, StillFrame DEF live, store
  <1>10. QED
    BY <1>1, <1>2, <1>3, <1>4, <1>5, <1>6, <1>7, <1>8, <1>9 DEF Next
-----------------------------------------------------------------------------
(* The archive is in a state the invariant describes at any time.          *)
THEOREM ArchiveInvariance == Spec => []IInv
  <1>1. QED
    BY InitialInv, InvStep, PTL DEF Spec

(* What a batch deletes from the live database is in the payload of a      *)
(* catalogued document of the same row id, and the archive has, or is just *)
(* writing, the content of its files; whatever other batches, restores and *)
(* users did between its steps, and however often the process died.        *)
THEOREM ArchivedIsKept == Spec => []NothingIsLost
  <1>1. QED
    BY ArchiveInvariance, InvImplies, PTL

(* A batch holds no more documents than the batch size and nothing of one  *)
(* it is done with; an answered restore has brought back all of a document.*)
THEOREM ArchiveStaysSound == Spec => []ArchiveIsSound
  <1>1. QED
    BY ArchiveInvariance, InvImplies, PTL
-----------------------------------------------------------------------------
(* What single steps may not do.                                           *)

(* Only a batch deletes for the archive, in a transaction of its own.      *)
LEMMA Deleting ==
    ASSUME [Next]_vars, gone' # gone
    PROVE  \E b \in Batches : ArchiveDocument(b) /\ ~Denied /\ Delete(b)
  <1>1. Next
    BY DEF vars, history
  <1>2. ASSUME NEW b \in Batches, ArchiveDocument(b) PROVE ~Denied /\ Delete(b)
    BY <1>2 DEF ArchiveDocument
  <1>3. ASSUME NEW b \in Batches, StartBatch(b) \/ RestartCatalogued(b) \/ BatchStep(b)
        PROVE  ArchiveDocument(b)
    <2>1. CASE StartBatch(b) \/ RestartCatalogued(b)
      BY <2>1 DEF StartBatch, RestartCatalogued, Die, history
    <2>2. CASE TakeDocument(b) \/ OpenCopy(b) \/ EndCopy(b) \/ FailPayload(b) \/ UnlinkLive(b)
      BY <2>2 DEF TakeDocument, OpenCopy, EndCopy, FailPayload, UnlinkLive, history
    <2>3. ASSUME NEW l, ReadLine(b, l) PROVE FALSE
      BY <2>3 DEF ReadLine, history
    <2>4. ASSUME NEW f, CheckTarget(b, f) PROVE FALSE
      BY <2>4 DEF CheckTarget, history
    <2>5. QED
      BY <1>3, <2>1, <2>2, <2>3, <2>4 DEF BatchStep
  <1>4. ASSUME NEW r \in Restores, RestoreStep(r) PROVE FALSE
    BY <1>4 DEF RestoreStep, BeginRestore, ImportDocument, AttachFile, FinishRestore, history
  <1>5. ASSUME NEW k, DeleteDocument(k) \/ CreateDocument(k) \/ SavePart(k) PROVE FALSE
    BY <1>5 DEF DeleteDocument, CreateDocument, SavePart, history
  <1>6. ~SavePolicy /\ ~Expire /\ ~Restart
    BY DEF SavePolicy, Expire, Restart, Die, history
  <1>7. QED
    BY <1>1, <1>2, <1>3, <1>4, <1>5, <1>6 DEF Next

(* Restores change in steps of their own, and when the process dies.       *)
LEMMA RestoresMove ==
    ASSUME [Next]_vars, restore' # restore
    PROVE  Die \/ \E r \in Restores : RestoreStep(r)
  <1>1. Next
    BY DEF vars
  <1>2. ASSUME NEW b \in Batches, StartBatch(b) \/ BatchStep(b) PROVE FALSE
    BY <1>2 DEF StartBatch, BatchStep, TakeDocument, ReadLine, CheckTarget, OpenCopy, EndCopy, FailPayload,
                ArchiveDocument, UnlinkLive
  <1>3. ASSUME NEW k, DeleteDocument(k) \/ CreateDocument(k) \/ SavePart(k) PROVE FALSE
    BY <1>3 DEF DeleteDocument, CreateDocument, SavePart
  <1>4. ~SavePolicy /\ ~Expire
    BY DEF SavePolicy, Expire
  <1>5. QED
    BY <1>1, <1>2, <1>3, <1>4 DEF Next, Restart, RestartCatalogued

LEMMA AttachmentsTaken ==
    ASSUME IInv, NEW b \in Batches, Packed(b), Delete(b), NEW x \in dangling' \ dangling
    PROVE  <<ParentOf[x[1]], x[2]>> \in late \/ ParentOf[x[1]] \in Outside
  <1> DEFINE h == batch[b].doc
             known == FilesOf(h, Parents(b))
  <1>1. x[1] \in (PartsOf(h) \intersect Files) \ known /\ x[2] = h.id
    BY DEF Delete
  <1>2. x[1] \in saved[h.key] /\ Live(h) /\ h.key \in Keys
    BY <1>1, Reading DEF PartsOf, Live, IInv, KindInv
  <1>3. ParentOf[x[1]] \notin (batch[b].taken \intersect Lines) \union {Header}
    BY <1>1 DEF FilesOf, Parents
  <1>4. ParentOf[x[1]] \in Lines /\ ParentOf[x[1]] \notin Files
    BY <1>1, <1>3, PartsAssumption
  <1>5. ParentOf[x[1]] \in saved[h.key]
    BY <1>1, <1>2, <1>3 DEF IInv, SavedInv
  <1>6. Taken(batch[b]) /\ batch[b].at \in Working
    BY DEF IInv, TakenInv, Packed, Working
  <1>7. QED
    BY <1>1, <1>2, <1>3, <1>4, <1>5, <1>6 DEF Taken, Listed

LEMMA LetAlone ==
    ASSUME IInv, [Next]_vars, restore' # restore, NEW k \in present, saved'[k] # saved[k]
    PROVE  \E r \in Restores : restore[r].at = "attaching" /\ restore[r].id = id[k]
                               /\ \E row \in restore[r].row : row.key = k
  <1>1. saved \in [Keys -> SUBSET Parts] /\ k \in Keys /\ saved' # saved
    BY DEF IInv, KindInv
  <1>2. ~Die
    BY <1>1 DEF Die, live, documents
  <1>3. PICK r \in Restores : RestoreStep(r)
    BY <1>2, RestoresMove
  <1>4. ~FinishRestore(r) /\ \A row : ~BeginRestore(r, row)
    BY <1>1 DEF FinishRestore, BeginRestore, live, documents
  <1>5. ~ImportDocument(r)
    BY <1>1 DEF ImportDocument, Free, documents
  <1>6. AttachFile(r)
    BY <1>3, <1>4, <1>5 DEF RestoreStep
  <1>7. PICK row \in restore[r].row, f \in restore[r].left :
           LET mine == row.key \in present /\ id[row.key] = restore[r].id
           IN saved' = saved \/ (mine /\ saved' = [saved EXCEPT ![row.key] = @ \union {f}])
    BY <1>6 DEF AttachFile
  <1>8. row.key = k /\ id[k] = restore[r].id
    BY <1>1, <1>7
  <1>9. QED
    BY <1>6, <1>8 DEF AttachFile

(* A batch deletes only while the app is licensed, and leaves no file of   *)
(* the document without a parent but those of a line added behind its back *)
(* or of a row the entity does not list; a restore changes no live document*)
(* but the one it has inserted itself.                                     *)
THEOREM CarefulChanges == Spec => ChangesAreCareful
  <1>1. IInv /\ [Next]_vars =>
           [gone' # gone => \A x \in dangling' \ dangling :
               <<ParentOf[x[1]], x[2]>> \in late \/ ParentOf[x[1]] \in Outside]_vars
    BY Deleting, AttachmentsTaken DEF ArchiveDocument
  <1>2. IInv /\ [Next]_vars => [gone' # gone => writable]_vars
    BY Deleting DEF Denied
  <1>3. IInv /\ [Next]_vars =>
           [restore' # restore =>
              \A k \in present : saved'[k] # saved[k] =>
                 \E r \in Restores : restore[r].at = "attaching" /\ restore[r].id = id[k]
                                     /\ \E row \in restore[r].row : row.key = k]_vars
    BY LetAlone
  <1>4. Spec => ArchiveTakesAttachments
    BY <1>1, ArchiveInvariance, PTL DEF Spec, ArchiveTakesAttachments
  <1>5. Spec => DeletionIsLicensed
    BY <1>2, ArchiveInvariance, PTL DEF Spec, DeletionIsLicensed
  <1>6. Spec => RestoreNeverOverwrites
    BY <1>3, ArchiveInvariance, PTL DEF Spec, RestoreNeverOverwrites
  <1>7. QED
    BY <1>4, <1>5, <1>6 DEF ChangesAreCareful
=============================================================================
