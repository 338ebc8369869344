----------------------------- MODULE RecordsProofs -----------------------------
(***************************************************************************)
(* The safety of the record layer, with app data beside it, for any tables,*)
(* roles, licences and requests, and for any number of throws and crashes. *)
(***************************************************************************)
EXTENDS AppData, FiniteSetTheorems, SequenceTheorems, TLAPS

IsSeq(s) == s \in Seq(Range(s))

(* A draft, with the records that were made of it: none while it is open.  *)
DraftFits(d, born) ==
    \/ d = NoDraft /\ (born = {} \/ \E id \in born : born = {id})
    \/ /\ DOMAIN d = {"owner", "table", "revision", "expired", "snapshot", "record"}
       /\ IF d.record = None THEN born = {} /\ d.table \in Tables /\ Fits(d.table, d.snapshot)
          ELSE born = {d.record}

(* A state of the database: rows have ids that were given out.             *)
StoreFits(s) ==
    /\ DOMAIN s = {"rows", "next", "drafts", "born"}
    /\ DOMAIN s.rows = Tables /\ s.next \in [Tables -> Nat]
    /\ DOMAIN s.drafts = Tokens /\ DOMAIN s.born = Tokens
    /\ \A t \in Tables : \A id \in DOMAIN s.rows[t] :
          id \in Nat /\ id < s.next[t] /\ Fits(t, s.rows[t][id])
    /\ \A k \in Tokens : DraftFits(s.drafts[k], s.born[k])

(* What a user's operations make of a base: changed tables are guarded, ids*)
(* stay given out, and each change is permitted.                           *)
Permitted(u, t, old, new) ==
    /\ DOMAIN new \ DOMAIN old # {} => Can(u, t, "create")
    /\ DOMAIN old \ DOMAIN new # {} => Can(u, t, "delete")
    /\ (\E id \in DOMAIN old \intersect DOMAIN new : old[id] # new[id]) => Can(u, t, "update")
Reached(base, s, g, u) ==
    \A t \in Tables :
        /\ s.rows[t] # base.rows[t] => t \in g
        /\ \A id \in DOMAIN base.rows[t] : id < s.next[t]
        /\ Permitted(u, t, base.rows[t], s.rows[t])

StoreInv ==
    /\ IsSeq(levels) /\ Len(levels) <= 2
    /\ StoreFits(store) /\ \A i \in DOMAIN levels : StoreFits(levels[i])
ReachInv ==
    InTransaction =>
        /\ Reached(levels[1], store, guards, req.user)
        /\ \A i \in DOMAIN levels : Reached(levels[1], levels[i], guards, req.user)

(* The operations left: k is the end of the open savepoint, if there is    *)
(* one; none is opened before it.                                          *)
Left(k) ==
    /\ Len(levels) = 2 <=> k > 0
    /\ k > 0 => ops[k] = Release
    /\ \A i \in 1..Len(ops) : /\ i < k => Plain(ops[i])
                              /\ i > k => ops[i] \in Script
RequestInv ==
    /\ req = None => levels = <<>>
    /\ req # None => req \in Sent
    /\ guards \subseteq Tables
    /\ todo \in Seq(Seq(Script)) /\ IsSeq(ops)
    /\ ops # <<>> => InTransaction
    /\ \E k \in 0..Len(ops) : Left(k)

(* A call that deletes a row may do so; the children it has found are those*)
(* of its next reference.                                                  *)
FrameFits(f, g, u) ==
    /\ DOMAIN f = {"table", "id", "refs", "kids"}
    /\ f.table \in g /\ f.id \in Nat /\ f.refs \subseteq References(f.table)
    /\ Can(u, f.table, "delete")
    /\ DOMAIN f.kids \subseteq Nat
    /\ \A i \in DOMAIN f.kids : f.refs # {} /\ Fits(From(NextReference(f.refs)), f.kids[i])
Key(f) == <<f.table, f.id>>
FramesFit(fs, keys, g, u) ==
    /\ IsSeq(fs)
    /\ \A i \in DOMAIN fs : FrameFits(fs[i], g, u)
    /\ keys = {Key(fs[i]) : i \in DOMAIN fs}
    /\ \A i, j \in DOMAIN fs : Key(fs[i]) = Key(fs[j]) => i = j
    /\ IsFiniteSet(keys) /\ Cardinality(keys) = Len(fs)
FrameInv ==
    /\ frames # <<>> => InTransaction
    /\ FramesFit(frames, deleting, guards, req.user)

JobFits(j) ==
    /\ DOMAIN j = {"status", "reading", "imports"} /\ j.status \in {"staged", "running", "completed"}
    /\ j.reading \in Nat /\ j.imports \in Nat /\ j.reading + j.imports <= 1
    /\ j.status = "staged" => j.reading = 0 /\ j.imports = 0
JobInv == DOMAIN jobs = Jobs /\ \A j \in Jobs : JobFits(jobs[j])

RowsFit(t, rows) ==
    DOMAIN rows \subseteq Nat /\ IsFiniteSet(DOMAIN rows) /\ \A id \in DOMAIN rows : Fits(t, rows[id])
PreviewInv ==
    \A p \in previews : /\ p.app \in Apps /\ DOMAIN p.rows = AppTables(p.app)
                        /\ \A t \in AppTables(p.app) : RowsFit(t, p.rows[t])

MachineInv == StoreInv /\ ReachInv /\ RequestInv /\ FrameInv
IInv == MachineInv /\ JobInv /\ PreviewInv /\ DOMAIN licenses = Apps
-----------------------------------------------------------------------------
(* Sequences.                                                              *)

LEMMA OwnRange ==
    ASSUME NEW S, NEW s \in Seq(S)
    PROVE  IsSeq(s)
  BY DEF IsSeq, Range

LEMMA FrontOf ==
    ASSUME NEW s, IsSeq(s), s # <<>>
    PROVE  /\ IsSeq(Front(s))
           /\ Len(s) \in Nat \ {0} /\ Len(Front(s)) = Len(s) - 1 /\ DOMAIN s = 1..Len(s)
           /\ DOMAIN Front(s) = 1..(Len(s) - 1)
           /\ \A i \in 1..(Len(s) - 1) : Front(s)[i] = s[i]
           /\ Last(s) = s[Len(s)] /\ Len(s) \in DOMAIN s
  <1> DEFINE S == Range(s)
  <1> HIDE DEF S
  <1>1. s \in Seq(S)
    BY DEF IsSeq, S
  <1>2. Len(s) \in Nat \ {0} /\ DOMAIN s = 1..Len(s)
    BY <1>1
  <1>4. \A m \in Nat : m <= Len(s) => /\ SubSeq(s, 1, m) \in Seq(S) /\ Len(SubSeq(s, 1, m)) = m
                                   /\ \A i \in 1..m : SubSeq(s, 1, m)[i] = s[i]
    BY <1>1
  <1>5. /\ Front(s) \in Seq(S) /\ Len(Front(s)) = Len(s) - 1
        /\ \A i \in 1..(Len(s) - 1) : Front(s)[i] = s[i]
    BY <1>2, <1>4 DEF Front
  <1>3. IsSeq(Front(s))
    BY <1>5, OwnRange
  <1>6. DOMAIN Front(s) = 1..(Len(s) - 1)
    BY <1>5
  <1> QED
    BY <1>2, <1>3, <1>5, <1>6 DEF Last

LEMMA AppendTo ==
    ASSUME NEW s, IsSeq(s), NEW x
    PROVE  /\ IsSeq(Append(s, x))
           /\ Len(s) \in Nat /\ Len(Append(s, x)) = Len(s) + 1 /\ DOMAIN s = 1..Len(s)
           /\ DOMAIN Append(s, x) = 1..(Len(s) + 1) /\ Append(s, x) # <<>>
           /\ \A i \in 1..Len(s) : Append(s, x)[i] = s[i]
           /\ Append(s, x)[Len(s) + 1] = x
  <1>1. \A S : \A u \in Seq(S) : x \in S => /\ Append(u, x) \in Seq(S)
                                        /\ Len(u) \in Nat /\ Len(Append(u, x)) = Len(u) + 1
                                        /\ DOMAIN u = 1..Len(u)
                                        /\ DOMAIN Append(u, x) = 1..(Len(u) + 1)
                                        /\ \A i \in 1..Len(u) : Append(u, x)[i] = u[i]
                                        /\ Append(u, x)[Len(u) + 1] = x
    OBVIOUS
  <1>2. s \in Seq(Range(s) \union {x})
    BY DEF IsSeq
  <1>3. Append(s, x) \in Seq(Range(s) \union {x})
    BY <1>1, <1>2
  <1>4. IsSeq(Append(s, x))
    BY <1>3, OwnRange
  <1>5. Append(s, x) # <<>>
    BY <1>1, <1>2
  <1> QED
    BY <1>1, <1>2, <1>4, <1>5

LEMMA TailOf ==
    ASSUME NEW s, IsSeq(s), s # <<>>
    PROVE  /\ IsSeq(Tail(s)) /\ Head(s) = s[1]
           /\ Len(s) \in Nat \ {0} /\ Len(Tail(s)) = Len(s) - 1
           /\ \A i \in 1..(Len(s) - 1) : Tail(s)[i] = s[i + 1]
  <1>1. \A S : \A u \in Seq(S) : u # <<>> => /\ Tail(u) \in Seq(S) /\ Head(u) = u[1]
                                         /\ Len(u) \in Nat \ {0} /\ Len(Tail(u)) = Len(u) - 1
                                         /\ \A i \in 1..(Len(u) - 1) : Tail(u)[i] = u[i + 1]
    OBVIOUS
  <1>2. IsSeq(Tail(s))
    BY <1>1, OwnRange DEF IsSeq
  <1> QED
    BY <1>1, <1>2 DEF IsSeq

-----------------------------------------------------------------------------
(* Rows.                                                                   *)

LEMMA SetManyFits ==
    ASSUME NEW t, NEW row, Fits(t, row), NEW values,
           \A f \in DOMAIN values : f \in FieldNames(t) /\ Field(t, f).secret => values[f] # Mask
    PROVE  Fits(t, SetMany(row, values))
  BY DEF Fits, SetMany

LEMMA NewRecordFits == ASSUME NEW t \in Tables PROVE Fits(t, NewRecord(t))
  BY TablesAssumption, ValuesAssumption DEF Fits, NewRecord

LEMMA StoredFits == ASSUME NEW t, NEW row, Fits(t, row) PROVE Fits(t, Stored(row))
  BY ValuesAssumption DEF Fits, Stored

LEMMA WritableBodyHasNoMasks ==
    ASSUME NEW t, NEW body
    PROVE  \A f \in DOMAIN WritableBody(t, body) :
              Field(t, f).secret => WritableBody(t, body)[f] # Mask
  BY DEF WritableBody

-----------------------------------------------------------------------------
(* What the writing operations make of a store.                            *)

LEMMA InsertedShape ==
    ASSUME NEW s, StoreFits(s), NEW t \in Tables, NEW row
    PROVE  LET new == Inserted(s, t, row)
           IN /\ DOMAIN new = DOMAIN s /\ DOMAIN new.rows = Tables
              /\ new.rows[t] = Put(s.rows[t], s.next[t], Stored(row))
              /\ \A u \in Tables : u # t => new.rows[u] = s.rows[u]
              /\ new.next = [s.next EXCEPT ![t] = @ + 1]
              /\ new.drafts = s.drafts /\ new.born = s.born
  BY DEF Inserted, StoreFits

LEMMA UpdatedShape ==
    ASSUME NEW s, StoreFits(s), NEW t \in Tables, NEW id \in DOMAIN s.rows[t], NEW row
    PROVE  LET new == Updated(s, t, id, row)
           IN /\ DOMAIN new = DOMAIN s /\ DOMAIN new.rows = Tables
              /\ DOMAIN new.rows[t] = DOMAIN s.rows[t] /\ new.rows[t][id] = Stored(row)
              /\ \A i \in DOMAIN s.rows[t] : i # id => new.rows[t][i] = s.rows[t][i]
              /\ \A u \in Tables : u # t => new.rows[u] = s.rows[u]
              /\ new.next = s.next /\ new.drafts = s.drafts /\ new.born = s.born
  BY DEF Updated, StoreFits

LEMMA WithoutShape ==
    ASSUME NEW s, StoreFits(s), NEW t \in Tables, NEW id
    PROVE  LET new == Without(s, t, id)
           IN /\ DOMAIN new = DOMAIN s /\ DOMAIN new.rows = Tables
              /\ new.rows[t] = [i \in DOMAIN s.rows[t] \ {id} |-> s.rows[t][i]]
              /\ \A u \in Tables : u # t => new.rows[u] = s.rows[u]
              /\ new.next = s.next /\ new.drafts = s.drafts /\ new.born = s.born
  BY DEF Without, StoreFits

(* A store with a row more, changed or less is one again.                  *)
RowsOf(s) == \A t \in Tables : \A id \in DOMAIN s.rows[t] :
                id \in Nat /\ id < s.next[t] /\ Fits(t, s.rows[t][id])
DraftsOf(s) == \A k \in Tokens : DraftFits(s.drafts[k], s.born[k])

LEMMA InsertedFits ==
    ASSUME NEW s, StoreFits(s), NEW t \in Tables, NEW row, Fits(t, row)
    PROVE  StoreFits(Inserted(s, t, row))
  <1> DEFINE new == Inserted(s, t, row)
  <1>1. /\ DOMAIN new = DOMAIN s /\ DOMAIN new.rows = Tables
        /\ new.rows[t] = Put(s.rows[t], s.next[t], Stored(row))
        /\ \A u \in Tables : u # t => new.rows[u] = s.rows[u]
        /\ new.next = [s.next EXCEPT ![t] = @ + 1]
        /\ new.drafts = s.drafts /\ new.born = s.born
    BY InsertedShape
  <1>2. Fits(t, Stored(row))
    BY StoredFits
  <1> HIDE DEF new
  <1>3. new.next \in [Tables -> Nat] /\ new.next[t] = s.next[t] + 1
        /\ \A u \in Tables : u # t => new.next[u] = s.next[u]
    BY <1>1 DEF StoreFits
  <1>4. \A id \in DOMAIN new.rows[t] : id \in Nat /\ id < new.next[t] /\ Fits(t, new.rows[t][id])
    <2> SUFFICES ASSUME NEW id \in DOMAIN new.rows[t]
                 PROVE  id \in Nat /\ id < new.next[t] /\ Fits(t, new.rows[t][id])
      OBVIOUS
    <2>1. CASE id = s.next[t]
      BY <1>1, <1>2, <1>3, <2>1 DEF StoreFits, Put
    <2>2. CASE id # s.next[t]
      BY <1>1, <1>3, <2>2 DEF StoreFits, Put
    <2> QED
      BY <2>1, <2>2
  <1>5. \A u \in Tables : u # t => \A id \in DOMAIN new.rows[u] :
            id \in Nat /\ id < new.next[u] /\ Fits(u, new.rows[u][id])
    BY <1>1, <1>3 DEF StoreFits
  <1> QED
    BY <1>1, <1>3, <1>4, <1>5 DEF StoreFits, new

LEMMA UpdatedFits ==
    ASSUME NEW s, StoreFits(s), NEW t \in Tables, NEW id, NEW row,
           id \in DOMAIN s.rows[t] => Fits(t, row)
    PROVE  StoreFits(Updated(s, t, id, row))
  <1>1. CASE id \in DOMAIN s.rows[t]
    <2> DEFINE new == Updated(s, t, id, row)
    <2>1. /\ DOMAIN new = DOMAIN s /\ DOMAIN new.rows = Tables
          /\ DOMAIN new.rows[t] = DOMAIN s.rows[t] /\ new.rows[t][id] = Stored(row)
          /\ \A i \in DOMAIN s.rows[t] : i # id => new.rows[t][i] = s.rows[t][i]
          /\ \A u \in Tables : u # t => new.rows[u] = s.rows[u]
          /\ new.next = s.next /\ new.drafts = s.drafts /\ new.born = s.born
      BY <1>1, UpdatedShape
    <2>2. Fits(t, Stored(row))
      BY <1>1, StoredFits
    <2> HIDE DEF new
    <2>3. \A i \in DOMAIN new.rows[t] : i \in Nat /\ i < new.next[t] /\ Fits(t, new.rows[t][i])
      BY <2>1, <2>2 DEF StoreFits
    <2>4. \A u \in Tables : u # t => \A i \in DOMAIN new.rows[u] :
              i \in Nat /\ i < new.next[u] /\ Fits(u, new.rows[u][i])
      BY <2>1 DEF StoreFits
    <2> QED
      BY <2>1, <2>3, <2>4 DEF StoreFits, new
  <1>2. CASE id \notin DOMAIN s.rows[t]
    BY <1>2 DEF Updated
  <1> QED
    BY <1>1, <1>2

LEMMA WithoutFits ==
    ASSUME NEW s, StoreFits(s), NEW t \in Tables, NEW id
    PROVE  StoreFits(Without(s, t, id))
  <1> DEFINE new == Without(s, t, id)
  <1>1. /\ DOMAIN new = DOMAIN s /\ DOMAIN new.rows = Tables
        /\ new.rows[t] = [i \in DOMAIN s.rows[t] \ {id} |-> s.rows[t][i]]
        /\ \A u \in Tables : u # t => new.rows[u] = s.rows[u]
        /\ new.next = s.next /\ new.drafts = s.drafts /\ new.born = s.born
    BY WithoutShape
  <1> HIDE DEF new
  <1>2. \A i \in DOMAIN new.rows[t] : i \in DOMAIN s.rows[t] /\ new.rows[t][i] = s.rows[t][i]
    BY <1>1
  <1>3. \A u \in Tables : \A i \in DOMAIN new.rows[u] :
              i \in Nat /\ i < new.next[u] /\ Fits(u, new.rows[u][i])
    BY <1>1, <1>2 DEF StoreFits
  <1> QED
    BY <1>1, <1>3 DEF StoreFits, new

-----------------------------------------------------------------------------
(* What a user's operations make of a base.                                *)

LEMMA ReachedItself ==
    ASSUME NEW s, StoreFits(s), NEW g, NEW u
    PROVE  Reached(s, s, g, u)
  BY DEF Reached, Permitted, StoreFits

LEMMA ReachedWithMore ==
    ASSUME NEW base, NEW s, NEW g, NEW u, Reached(base, s, g, u), NEW h, g \subseteq h
    PROVE  Reached(base, s, h, u)
  BY DEF Reached

LEMMA InsertReaches ==
    ASSUME NEW base, NEW s, NEW g, NEW u, Reached(base, s, g, u), StoreFits(base), StoreFits(s),
           NEW t \in Tables, NEW row, Can(u, t, "create")
    PROVE  Reached(base, Inserted(s, t, row), g \union {t}, u)
  <1> DEFINE new == Inserted(s, t, row)
  <1>1. /\ new.rows[t] = Put(s.rows[t], s.next[t], Stored(row))
        /\ \A v \in Tables : v # t => new.rows[v] = s.rows[v]
        /\ new.next = [s.next EXCEPT ![t] = @ + 1]
    BY DEF Inserted, StoreFits
  <1> HIDE DEF new
  <1>2. new.next[t] = s.next[t] + 1 /\ \A v \in Tables : v # t => new.next[v] = s.next[v]
    BY <1>1 DEF StoreFits
  <1>3. s.next[t] \notin DOMAIN base.rows[t] /\ s.next[t] \notin DOMAIN s.rows[t] /\ s.next[t] \in Nat
    BY DEF StoreFits, Reached
  <1>4. DOMAIN new.rows[t] = DOMAIN s.rows[t] \union {s.next[t]}
        /\ \A i \in DOMAIN s.rows[t] : new.rows[t][i] = s.rows[t][i]
    BY <1>1, <1>3 DEF Put
  <1>5. Permitted(u, t, base.rows[t], new.rows[t])
    BY <1>3, <1>4 DEF Permitted, Reached
  <1>6. \A id \in DOMAIN base.rows[t] : id < new.next[t]
    BY <1>2, <1>3 DEF Reached, StoreFits
  <1>7. \A v \in Tables : v # t => /\ new.rows[v] # base.rows[v] => v \in g
                                   /\ \A id \in DOMAIN base.rows[v] : id < new.next[v]
                                   /\ Permitted(u, v, base.rows[v], new.rows[v])
    BY <1>1, <1>2 DEF Reached
  <1> QED
    BY <1>5, <1>6, <1>7 DEF Reached, new

LEMMA UpdateReaches ==
    ASSUME NEW base, NEW s, NEW g, NEW u, Reached(base, s, g, u), StoreFits(base), StoreFits(s),
           NEW t \in Tables, NEW id, NEW row, Can(u, t, "update")
    PROVE  Reached(base, Updated(s, t, id, row), g \union {t}, u)
  <1>1. CASE id \in DOMAIN s.rows[t]
    <2> DEFINE new == Updated(s, t, id, row)
    <2>1. /\ DOMAIN new.rows[t] = DOMAIN s.rows[t]
          /\ \A v \in Tables : v # t => new.rows[v] = s.rows[v]
          /\ new.next = s.next
      BY <1>1, UpdatedShape
    <2> HIDE DEF new
    <2>2. Permitted(u, t, base.rows[t], new.rows[t])
      BY <2>1 DEF Permitted, Reached
    <2>3. \A v \in Tables : v # t => /\ new.rows[v] # base.rows[v] => v \in g
                                     /\ Permitted(u, v, base.rows[v], new.rows[v])
      BY <2>1 DEF Reached
    <2>4. \A v \in Tables : \A i \in DOMAIN base.rows[v] : i < new.next[v]
      BY <2>1 DEF Reached
    <2> QED
      BY <2>2, <2>3, <2>4 DEF Reached, new
  <1>2. CASE id \notin DOMAIN s.rows[t]
    BY <1>2, ReachedWithMore DEF Updated
  <1> QED
    BY <1>1, <1>2

LEMMA DeleteReaches ==
    ASSUME NEW base, NEW s, NEW g, NEW u, Reached(base, s, g, u), StoreFits(base), StoreFits(s),
           NEW t \in Tables, NEW id, Can(u, t, "delete"), t \in g
    PROVE  Reached(base, Without(s, t, id), g, u)
  <1> DEFINE new == Without(s, t, id)
  <1>1. /\ new.rows[t] = [i \in DOMAIN s.rows[t] \ {id} |-> s.rows[t][i]]
        /\ \A v \in Tables : v # t => new.rows[v] = s.rows[v]
        /\ new.next = s.next
    BY WithoutShape
  <1> HIDE DEF new
  <1>2. DOMAIN new.rows[t] \subseteq DOMAIN s.rows[t]
        /\ \A i \in DOMAIN new.rows[t] : new.rows[t][i] = s.rows[t][i]
    BY <1>1
  <1>3. Permitted(u, t, base.rows[t], new.rows[t])
    BY <1>2 DEF Permitted, Reached
  <1>4. \A v \in Tables : v # t => /\ new.rows[v] # base.rows[v] => v \in g
                                   /\ Permitted(u, v, base.rows[v], new.rows[v])
    BY <1>1 DEF Reached
  <1>5. \A v \in Tables : \A i \in DOMAIN base.rows[v] : i < new.next[v]
    BY <1>1 DEF Reached
  <1> QED
    BY <1>3, <1>4, <1>5 DEF Reached, new

-----------------------------------------------------------------------------
(* The least of a set of numbers, by the well-foundedness of Nat.          *)

Below == {p \in Nat \X Nat : p[1] < p[2]}

LEMMA LeastExists ==
    ASSUME NEW S \in SUBSET Nat, S # {}
    PROVE  \E x \in S : \A y \in S : x <= y
  <1>1. Below = OpToRel(<, Nat)
    BY DEF Below, OpToRel
  <1>2. IsWellFoundedOn(Below, Nat)
    BY <1>1, NatLessThanWellFounded, Zenon
  <1>3. \A x, y \in Nat : <<y, x>> \in Below <=> y < x
    BY DEF Below
  <1>4. PICK x \in S : \A y \in S : ~(<<y, x>> \in Below)
    BY <1>2, WFMin, Zenon
  <1>5. \A y \in S : ~(y < x)
    BY <1>3, <1>4
  <1> QED
    BY <1>5

LEMMA FirstOnlyOf ==
    ASSUME NEW ids \in SUBSET Nat
    PROVE  /\ ids = {} => FirstOnly(ids) = None
           /\ ids # {} => FirstOnly(ids) \in ids /\ FirstOnly(ids) # None
  <1>1. CASE ids = {}
    BY <1>1 DEF FirstOnly
  <1>2. CASE ids # {}
    <2>1. FirstOnly(ids) \in ids
      BY <1>2, LeastExists DEF FirstOnly
    <2>2. None \notin Nat
      BY ValuesAssumption
    <2> QED
      BY <1>2, <2>1, <2>2
  <1> QED
    BY <1>1, <1>2

LEMMA ReferenceOf ==
    ASSUME NEW t, NEW r \in References(t)
    PROVE  /\ r \in Nat \X Nat /\ From(r) \in Tables
  <1>1. TableOrder \in Seq(Tables) /\ \A u \in Tables : Fields[u] \in Seq(Range(Fields[u]))
    BY TablesAssumption
  <1>2. PICK i \in DOMAIN TableOrder : \E j \in DOMAIN Fields[TableOrder[i]] : r = <<i, j>>
    BY DEF References
  <1>3. i \in Nat /\ TableOrder[i] \in Tables
    BY <1>1, <1>2
  <1>4. PICK j \in DOMAIN Fields[TableOrder[i]] : r = <<i, j>>
    BY <1>2
  <1>5. j \in Nat
    BY <1>1, <1>3, <1>4
  <1> QED
    BY <1>3, <1>4, <1>5 DEF From

LEMMA NextReferenceOf ==
    ASSUME NEW t, NEW refs \in SUBSET References(t), refs # {}
    PROVE  NextReference(refs) \in refs /\ From(NextReference(refs)) \in Tables
  <1> DEFINE Firsts == {r[1] : r \in refs}
  <1>1. \A r \in refs : r \in Nat \X Nat
    BY ReferenceOf
  <1>2. Firsts \in SUBSET Nat /\ Firsts # {}
    BY <1>1
  <1> HIDE DEF Firsts
  <1>3. PICK x \in Firsts : \A y \in Firsts : x <= y
    BY <1>2, LeastExists
  <1> DEFINE Seconds == {r[2] : r \in {q \in refs : q[1] = x}}
  <1>4. Seconds \in SUBSET Nat /\ Seconds # {}
    BY <1>1, <1>3 DEF Firsts
  <1> HIDE DEF Seconds
  <1>5. PICK y \in Seconds : \A z \in Seconds : y <= z
    BY <1>4, LeastExists
  <1>6. PICK r \in refs : r[1] = x /\ r[2] = y
    BY <1>5 DEF Seconds
  <1>7. \A q \in refs : r[1] < q[1] \/ (r[1] = q[1] /\ r[2] <= q[2])
    <2> TAKE q \in refs
    <2>1. q[1] \in Firsts /\ q[1] \in Nat /\ x \in Nat
      BY <1>1, <1>2, <1>3 DEF Firsts
    <2>2. q[1] = x => q[2] \in Seconds
      BY DEF Seconds
    <2> QED
      BY <1>3, <1>5, <1>6, <2>1, <2>2
  <1>8. NextReference(refs) \in refs
    BY <1>6, <1>7 DEF NextReference
  <1> QED
    BY <1>8, ReferenceOf

(* Ids beyond those of finitely many rows exist.                           *)
LEMMA GreatestExists ==
    ASSUME NEW ids \in SUBSET Nat, IsFiniteSet(ids), ids # {}
    PROVE  \E x \in ids : \A y \in ids : y <= x
  <1> DEFINE Great(S) == \E x \in S : \A y \in S : y <= x
             Bad == {n \in Nat : \E S \in SUBSET ids : S # {} /\ Cardinality(S) = n /\ ~Great(S)}
  <1>1. SUFFICES ASSUME Bad # {} PROVE FALSE
    BY FS_CardinalityType
  <1>2. PICK n \in Bad : \A m \in Bad : n <= m
    BY <1>1, LeastExists
  <1>3. PICK S \in SUBSET ids : S # {} /\ Cardinality(S) = n /\ ~Great(S)
    BY <1>2
  <1>4. PICK x \in S : TRUE
    BY <1>3
  <1> DEFINE R == S \ {x}
  <1>5. IsFiniteSet(S) /\ IsFiniteSet(R) /\ Cardinality(R) = n - 1 /\ Cardinality(R) \in Nat
    BY <1>3, <1>4, FS_Subset, FS_RemoveElement, FS_CardinalityType
  <1>6. Cardinality(R) \notin Bad
    <2>1. n \in Nat /\ ~(n <= n - 1)
      BY <1>2
    <2> HIDE DEF Bad
    <2> QED
      BY <1>2, <1>5, <2>1
  <1>7. R = {} \/ Great(R)
    BY <1>5, <1>6
  <1>8. CASE R = {}
    BY <1>3, <1>4, <1>8
  <1>9. CASE Great(R)
    <2>1. PICK m \in R : \A y \in R : y <= m
      BY <1>9
    <2>2. \A y \in S : y <= (IF m <= x THEN x ELSE m)
      BY <1>4, <2>1
    <2> QED
      BY <1>3, <1>4, <2>1, <2>2
  <1> QED
    BY <1>7, <1>8, <1>9

LEMMA BeyondAll ==
    ASSUME NEW next \in Nat, NEW ids \in SUBSET Nat, IsFiniteSet(ids)
    PROVE  Beyond(next, ids) \in Nat /\ Beyond(next, ids) >= next /\ \A i \in ids : i < Beyond(next, ids)
  <1>1. \E n \in {next} \union {i + 1 : i \in ids} : n >= next /\ \A i \in ids : i < n
    <2>1. CASE \A i \in ids : i < next
      BY <2>1
    <2>2. CASE \E i \in ids : i >= next
      <3>1. PICK x \in ids : \A y \in ids : y <= x
        BY <2>2, GreatestExists
      <3>2. x + 1 >= next /\ \A i \in ids : i < x + 1
        BY <2>2, <3>1
      <3> QED
        BY <3>1, <3>2
    <2> QED
      BY <2>1, <2>2
  <1>2. {next} \union {i + 1 : i \in ids} \subseteq Nat
    OBVIOUS
  <1>3. /\ Beyond(next, ids) \in {next} \union {i + 1 : i \in ids}
        /\ Beyond(next, ids) >= next /\ \A i \in ids : i < Beyond(next, ids)
    BY <1>1, Zenon DEF Beyond
  <1> QED
    BY <1>2, <1>3

-----------------------------------------------------------------------------
(* The operations left of the open transaction.                            *)

LEMMA ScriptHeads ==
    \A o \in Script : /\ o.op # "release"
                      /\ o.op # "try" => Plain(o)
                      /\ o.op = "try" => IsSeq(o.body) /\ \A i \in DOMAIN o.body : Plain(o.body[i])
  BY RequestsAssumption DEF Plain, IsSeq

LEMMA PlainHeads == \A o : Plain(o) => o.op # "release" /\ o.op # "try" /\ o.table \in Tables
  BY DEF Plain

(* What the first operation is says where it stands.                       *)
LEMMA HeadOf ==
    ASSUME RequestInv, StoreInv, ops # <<>>
    PROVE  /\ Head(ops).op \notin {"try", "release"} => Plain(Head(ops))
           /\ Head(ops).op = "try" => Left(0) /\ Head(ops) \in Script
           /\ Head(ops).op = "release" => Left(1)
           /\ InTransaction
           /\ Len(ops) \in Nat \ {0} /\ Head(ops) = ops[1]
  <1>1. PICK k \in 0..Len(ops) : Left(k)
    BY DEF RequestInv
  <1>2. Len(ops) \in Nat \ {0} /\ Head(ops) = ops[1]
    BY TailOf DEF RequestInv
  <1>3. Release.op = "release"
    BY DEF Release
  <1>4. CASE k = 0
    <2>1. Head(ops) \in Script
      BY <1>1, <1>2, <1>4 DEF Left
    <2> QED
      BY <1>1, <1>2, <1>4, <2>1, ScriptHeads DEF RequestInv
  <1>5. CASE k = 1
    BY <1>1, <1>2, <1>3, <1>5 DEF RequestInv, Left
  <1>6. CASE k > 1
    <2>1. Plain(Head(ops))
      BY <1>1, <1>2, <1>6 DEF Left
    <2> QED
      BY <1>2, <2>1, PlainHeads DEF RequestInv
  <1> QED
    BY <1>1, <1>4, <1>5, <1>6

LEMMA OpsStep ==
    ASSUME RequestInv, StoreInv, ops # <<>>, Head(ops).op \notin {"try", "release"},
           ops' = Tail(ops), UNCHANGED <<levels, req, todo>>, guards' \subseteq Tables
    PROVE  RequestInv'
  <1>1. PICK k \in 0..Len(ops) : Left(k)
    BY DEF RequestInv
  <1>2. /\ IsSeq(ops') /\ Len(ops) \in Nat \ {0} /\ Len(ops') = Len(ops) - 1
        /\ \A i \in 1..(Len(ops) - 1) : ops'[i] = ops[i + 1] /\ Head(ops) = ops[1]
    BY TailOf DEF RequestInv
  <1>3. k # 1
    <2>1. Release.op = "release"
      BY DEF Release
    <2>2. Head(ops) = ops[1]
      BY TailOf DEF RequestInv
    <2> QED
      BY <1>1, <2>1, <2>2 DEF Left
  <1>4. CASE k = 0
    <2>1. Left(0)'
      <3>1. \A i \in 1..Len(ops') : ops'[i] \in Script
        BY <1>1, <1>2, <1>4 DEF Left
      <3> QED
        BY <1>1, <1>2, <1>4, <3>1 DEF Left
    <2>2. 0 \in 0..Len(ops')
      BY <1>2
    <2> QED
      BY <1>2, <2>1, <2>2 DEF RequestInv, InTransaction
  <1>5. CASE k > 1
    <2>1. Left(k - 1)'
      <3>1. \A i \in 1..Len(ops') : /\ i < k - 1 => Plain(ops'[i])
                                    /\ i > k - 1 => ops'[i] \in Script
        BY <1>1, <1>2, <1>5 DEF Left
      <3>2. ops'[k - 1] = Release
        BY <1>1, <1>2, <1>5 DEF Left
      <3> QED
        BY <1>1, <1>2, <1>5, <3>1, <3>2 DEF Left
    <2>2. k - 1 \in 0..Len(ops')
      BY <1>1, <1>2, <1>5
    <2> QED
      BY <1>2, <2>1, <2>2 DEF RequestInv, InTransaction
  <1> QED
    BY <1>1, <1>3, <1>4, <1>5

(* A thrown script goes on after the savepoint's end.                      *)
LEMMA AfterReleaseOf ==
    ASSUME RequestInv, Len(levels) = 2
    PROVE  /\ IsSeq(AfterRelease) /\ Len(AfterRelease) \in Nat
           /\ \A i \in 1..Len(AfterRelease) : AfterRelease[i] \in Script
  <1>1. PICK k \in 0..Len(ops) : Left(k)
    BY DEF RequestInv
  <1>2. k > 0 /\ ops[k] = Release
    BY <1>1 DEF Left
  <1>3. Len(ops) \in Nat /\ DOMAIN ops = 1..Len(ops)
    BY DEF RequestInv, IsSeq
  <1>4. \A i \in DOMAIN ops : ops[i] = Release => i = k
    <2> SUFFICES ASSUME NEW i \in DOMAIN ops, ops[i] = Release, i # k PROVE FALSE
      OBVIOUS
    <2>1. ops[i].op = "release"
      BY DEF Release
    <2>2. i < k \/ i > k
      BY <1>1, <1>3
    <2> QED
      BY <1>1, <1>3, <2>1, <2>2, ScriptHeads, PlainHeads DEF Left
  <1>5. (CHOOSE i \in DOMAIN ops : ops[i] = Release) = k
    BY <1>1, <1>2, <1>3, <1>4
  <1>6. AfterRelease = SubSeq(ops, k + 1, Len(ops))
    BY <1>5 DEF AfterRelease
  <1>7. \A S : \A u \in Seq(S) : \A m \in 0..Len(u) :
            /\ SubSeq(u, m + 1, Len(u)) \in Seq(S) /\ Len(SubSeq(u, m + 1, Len(u))) = Len(u) - m
            /\ \A i \in 1..(Len(u) - m) : SubSeq(u, m + 1, Len(u))[i] = u[m + i]
    OBVIOUS
  <1>8. /\ AfterRelease \in Seq(Range(ops)) /\ Len(AfterRelease) = Len(ops) - k
        /\ \A i \in 1..(Len(ops) - k) : AfterRelease[i] = ops[k + i]
    BY <1>1, <1>6, <1>7 DEF RequestInv, IsSeq
  <1>9. \A i \in 1..Len(AfterRelease) : AfterRelease[i] \in Script
    BY <1>1, <1>3, <1>8 DEF Left
  <1> QED
    BY <1>1, <1>3, <1>8, <1>9, OwnRange

(* A script's own block is put before the rest, with the savepoint's end.  *)
LEMMA BlockOpens ==
    ASSUME NEW body, IsSeq(body), \A i \in DOMAIN body : Plain(body[i]),
           NEW rest, IsSeq(rest), \A i \in DOMAIN rest : rest[i] \in Script
    PROVE  LET new == body \o <<Release>> \o rest
           IN /\ IsSeq(new) /\ Len(body) + 1 \in 1..Len(new) /\ Len(new) \in Nat
              /\ new[Len(body) + 1] = Release
              /\ \A i \in 1..Len(new) : /\ i < Len(body) + 1 => Plain(new[i])
                                        /\ i > Len(body) + 1 => new[i] \in Script
  <1> DEFINE B == Range(body)  C == Range(rest)  S == B \union {Release} \union C
             first == body \o <<Release>>
             new == first \o rest
  <1>1. \A T : \A u, v \in Seq(T) :
            /\ u \o v \in Seq(T) /\ Len(u \o v) = Len(u) + Len(v) /\ Len(u) \in Nat /\ Len(v) \in Nat
            /\ DOMAIN u = 1..Len(u)
            /\ \A i \in 1..Len(u) : (u \o v)[i] = u[i]
            /\ \A i \in 1..Len(v) : (u \o v)[Len(u) + i] = v[i]
    OBVIOUS
  <1>2. body \in Seq(S) /\ rest \in Seq(S) /\ <<Release>> \in Seq(S)
        /\ Len(<<Release>>) = 1 /\ <<Release>>[1] = Release
    BY DEF IsSeq
  <1> HIDE DEF B, C, S
  <1>3. /\ first \in Seq(S) /\ Len(first) = Len(body) + 1 /\ Len(body) \in Nat
        /\ \A i \in 1..Len(body) : first[i] = body[i]
        /\ first[Len(body) + 1] = Release /\ DOMAIN body = 1..Len(body)
    BY <1>1, <1>2
  <1> HIDE DEF first
  <1>4. /\ new \in Seq(S) /\ Len(new) = Len(first) + Len(rest) /\ Len(rest) \in Nat
        /\ \A i \in 1..Len(first) : new[i] = first[i]
        /\ \A i \in 1..Len(rest) : new[Len(first) + i] = rest[i]
        /\ DOMAIN rest = 1..Len(rest)
    <2>1. first \in Seq(S) /\ rest \in Seq(S)
      BY <1>2, <1>3
    <2> QED
      BY <1>1, <2>1
  <1>5. IsSeq(new)
    BY <1>4, OwnRange
  <1> HIDE DEF new
  <1>6. \A i \in 1..Len(new) : i < Len(body) + 1 => Plain(new[i])
    <2> SUFFICES ASSUME NEW i \in 1..Len(new), i < Len(body) + 1 PROVE Plain(new[i])
      OBVIOUS
    <2>1. i \in 1..Len(body) /\ i \in 1..Len(first)
      BY <1>3, <1>4
    <2>2. new[i] = body[i] /\ i \in DOMAIN body
      BY <1>3, <1>4, <2>1
    <2> QED
      BY <2>2
  <1>7. \A i \in 1..Len(new) : i > Len(body) + 1 => new[i] \in Script
    <2> SUFFICES ASSUME NEW i \in 1..Len(new), i > Len(body) + 1 PROVE new[i] \in Script
      OBVIOUS
    <2>1. i - Len(first) \in 1..Len(rest) /\ i = Len(first) + (i - Len(first))
      BY <1>3, <1>4
    <2> QED
      BY <1>4, <2>1
  <1>8. Len(body) + 1 \in 1..Len(new) /\ Len(new) \in Nat /\ new[Len(body) + 1] = Release
    BY <1>3, <1>4
  <1>9. body \o <<Release>> \o rest = new
    BY DEF new, first
  <1> QED
    BY <1>5, <1>6, <1>7, <1>8, <1>9, Zenon

-----------------------------------------------------------------------------
(* The calls that delete rows, as a stack.                                 *)

LEMMA FramesEmpty == \A g, u : FramesFit(<<>>, {}, g, u)
  <1>1. <<>> \in Seq(Range(<<>>)) /\ Len(<<>>) = 0 /\ DOMAIN <<>> = {}
    BY DEF Range
  <1> QED
    BY <1>1, FS_EmptySet DEF FramesFit, IsSeq

LEMMA FramesMore ==
    ASSUME NEW fs, NEW keys, NEW g, NEW u, FramesFit(fs, keys, g, u), NEW h, g \subseteq h
    PROVE  FramesFit(fs, keys, h, u)
  BY DEF FramesFit, FrameFits

LEMMA FramesPushed ==
    ASSUME NEW fs, NEW keys, NEW g, NEW u, FramesFit(fs, keys, g, u),
           NEW f, FrameFits(f, g, u), Key(f) \notin keys
    PROVE  FramesFit(Append(fs, f), keys \union {Key(f)}, g, u)
  <1> DEFINE new == Append(fs, f)  n == Len(fs) + 1
  <1>1. /\ IsSeq(new) /\ Len(fs) \in Nat /\ Len(new) = Len(fs) + 1 /\ DOMAIN fs = 1..Len(fs)
        /\ DOMAIN new = 1..(Len(fs) + 1)
        /\ \A i \in 1..Len(fs) : new[i] = fs[i]
        /\ new[Len(fs) + 1] = f
    BY AppendTo DEF FramesFit
  <1> HIDE DEF new
  <1>2. /\ \A i \in DOMAIN new : i = n \/ i \in DOMAIN fs
        /\ \A i \in DOMAIN fs : i \in DOMAIN new /\ i # n /\ new[i] = fs[i]
        /\ n \in DOMAIN new /\ new[n] = f
    BY <1>1
  <1> HIDE DEF n
  <1>3. /\ \A i \in DOMAIN fs : FrameFits(fs[i], g, u) /\ Key(fs[i]) \in keys
        /\ \A x \in keys : \E i \in DOMAIN fs : x = Key(fs[i])
        /\ \A i, j \in DOMAIN fs : Key(fs[i]) = Key(fs[j]) => i = j
        /\ IsFiniteSet(keys) /\ Cardinality(keys) = Len(fs)
    BY DEF FramesFit
  <1>4. \A i \in DOMAIN new : FrameFits(new[i], g, u) /\ Key(new[i]) \in keys \union {Key(f)}
    BY <1>2, <1>3
  <1>5. keys \union {Key(f)} = {Key(new[i]) : i \in DOMAIN new}
    BY <1>2, <1>3, <1>4
  <1>6. \A i, j \in DOMAIN new : Key(new[i]) = Key(new[j]) => i = j
    BY <1>2, <1>3
  <1>7. IsFiniteSet(keys \union {Key(f)}) /\ Cardinality(keys \union {Key(f)}) = Len(fs) + 1
    BY <1>3, FS_AddElement
  <1> QED
    BY <1>1, <1>4, <1>5, <1>6, <1>7 DEF FramesFit, new

LEMMA FramesPopped ==
    ASSUME NEW fs, NEW keys, NEW g, NEW u, FramesFit(fs, keys, g, u), fs # <<>>
    PROVE  /\ FramesFit(Front(fs), keys \ {Key(Last(fs))}, g, u)
           /\ FrameFits(Last(fs), g, u) /\ Key(Last(fs)) \in keys
  <1> DEFINE new == Front(fs)  n == Len(fs)  key == Key(Last(fs))
  <1>1. /\ IsSeq(new)
        /\ Len(fs) \in Nat \ {0} /\ Len(new) = Len(fs) - 1 /\ DOMAIN fs = 1..Len(fs)
        /\ DOMAIN new = 1..(Len(fs) - 1)
        /\ \A i \in 1..(Len(fs) - 1) : new[i] = fs[i]
        /\ Last(fs) = fs[Len(fs)] /\ Len(fs) \in DOMAIN fs
    BY FrontOf DEF FramesFit
  <1> HIDE DEF new
  <1>2. /\ \A i \in DOMAIN new : i \in DOMAIN fs /\ i # n /\ new[i] = fs[i]
        /\ \A i \in DOMAIN fs : i = n \/ i \in DOMAIN new
        /\ n \in DOMAIN fs /\ Last(fs) = fs[n]
    BY <1>1
  <1> HIDE DEF n
  <1>3. /\ \A i \in DOMAIN fs : FrameFits(fs[i], g, u) /\ Key(fs[i]) \in keys
        /\ \A x \in keys : \E i \in DOMAIN fs : x = Key(fs[i])
        /\ \A i, j \in DOMAIN fs : Key(fs[i]) = Key(fs[j]) => i = j
        /\ IsFiniteSet(keys) /\ Cardinality(keys) = Len(fs)
    BY DEF FramesFit
  <1>4. FrameFits(Last(fs), g, u) /\ key = Key(fs[n]) /\ key \in keys
    BY <1>2, <1>3
  <1> HIDE DEF key
  <1>5. /\ \A i \in DOMAIN new : FrameFits(new[i], g, u) /\ Key(new[i]) \in keys \ {key}
        /\ \A x \in keys \ {key} : \E i \in DOMAIN new : x = Key(new[i])
        /\ \A i, j \in DOMAIN new : Key(new[i]) = Key(new[j]) => i = j
    BY <1>2, <1>3, <1>4
  <1>6. keys \ {key} = {Key(new[i]) : i \in DOMAIN new}
    BY <1>5
  <1>7. IsFiniteSet(keys \ {key}) /\ Cardinality(keys \ {key}) = Len(fs) - 1
    BY <1>3, <1>4, FS_RemoveElement
  <1>8. FramesFit(new, keys \ {key}, g, u)
    BY <1>1, <1>5, <1>6, <1>7 DEF FramesFit
  <1> QED
    BY <1>4, <1>8 DEF new, key

LEMMA FramesReplaced ==
    ASSUME NEW fs, NEW keys, NEW g, NEW u, FramesFit(fs, keys, g, u), fs # <<>>,
           NEW f, FrameFits(f, g, u), Key(f) = Key(Last(fs))
    PROVE  FramesFit(Append(Front(fs), f), keys, g, u)
  <1> DEFINE less == keys \ {Key(f)}
  <1>1. FramesFit(Front(fs), less, g, u) /\ Key(f) \in keys
    BY FramesPopped
  <1>2. Key(f) \notin less /\ less \union {Key(f)} = keys
    BY <1>1
  <1> HIDE DEF less
  <1>3. FramesFit(Append(Front(fs), f), less \union {Key(f)}, g, u)
    BY <1>1, <1>2, FramesPushed
  <1> QED
    BY <1>2, <1>3

-----------------------------------------------------------------------------
(* Steps of the machine that the actions share.                            *)

LEMMA MachineStill ==
    ASSUME MachineInv, UNCHANGED <<store, levels, guards, frames, deleting, req, todo, ops>>
    PROVE  MachineInv'
  <1>1. StoreInv'
    BY DEF MachineInv, StoreInv
  <1>2. ReachInv'
    BY DEF MachineInv, ReachInv, InTransaction
  <1>3. RequestInv'
    BY DEF MachineInv, RequestInv, InTransaction, Left
  <1>4. FrameInv'
    BY DEF MachineInv, FrameInv, InTransaction
  <1> QED
    BY <1>1, <1>2, <1>3, <1>4 DEF MachineInv

(* The open transaction writes to its store, and guards what it writes.    *)
LEMMA StoreStep ==
    ASSUME StoreInv, ReachInv, InTransaction, UNCHANGED <<levels, req>>,
           StoreFits(store'), guards \subseteq guards',
           Reached(levels[1], store', guards', req.user)
    PROVE  StoreInv' /\ ReachInv'
  <1>1. StoreInv'
    BY DEF StoreInv
  <1>2. \A i \in DOMAIN levels : Reached(levels[1], levels[i], guards', req.user)
    BY ReachedWithMore DEF ReachInv
  <1>3. ReachInv'
    BY <1>2 DEF ReachInv
  <1> QED
    BY <1>1, <1>3

(* No call is in progress.                                                 *)
LEMMA NoFrames ==
    ASSUME frames' = <<>>, deleting' = {}
    PROVE  FrameInv'
  BY FramesEmpty DEF FrameInv

LEMMA FramesStill ==
    ASSUME FrameInv, UNCHANGED <<levels, req, frames, deleting>>, guards \subseteq guards'
    PROVE  FrameInv'
  <1>1. FramesFit(frames, deleting, guards', req.user)
    BY FramesMore DEF FrameInv
  <1> QED
    BY <1>1 DEF FrameInv, InTransaction

(* An operation that writes: the shape of Writes.                          *)
LEMMA WriteStep ==
    ASSUME MachineInv, frames = <<>>, ops # <<>>, Head(ops).op \notin {"try", "release"},
           NEW t \in Tables, StoreFits(store'), Reached(levels[1], store', guards \union {t}, req.user),
           guards' = guards \union {t}, ops' = Tail(ops), UNCHANGED <<levels, frames, deleting, req, todo>>
    PROVE  MachineInv'
  <1>1. InTransaction
    BY DEF MachineInv, RequestInv
  <1>2. StoreInv' /\ ReachInv'
    BY <1>1, StoreStep DEF MachineInv
  <1>3. guards' \subseteq Tables
    BY DEF MachineInv, RequestInv
  <1>4. RequestInv'
    BY <1>3, OpsStep DEF MachineInv
  <1>5. FrameInv'
    BY FramesStill DEF MachineInv
  <1> QED
    BY <1>2, <1>4, <1>5 DEF MachineInv

LEMMA NoOps ==
    /\ IsSeq(<<>>) /\ Len(<<>>) = 0
    /\ \A i \in 1..0 : FALSE
  BY DEF IsSeq, Range

(* Nothing is open: no operation is left, and the request may go on.       *)
LEMMA Closed ==
    ASSUME levels' = <<>>, ops' = <<>>, guards' \subseteq Tables, frames' = <<>>, deleting' = {},
           StoreFits(store'), req' # None => req' \in Sent, todo' \in Seq(Seq(Script))
    PROVE  MachineInv'
  <1>1. StoreInv'
    BY NoOps DEF StoreInv
  <1>2. ReachInv'
    BY DEF ReachInv, InTransaction
  <1>3. Left(0)'
    BY NoOps DEF Left
  <1>4. RequestInv'
    BY <1>3, NoOps DEF RequestInv, InTransaction
  <1> QED
    BY <1>1, <1>2, <1>4, NoFrames DEF MachineInv

LEMMA LevelsOf ==
    ASSUME StoreInv, InTransaction
    PROVE  /\ Len(levels) \in {1, 2} /\ DOMAIN levels = 1..Len(levels)
           /\ IsSeq(Front(levels)) /\ Len(Front(levels)) = Len(levels) - 1
           /\ Last(levels) = levels[Len(levels)]
           /\ Len(levels) = 1 => Front(levels) = <<>>
           /\ Len(levels) = 2 => Front(levels) # <<>> /\ Front(levels)[1] = levels[1]
  <1>1. IsSeq(levels) /\ levels # <<>> /\ Len(levels) <= 2
    BY DEF StoreInv, InTransaction
  <1>2. /\ IsSeq(Front(levels))
        /\ Len(levels) \in Nat \ {0} /\ Len(Front(levels)) = Len(levels) - 1 /\ DOMAIN levels = 1..Len(levels)
        /\ \A i \in 1..(Len(levels) - 1) : Front(levels)[i] = levels[i]
        /\ Last(levels) = levels[Len(levels)]
    BY <1>1, FrontOf
  <1>3. Len(levels) = 1 => Front(levels) = <<>>
    BY <1>2 DEF IsSeq
  <1>4. Len(levels) = 2 => Front(levels) # <<>>
    BY <1>2, NoOps
  <1> QED
    BY <1>1, <1>2, <1>3, <1>4

LEMMA UnwindStep ==
    ASSUME MachineInv, InTransaction, NEW left, guards \subseteq left, left \subseteq Tables,
           Unwind(left)
    PROVE  MachineInv'
  <1>1. /\ Len(levels) \in {1, 2} /\ DOMAIN levels = 1..Len(levels)
        /\ IsSeq(Front(levels)) /\ Len(Front(levels)) = Len(levels) - 1
        /\ Last(levels) = levels[Len(levels)]
        /\ Len(levels) = 1 => Front(levels) = <<>>
        /\ Len(levels) = 2 => Front(levels) # <<>> /\ Front(levels)[1] = levels[1]
    BY LevelsOf DEF MachineInv
  <1>2. /\ frames' = <<>> /\ deleting' = {} /\ store' = Last(levels) /\ levels' = Front(levels)
        /\ req' = req
    BY DEF Unwind
  <1>3. StoreFits(store')
    BY <1>1, <1>2 DEF MachineInv, StoreInv
  <1>4. req' # None => req' \in Sent
    BY <1>2 DEF MachineInv, RequestInv
  <1>5. CASE Len(levels) = 1
    <2>1. ops' = <<>> /\ guards' = {} /\ todo' = IF req.isolated THEN todo ELSE <<>>
      BY <1>5 DEF Unwind
    <2>2. todo' \in Seq(Seq(Script))
      BY <2>1 DEF MachineInv, RequestInv
    <2> QED
      BY <1>1, <1>2, <1>3, <1>4, <1>5, <2>1, <2>2, Closed
  <1>6. CASE Len(levels) = 2
    <2>1. ops' = AfterRelease /\ guards' = left /\ todo' = todo
      BY <1>6 DEF Unwind
    <2>2. /\ IsSeq(levels') /\ Len(levels') = 1 /\ levels' # <<>> /\ levels'[1] = levels[1]
          /\ DOMAIN levels' = {1}
      <3>1. IsSeq(levels') /\ Len(levels') = 1 /\ levels' # <<>> /\ levels'[1] = levels[1]
        BY <1>1, <1>2, <1>6
      <3>2. DOMAIN levels' = 1..1
        BY <3>1, FrontOf
      <3> QED
        BY <3>1, <3>2
    <2>3. StoreInv'
      BY <1>1, <1>3, <2>2 DEF MachineInv, StoreInv
    <2>4. ReachInv'
      <3>1. Reached(levels[1], levels[1], guards, req.user) /\ Reached(levels[1], levels[2], guards, req.user)
        BY <1>1, <1>6 DEF MachineInv, ReachInv
      <3>2. Reached(levels[1], levels[1], left, req.user) /\ Reached(levels[1], levels[2], left, req.user)
        BY <3>1, ReachedWithMore
      <3> QED
        BY <1>1, <1>2, <1>6, <2>1, <2>2, <3>2 DEF ReachInv
    <2>5. RequestInv'
      <3>1. IsSeq(ops') /\ Len(ops') \in Nat /\ \A i \in 1..Len(ops') : ops'[i] \in Script
        BY <1>6, <2>1, AfterReleaseOf DEF MachineInv
      <3>2. Left(0)'
        BY <2>2, <3>1 DEF Left
      <3>3. req # None
        BY DEF MachineInv, RequestInv, InTransaction
      <3> QED
        BY <1>2, <1>4, <2>1, <2>2, <3>1, <3>2, <3>3 DEF MachineInv, RequestInv, InTransaction
    <2> QED
      BY <1>2, <2>3, <2>4, <2>5, NoFrames DEF MachineInv
  <1> QED
    BY <1>1, <1>5, <1>6

LEMMA FailsStep ==
    ASSUME MachineInv, InTransaction, NEW ok, NEW t \in Tables, Fails(ok, t)
    PROVE  MachineInv'
  <1>1. PICK left \in {guards, guards \union {u \in {t} : Writable(u)}} : Unwind(left)
    BY DEF Fails
  <1>2. guards \subseteq left /\ left \subseteq Tables
    BY DEF MachineInv, RequestInv
  <1> QED
    BY <1>1, <1>2, UnwindStep

LEMMA ThrowStep ==
    ASSUME MachineInv, InTransaction, Throw
    PROVE  MachineInv'
  <1>1. guards \subseteq Tables
    BY DEF MachineInv, RequestInv
  <1> QED
    BY <1>1, UnwindStep DEF Throw

-----------------------------------------------------------------------------
(* Transactions, savepoints and the operations that write one row.         *)

LEMMA NothingOpen ==
    ASSUME MachineInv, ~InTransaction
    PROVE  levels = <<>> /\ ops = <<>> /\ frames = <<>> /\ deleting = {}
  <1>1. levels = <<>> /\ ops = <<>> /\ frames = <<>>
    BY DEF MachineInv, RequestInv, FrameInv, InTransaction
  <1>2. DOMAIN <<>> = {}
    OBVIOUS
  <1> QED
    BY <1>1, <1>2 DEF MachineInv, FrameInv, FramesFit

LEMMA BeginStep == ASSUME MachineInv, Begin PROVE MachineInv'
  <1>1. /\ req # None /\ ~InTransaction /\ todo # <<>>
        /\ levels' = <<store>> /\ ops' = Head(todo) /\ todo' = Tail(todo)
        /\ UNCHANGED <<store, guards, frames, deleting, req>>
    BY DEF Begin
  <1>2. frames' = <<>> /\ deleting' = {}
    BY <1>1, NothingOpen
  <1>3. IsSeq(<<store>>) /\ Len(<<store>>) = 1 /\ DOMAIN <<store>> = {1} /\ <<store>>[1] = store
        /\ <<store>> # <<>>
    <2>1. <<store>> \in Seq({store}) /\ Len(<<store>>) = 1 /\ <<store>>[1] = store /\ <<store>> # <<>>
      OBVIOUS
    <2>2. IsSeq(<<store>>)
      BY <2>1, OwnRange, Zenon
    <2>3. DOMAIN <<store>> = {1}
      OBVIOUS
    <2> QED
      BY <2>1, <2>2, <2>3
  <1>4. ops' \in Seq(Script) /\ todo' \in Seq(Seq(Script))
    BY <1>1 DEF MachineInv, RequestInv
  <1>5. IsSeq(ops') /\ Len(ops') \in Nat /\ \A i \in 1..Len(ops') : ops'[i] \in Script
    BY <1>4, OwnRange
  <1>6. StoreInv'
    BY <1>1, <1>3 DEF MachineInv, StoreInv
  <1>7. ReachInv'
    BY <1>1, <1>3, ReachedItself DEF MachineInv, StoreInv, ReachInv
  <1>8. Left(0)'
    BY <1>1, <1>3, <1>5 DEF Left
  <1>9. RequestInv'
    BY <1>1, <1>3, <1>4, <1>5, <1>8 DEF MachineInv, RequestInv, InTransaction
  <1> QED
    BY <1>2, <1>6, <1>7, <1>9, NoFrames DEF MachineInv

LEMMA CommitStep == ASSUME MachineInv, Commit PROVE MachineInv'
  <1>1. CASE GuardsHold
    <2>1. /\ levels' = <<>> /\ guards' = {} /\ frames' = <<>> /\ ops' = <<>>
          /\ UNCHANGED <<store, deleting, req, todo>>
      BY <1>1 DEF Commit
    <2>2. DOMAIN <<>> = {}
      OBVIOUS
    <2>3. deleting' = {}
      BY <2>1, <2>2 DEF Commit, MachineInv, FrameInv, FramesFit
    <2> QED
      BY <2>1, <2>3, Closed DEF MachineInv, StoreInv, RequestInv
  <1>2. CASE ~GuardsHold
    BY <1>2, ThrowStep DEF Commit
  <1> QED
    BY <1>1, <1>2

LEMMA TryStep == ASSUME MachineInv, Try PROVE MachineInv'
  <1>1. /\ InTransaction /\ frames = <<>> /\ ops # <<>> /\ Head(ops).op = "try"
        /\ levels' = Append(levels, store) /\ ops' = Head(ops).body \o <<Release>> \o Tail(ops)
        /\ UNCHANGED <<store, guards, frames, deleting, req, todo>>
    BY DEF Try, Running
  <1>2. Left(0) /\ Head(ops) \in Script
    BY <1>1, HeadOf DEF MachineInv
  <1>3. Len(levels) = 1 /\ DOMAIN levels = {1}
    <2>1. Len(levels) \in {1, 2} /\ DOMAIN levels = 1..Len(levels)
      BY <1>1, LevelsOf DEF MachineInv
    <2>2. Len(levels) # 2
      BY <1>2 DEF Left
    <2> QED
      BY <2>1, <2>2
  <1>4. /\ IsSeq(levels') /\ Len(levels') = 2 /\ DOMAIN levels' = {1, 2} /\ levels' # <<>>
        /\ levels'[1] = levels[1] /\ levels'[2] = store
    <2>1. IsSeq(levels)
      BY DEF MachineInv, StoreInv
    <2> DEFINE more == Append(levels, store)
    <2>2. /\ IsSeq(more) /\ Len(more) = Len(levels) + 1 /\ DOMAIN more = 1..(Len(levels) + 1)
          /\ more # <<>> /\ \A i \in 1..Len(levels) : more[i] = levels[i]
          /\ more[Len(levels) + 1] = store
      BY <2>1, AppendTo
    <2>3. levels' = more
      BY <1>1
    <2> HIDE DEF more
    <2> QED
      BY <1>3, <2>2, <2>3
  <1>5. StoreInv'
    BY <1>1, <1>3, <1>4 DEF MachineInv, StoreInv
  <1>6. ReachInv'
    BY <1>1, <1>3, <1>4 DEF MachineInv, ReachInv
  <1>7. /\ IsSeq(Tail(ops)) /\ \A i \in DOMAIN Tail(ops) : Tail(ops)[i] \in Script
    <2>1. /\ IsSeq(Tail(ops)) /\ Len(ops) \in Nat \ {0} /\ Len(Tail(ops)) = Len(ops) - 1
          /\ \A i \in 1..(Len(ops) - 1) : Tail(ops)[i] = ops[i + 1]
      BY <1>1, TailOf DEF MachineInv, RequestInv
    <2>2. DOMAIN Tail(ops) = 1..Len(Tail(ops))
      BY <2>1 DEF IsSeq
    <2> QED
      BY <1>2, <2>1, <2>2 DEF Left
  <1> DEFINE body == Head(ops).body
  <1>8. IsSeq(body) /\ \A i \in DOMAIN body : Plain(body[i])
    BY <1>1, <1>2, ScriptHeads
  <1>9. PICK k \in 1..Len(ops') :
           /\ IsSeq(ops') /\ Len(ops') \in Nat /\ ops'[k] = Release
           /\ \A i \in 1..Len(ops') : /\ i < k => Plain(ops'[i])
                                      /\ i > k => ops'[i] \in Script
    BY <1>1, <1>7, <1>8, BlockOpens
  <1>10. k > 0 /\ k \in 0..Len(ops')
    BY <1>9
  <1>11. RequestInv'
    <2>1. Left(k)'
      BY <1>4, <1>9, <1>10 DEF Left
    <2>2. \E i \in 0..Len(ops') : Left(i)'
      BY <1>10, <2>1
    <2> QED
      BY <1>1, <1>4, <1>9, <2>2 DEF MachineInv, RequestInv, InTransaction
  <1>12. FrameInv'
    BY <1>1, <1>4 DEF MachineInv, FrameInv, InTransaction
  <1> QED
    BY <1>5, <1>6, <1>11, <1>12 DEF MachineInv

LEMMA ReleaseStep == ASSUME MachineInv, ReleaseSavepoint PROVE MachineInv'
  <1>1. /\ InTransaction /\ frames = <<>> /\ ops # <<>> /\ Head(ops).op = "release"
        /\ levels' = Front(levels) /\ ops' = Tail(ops)
        /\ UNCHANGED <<store, guards, frames, deleting, req, todo>>
    BY DEF ReleaseSavepoint, Running
  <1>2. Left(1)
    BY <1>1, HeadOf DEF MachineInv
  <1>3. Len(levels) = 2 /\ DOMAIN levels = 1..2
    BY <1>1, <1>2, LevelsOf DEF MachineInv, Left
  <1>4. IsSeq(levels') /\ Len(levels') = 1 /\ levels' # <<>> /\ levels'[1] = levels[1]
    BY <1>1, <1>3, LevelsOf DEF MachineInv
  <1>5. DOMAIN levels' = {1}
    <2>1. DOMAIN levels' = 1..1
      BY <1>4, FrontOf
    <2> QED
      BY <2>1
  <1>6. StoreInv'
    BY <1>1, <1>3, <1>4, <1>5 DEF MachineInv, StoreInv
  <1>7. ReachInv'
    BY <1>1, <1>3, <1>4, <1>5 DEF MachineInv, ReachInv
  <1>8. /\ IsSeq(ops') /\ Len(ops') \in Nat /\ \A i \in 1..Len(ops') : ops'[i] \in Script
    <2>1. /\ IsSeq(ops') /\ Len(ops) \in Nat \ {0} /\ Len(ops') = Len(ops) - 1
          /\ \A i \in 1..(Len(ops) - 1) : ops'[i] = ops[i + 1]
      BY <1>1, TailOf DEF MachineInv, RequestInv
    <2> QED
      BY <1>2, <2>1 DEF Left
  <1>9. Left(0)'
    BY <1>4, <1>8 DEF Left
  <1>10. RequestInv'
    BY <1>1, <1>4, <1>8, <1>9 DEF MachineInv, RequestInv, InTransaction
  <1>11. FrameInv'
    BY <1>1, <1>4 DEF MachineInv, FrameInv, InTransaction
  <1> QED
    BY <1>6, <1>7, <1>10, <1>11 DEF MachineInv

(* An operation of a script starts with what the machine agrees on.        *)
LEMMA OperationOf ==
    ASSUME MachineInv, NEW kind, Running(kind), kind \notin {"try", "release"}
    PROVE  /\ InTransaction /\ frames = <<>> /\ ops # <<>> /\ Head(ops).op = kind
           /\ Plain(Head(ops)) /\ Head(ops).table \in Tables
           /\ StoreFits(store) /\ StoreFits(levels[1])
           /\ Reached(levels[1], store, guards, req.user)
  <1>1. InTransaction /\ frames = <<>> /\ ops # <<>> /\ Head(ops).op = kind
    BY DEF Running
  <1>2. Plain(Head(ops))
    BY <1>1, HeadOf DEF MachineInv
  <1>3. 1 \in DOMAIN levels
    BY <1>1, LevelsOf DEF MachineInv
  <1> QED
    BY <1>1, <1>2, <1>3, PlainHeads DEF MachineInv, StoreInv, ReachInv

(* One row is inserted or updated, with what the row needs to fit.         *)
LEMMA InsertStep ==
    ASSUME MachineInv, NEW kind, Running(kind), kind \notin {"try", "release"},
           NEW row, Fits(Head(ops).table, row), Allowed(Head(ops).table, "create"),
           NEW tally, NEW ok,
           Writes(ok, Head(ops).table, Inserted(store, Head(ops).table, row), tally)
    PROVE  MachineInv'
  <1> DEFINE t == Head(ops).table
  <1>1. /\ InTransaction /\ frames = <<>> /\ ops # <<>> /\ Head(ops).op = kind /\ t \in Tables
        /\ StoreFits(store) /\ StoreFits(levels[1])
        /\ Reached(levels[1], store, guards, req.user)
    BY OperationOf
  <1>2. Can(req.user, t, "create") /\ Fits(t, row)
    BY DEF Allowed
  <1>3. store' = Inserted(store, t, row) /\ guards' = guards \union {t} /\ ops' = Tail(ops)
        /\ UNCHANGED <<levels, frames, deleting, req, todo>>
    BY DEF Writes
  <1> HIDE DEF t
  <1>4. StoreFits(store') /\ Reached(levels[1], store', guards \union {t}, req.user)
    BY <1>1, <1>2, <1>3, InsertedFits, InsertReaches
  <1> QED
    BY <1>1, <1>3, <1>4, WriteStep

LEMMA UpdateStep ==
    ASSUME MachineInv, NEW kind, Running(kind), kind \notin {"try", "release"},
           NEW row, NEW id, Fits(Head(ops).table, row), Allowed(Head(ops).table, "update"),
           NEW tally, NEW ok,
           Writes(ok, Head(ops).table, Updated(store, Head(ops).table, id, row), tally)
    PROVE  MachineInv'
  <1> DEFINE t == Head(ops).table
  <1>1. /\ InTransaction /\ frames = <<>> /\ ops # <<>> /\ Head(ops).op = kind /\ t \in Tables
        /\ StoreFits(store) /\ StoreFits(levels[1])
        /\ Reached(levels[1], store, guards, req.user)
    BY OperationOf
  <1>2. Can(req.user, t, "update") /\ Fits(t, row)
    BY DEF Allowed
  <1>3. store' = Updated(store, t, id, row) /\ guards' = guards \union {t} /\ ops' = Tail(ops)
        /\ UNCHANGED <<levels, frames, deleting, req, todo>>
    BY DEF Writes
  <1> HIDE DEF t
  <1>4. StoreFits(store') /\ Reached(levels[1], store', guards \union {t}, req.user)
    BY <1>1, <1>2, <1>3, UpdatedFits, UpdateReaches
  <1> QED
    BY <1>1, <1>3, <1>4, WriteStep

LEMMA FailedOperation ==
    ASSUME MachineInv, NEW kind, Running(kind), kind \notin {"try", "release"},
           NEW ok, Fails(ok, Head(ops).table)
    PROVE  MachineInv'
  BY OperationOf, FailsStep

LEMMA InsertOpStep == ASSUME MachineInv, InsertOp PROVE MachineInv'
  <1> DEFINE o == Head(ops)
             row == SetMany(NewRecord(o.table), WritableBody(o.table, o.values))
             ok == /\ BodyAccepted(o.table, o.values, "create")
                   /\ Allowed(o.table, "create") /\ Valid(o.table, row)
  <1>1. Running("insert")
    BY DEF InsertOp
  <1>2. \/ Writes(ok, o.table, Inserted(store, o.table, row), "inserted")
        \/ Fails(ok, o.table)
    BY DEF InsertOp
  <1>3. Fits(o.table, row)
    BY <1>1, OperationOf, NewRecordFits, WritableBodyHasNoMasks, SetManyFits
  <1>4. CASE Writes(ok, o.table, Inserted(store, o.table, row), "inserted")
    <2>1. Allowed(o.table, "create")
      BY <1>4 DEF Writes
    <2> QED
      BY <1>1, <1>3, <1>4, <2>1, InsertStep
  <1>5. CASE Fails(ok, o.table)
    BY <1>1, <1>5, FailedOperation
  <1> QED
    BY <1>2, <1>4, <1>5

LEMMA StoredRowFits ==
    ASSUME MachineInv, NEW t \in Tables, NEW id \in DOMAIN store.rows[t]
    PROVE  id \in Nat /\ Fits(t, store.rows[t][id])
  BY DEF MachineInv, StoreInv, StoreFits

LEMMA PatchOpStep == ASSUME MachineInv, PatchOp PROVE MachineInv'
  <1> DEFINE o == Head(ops)
             row == SetMany(store.rows[o.table][o.id], WritableBody(o.table, o.values))
             ok == /\ o.id \in DOMAIN store.rows[o.table] /\ Allowed(o.table, "read")
                   /\ BodyAccepted(o.table, o.values, "update")
                   /\ Allowed(o.table, "update") /\ Valid(o.table, row)
  <1>1. Running("patch")
    BY DEF PatchOp
  <1>2. \/ ok /\ Writes(ok, o.table, Updated(store, o.table, o.id, row), "updated")
        \/ Fails(ok, o.table)
    BY DEF PatchOp
  <1>3. CASE ok /\ Writes(ok, o.table, Updated(store, o.table, o.id, row), "updated")
    <2>1. Fits(o.table, row)
      BY <1>1, <1>3, OperationOf, StoredRowFits, WritableBodyHasNoMasks, SetManyFits
    <2> QED
      BY <1>1, <1>3, <2>1, UpdateStep
  <1>4. CASE Fails(ok, o.table)
    BY <1>1, <1>4, FailedOperation
  <1> QED
    BY <1>2, <1>3, <1>4

(* A row that is looked up by its keys, or a new one.                      *)
LEMMA SelectedIsStored ==
    ASSUME MachineInv, NEW t \in Tables, NEW conditions
    PROVE  LET id == FirstOnly(Select(t, conditions))
           IN Fits(t, IF id = None THEN NewRecord(t) ELSE store.rows[t][id])
  <1> DEFINE ids == Select(t, conditions)
  <1>1. ids \subseteq DOMAIN store.rows[t]
    BY DEF Select
  <1>2. ids \in SUBSET Nat
    BY <1>1, StoredRowFits
  <1> HIDE DEF ids
  <1>3. FirstOnly(ids) # None => FirstOnly(ids) \in ids
    BY <1>2, FirstOnlyOf
  <1>4. Fits(t, IF FirstOnly(ids) = None THEN NewRecord(t) ELSE store.rows[t][FirstOnly(ids)])
    BY <1>1, <1>3, NewRecordFits, StoredRowFits
  <1> QED
    BY <1>4 DEF ids

LEMMA UpsertOpStep == ASSUME MachineInv, UpsertOp PROVE MachineInv'
  <1> DEFINE o == Head(ops)
             mapped == Mapped(o.table, o.values)
             id == FirstOnly(Select(o.table, [f \in {o.key} |-> mapped[f]]))
             operation == IF id = None THEN "create" ELSE "update"
             row == SetMany(IF id = None THEN NewRecord(o.table) ELSE store.rows[o.table][id],
                            WritableBody(o.table, mapped))
             ok == /\ Allowed(o.table, "read") \/ mapped[o.key] = Null
                   /\ BodyAccepted(o.table, mapped, operation)
                   /\ Allowed(o.table, operation) /\ Valid(o.table, row)
  <1>1. Running("upsert")
    BY DEF UpsertOp
  <1>2. \/ id = None /\ Writes(ok, o.table, Inserted(store, o.table, row), "inserted")
        \/ id # None /\ Writes(ok, o.table, Updated(store, o.table, id, row), "updated")
        \/ Fails(ok, o.table)
    BY DEF UpsertOp
  <1>3. Fits(o.table, row)
    <2>1. o.table \in Tables
      BY <1>1, OperationOf
    <2>2. Fits(o.table, IF id = None THEN NewRecord(o.table) ELSE store.rows[o.table][id])
      BY <2>1, SelectedIsStored
    <2> QED
      BY <2>2, WritableBodyHasNoMasks, SetManyFits
  <1>4. CASE id = None /\ Writes(ok, o.table, Inserted(store, o.table, row), "inserted")
    <2>1. Allowed(o.table, "create")
      BY <1>4 DEF Writes
    <2> QED
      BY <1>1, <1>3, <1>4, <2>1, InsertStep
  <1>5. CASE id # None /\ Writes(ok, o.table, Updated(store, o.table, id, row), "updated")
    <2>1. Allowed(o.table, "update")
      BY <1>5 DEF Writes
    <2> QED
      BY <1>1, <1>3, <1>5, <2>1, UpdateStep
  <1>6. CASE Fails(ok, o.table)
    BY <1>1, <1>6, FailedOperation
  <1> QED
    BY <1>2, <1>4, <1>5, <1>6

(* A document has no masks, and its line's own field refers to the header. *)
LEMMA TextsStayUnmasked ==
    ASSUME NEW t \in Tables, NEW f \in FieldNames(t), Field(t, f).type = "string", NEW raw, raw # Mask
    PROVE  ImportValue(t, f, raw) # Mask
  <1>1. PICK i \in DOMAIN Fields[t] : Fields[t][i].name = f
    BY DEF FieldNames
  <1>2. Field(t, f) \in Range(Fields[t]) /\ Field(t, f).name = f
    BY <1>1 DEF Field, Range
  <1>3. <<t, f>> \in FieldsOf(t, TRUE)
    BY <1>2 DEF FieldsOf
  <1>4. <<t, f>> \in Textual
    BY <1>3 DEF Textual
  <1> QED
    BY <1>4, ValuesAssumption DEF ImportValue, String

LEMMA DocumentHasNoMasks ==
    ASSUME NEW o, Plain(o), o.op = "entity", NEW parent, NEW values,
           NEW own, own = (IF o.parent = None THEN <<>> ELSE [f \in {o.parent} |-> parent]),
           NEW S \in SUBSET DOMAIN o.values,
           values = Over(own, [f \in S |-> Mapped(o.table, o.values)[f]])
    PROVE  \A f \in DOMAIN values :
              f \in FieldNames(o.table) /\ Field(o.table, f).secret => values[f] # Mask
  <1>1. SUFFICES ASSUME NEW f \in DOMAIN values, f \in FieldNames(o.table), Field(o.table, f).secret
                 PROVE  values[f] # Mask
    OBVIOUS
  <1>2. f \notin DOMAIN own
    <2>1. CASE o.parent = None
      <3>1. DOMAIN <<>> = {}
        OBVIOUS
      <3> QED
        BY <2>1, <3>1
    <2>2. CASE o.parent # None
      <3>1. Field(o.table, o.parent).type = "reference"
        BY <2>2 DEF Plain
      <3>2. Field(o.table, f).type = "string"
        BY <1>1, TablesAssumption DEF Plain
      <3> QED
        BY <2>2, <3>1, <3>2
    <2> QED
      BY <2>1, <2>2
  <1>3. f \in S /\ values[f] = ImportValue(o.table, f, o.values[f])
    BY <1>2 DEF Over, Mapped
  <1>4. o.table \in Tables /\ Field(o.table, f).type = "string" /\ o.values[f] # Mask
    BY <1>1, <1>3, TablesAssumption DEF Plain
  <1> QED
    BY <1>1, <1>3, <1>4, TextsStayUnmasked

LEMMA EntityOpStep == ASSUME MachineInv, EntityOp PROVE MachineInv'
  <1> DEFINE o == Head(ops)
             own == IF o.parent = None THEN <<>> ELSE [f \in {o.parent} |-> root]
             keys == Over(own, [f \in {o.key} |-> Sought(o.table, f, o.values[f])])
             id == FirstOnly(Select(o.table, keys))
             operation == IF id = None THEN "create" ELSE "update"
             mapped == Mapped(o.table, o.values)
             values == Over(own, [f \in {g \in DOMAIN mapped : Editable(o.table, g, operation)} |-> mapped[f]])
             row == SetMany(IF id = None THEN NewRecord(o.table) ELSE store.rows[o.table][id], values)
             ok == /\ o.values[o.key] # Null
                   /\ \A f \in DOMAIN values : values[f] # NaN
                   /\ Allowed(o.table, "read") /\ Allowed(o.table, operation) /\ Valid(o.table, row)
  <1>1. Running("entity")
    BY DEF EntityOp
  <1>2. \/ id = None /\ Writes(ok, o.table, Inserted(store, o.table, row), "inserted")
        \/ id # None /\ Writes(ok, o.table, Updated(store, o.table, id, row), "updated")
        \/ Fails(ok, o.table)
    BY DEF EntityOp
  <1>3. Fits(o.table, row)
    <2>1. o.table \in Tables /\ Plain(o) /\ o.op = "entity"
      BY <1>1, OperationOf
    <2>2. Fits(o.table, IF id = None THEN NewRecord(o.table) ELSE store.rows[o.table][id])
      BY <2>1, SelectedIsStored
    <2>3. \A f \in DOMAIN values : f \in FieldNames(o.table) /\ Field(o.table, f).secret => values[f] # Mask
      <3>1. {g \in DOMAIN mapped : Editable(o.table, g, operation)} \in SUBSET DOMAIN o.values
        BY DEF Mapped
      <3> QED
        BY <2>1, <3>1, DocumentHasNoMasks
    <2> QED
      BY <2>2, <2>3, SetManyFits
  <1>4. CASE id = None /\ Writes(ok, o.table, Inserted(store, o.table, row), "inserted")
    <2>1. Allowed(o.table, "create")
      BY <1>4 DEF Writes
    <2> QED
      BY <1>1, <1>3, <1>4, <2>1, InsertStep
  <1>5. CASE id # None /\ Writes(ok, o.table, Updated(store, o.table, id, row), "updated")
    <2>1. Allowed(o.table, "update")
      BY <1>5 DEF Writes
    <2> QED
      BY <1>1, <1>3, <1>5, <2>1, UpdateStep
  <1>6. CASE Fails(ok, o.table)
    BY <1>1, <1>6, FailedOperation
  <1> QED
    BY <1>2, <1>4, <1>5, <1>6

-----------------------------------------------------------------------------
(* Record drafts.                                                          *)

LEMMA ReachedByRows ==
    ASSUME NEW base, NEW s, NEW g, NEW u, Reached(base, s, g, u),
           NEW new, new.rows = s.rows, new.next = s.next
    PROVE  Reached(base, new, g, u)
  BY DEF Reached

LEMMA DraftsFit ==
    ASSUME NEW s, StoreFits(s), NEW drafts, DOMAIN drafts = Tokens,
           \A k \in Tokens : DraftFits(drafts[k], s.born[k])
    PROVE  LET new == [s EXCEPT !.drafts = drafts]
           IN StoreFits(new) /\ new.rows = s.rows /\ new.next = s.next
  <1> DEFINE new == [s EXCEPT !.drafts = drafts]
  <1>1. /\ DOMAIN new = DOMAIN s /\ new.drafts = drafts
        /\ new.rows = s.rows /\ new.next = s.next /\ new.born = s.born
    BY DEF StoreFits
  <1> HIDE DEF new
  <1>2. StoreFits(new)
    BY <1>1 DEF StoreFits
  <1> QED
    BY <1>1, <1>2 DEF new

LEMMA NewDraftFits ==
    ASSUME NEW user, NEW t \in Tables, NEW row, Fits(t, row)
    PROVE  DraftFits(Draft(user, t, row), {})
  <1> DEFINE d == Draft(user, t, row)
  <1>1. /\ DOMAIN d = {"owner", "table", "revision", "expired", "snapshot", "record"}
        /\ d.record = None /\ d.table = t /\ d.snapshot = row
    BY DEF Draft
  <1> HIDE DEF d
  <1>2. DraftFits(d, {})
    BY <1>1 DEF DraftFits
  <1> QED
    BY <1>2 DEF d

LEMMA CreateDraftStep == ASSUME MachineInv, CreateDraft PROVE MachineInv'
  <1> DEFINE o == Head(ops)
             row == SetMany(NewRecord(o.table), WritableBody(o.table, o.values))
             ok == BodyAccepted(o.table, o.values, "create") /\ Allowed(o.table, "create")
             swept == [k \in Tokens |-> IF store.drafts[k].owner # None /\ store.drafts[k].expired
                                        THEN NoDraft ELSE store.drafts[k]]
  <1>1. Running("draft")
    BY DEF CreateDraft
  <1>2. /\ InTransaction /\ frames = <<>> /\ ops # <<>> /\ o.op = "draft" /\ o.table \in Tables
        /\ StoreFits(store) /\ StoreFits(levels[1])
        /\ Reached(levels[1], store, guards, req.user)
    BY <1>1, OperationOf
  <1>3. Fits(o.table, row)
    BY <1>2, NewRecordFits, WritableBodyHasNoMasks, SetManyFits
  <1>4. CASE Fails(ok, o.table)
    BY <1>1, <1>4, FailedOperation
  <1>5. ASSUME NEW k \in Tokens, Fresh(k), ops' = Tail(ops),
               store' = [store EXCEPT !.drafts = [swept EXCEPT ![k] = Draft(req.user, o.table, row)]],
               UNCHANGED <<levels, guards, frames, deleting, req, todo>>
        PROVE  MachineInv'
    <2> DEFINE d == Draft(req.user, o.table, row)
               drafts == [swept EXCEPT ![k] = d]
    <2>1. DraftFits(d, store.born[k])
      BY <1>2, <1>3, <1>5, NewDraftFits DEF Fresh
    <2> HIDE DEF d
    <2>2. \A l \in Tokens : DraftFits(swept[l], store.born[l])
      <3> SUFFICES ASSUME NEW l \in Tokens PROVE DraftFits(swept[l], store.born[l])
        OBVIOUS
      <3>1. DraftFits(store.drafts[l], store.born[l])
        BY <1>2 DEF StoreFits
      <3>2. store.born[l] = {} \/ \E id \in store.born[l] : store.born[l] = {id}
        BY <3>1 DEF DraftFits
      <3>3. swept[l] = NoDraft \/ swept[l] = store.drafts[l]
        OBVIOUS
      <3> QED
        BY <3>1, <3>2, <3>3 DEF DraftFits
    <2>3. DOMAIN swept = Tokens
      OBVIOUS
    <2> HIDE DEF swept
    <2>4. DOMAIN drafts = Tokens /\ \A l \in Tokens : DraftFits(drafts[l], store.born[l])
      BY <2>1, <2>2, <2>3
    <2>5. store' = [store EXCEPT !.drafts = drafts]
      BY <1>5 DEF d, swept
    <2> HIDE DEF drafts
    <2>6. StoreFits(store') /\ store'.rows = store.rows /\ store'.next = store.next
      BY <1>2, <2>4, <2>5, DraftsFit
    <2>7. Reached(levels[1], store', guards, req.user)
      BY <1>2, <2>6, ReachedByRows
    <2>8. StoreInv' /\ ReachInv'
      BY <1>2, <1>5, <2>6, <2>7, StoreStep DEF MachineInv
    <2>9. RequestInv'
      BY <1>2, <1>5, OpsStep DEF MachineInv, RequestInv
    <2>10. FrameInv'
      BY <1>5, FramesStill DEF MachineInv
    <2> QED
      BY <2>8, <2>9, <2>10 DEF MachineInv
  <1> QED
    BY <1>4, <1>5 DEF CreateDraft

LEMMA ConsumedFits ==
    ASSUME NEW s, StoreFits(s), NEW k \in Tokens, s.drafts[k] # NoDraft, s.born[k] = {},
           NEW id \in Nat
    PROVE  LET new == Consumed(s, k, id)
           IN StoreFits(new) /\ new.rows = s.rows /\ new.next = s.next
  <1> DEFINE new == Consumed(s, k, id)
  <1>1. /\ DOMAIN new = DOMAIN s /\ new.rows = s.rows /\ new.next = s.next
        /\ DOMAIN new.drafts = Tokens /\ DOMAIN new.born = Tokens
        /\ new.born[k] = s.born[k] \union {id}
        /\ \A l \in Tokens : l # k => new.drafts[l] = s.drafts[l] /\ new.born[l] = s.born[l]
    BY DEF Consumed, StoreFits
  <1>2. DraftFits(s.drafts[k], s.born[k])
    BY DEF StoreFits
  <1>3. DOMAIN s.drafts[k] = {"owner", "table", "revision", "expired", "snapshot", "record"}
    BY <1>2 DEF DraftFits
  <1>4. DOMAIN new.drafts[k] = DOMAIN s.drafts[k] /\ new.drafts[k].record = id
    BY <1>3 DEF Consumed, StoreFits
  <1>5. id # None
    BY ValuesAssumption
  <1> HIDE DEF new
  <1>6. DraftFits(new.drafts[k], new.born[k])
    BY <1>1, <1>3, <1>4, <1>5 DEF DraftFits
  <1>7. StoreFits(new)
    BY <1>1, <1>6 DEF StoreFits
  <1> QED
    BY <1>1, <1>7 DEF new

LEMMA SaveDraftStep == ASSUME MachineInv, SaveDraft PROVE MachineInv'
  <1> DEFINE o == Head(ops)
             d == store.drafts[o.token]
             usable == /\ d.owner = req.user /\ d.table = o.table /\ ~d.expired
                       /\ BodyAccepted(o.table, o.values, "create") /\ Allowed(o.table, "create")
             again == usable /\ d.record # None
             fresh == usable /\ d.record = None
             row == SetMany(d.snapshot, WritableBody(o.table, o.values))
             ok == IF again THEN Allowed(o.table, "read") /\ d.record \in DOMAIN store.rows[o.table]
                   ELSE fresh /\ d.revision = revision /\ Valid(o.table, row)
             new == Inserted(store, o.table, row)
             id == store.next[o.table]
  <1>1. Running("save")
    BY DEF SaveDraft
  <1>2. /\ InTransaction /\ frames = <<>> /\ ops # <<>> /\ o.op = "save" /\ o.table \in Tables
        /\ Plain(o) /\ StoreFits(store) /\ StoreFits(levels[1])
        /\ Reached(levels[1], store, guards, req.user)
    BY <1>1, OperationOf
  <1>3. \/ ops' = Tail(ops) /\ UNCHANGED <<store, levels, guards, frames, deleting, req, todo>>
        \/ fresh /\ Writes(ok, o.table, Consumed(new, o.token, id), "inserted")
        \/ Fails(ok, o.table)
    BY DEF SaveDraft
  <1>4. CASE ops' = Tail(ops) /\ UNCHANGED <<store, levels, guards, frames, deleting, req, todo>>
    <2>1. StoreInv' /\ ReachInv'
      BY <1>2, <1>4, StoreStep DEF MachineInv
    <2>2. RequestInv'
      BY <1>2, <1>4, OpsStep DEF MachineInv, RequestInv
    <2>3. FrameInv'
      BY <1>4, FramesStill DEF MachineInv
    <2> QED
      BY <2>1, <2>2, <2>3 DEF MachineInv
  <1>5. CASE fresh /\ Writes(ok, o.table, Consumed(new, o.token, id), "inserted")
    <2>1. o.token \in Tokens
      BY <1>2 DEF Plain
    <2>2. d # NoDraft
      <3>1. req # None
        BY <1>2 DEF MachineInv, RequestInv, InTransaction
      <3>2. req.user \in Users
        BY <3>1, RequestsAssumption DEF MachineInv, RequestInv
      <3>3. NoDraft.owner = None /\ None \notin Users
        BY ValuesAssumption DEF NoDraft
      <3> QED
        BY <1>5, <3>2, <3>3
    <2>3. DraftFits(d, store.born[o.token])
      BY <1>2, <2>1 DEF StoreFits
    <2>4. d.table = o.table /\ d.record = None /\ Can(req.user, o.table, "create")
      BY <1>5 DEF Allowed
    <2>5. store.born[o.token] = {} /\ Fits(o.table, d.snapshot)
      BY <2>2, <2>3, <2>4 DEF DraftFits
    <2>6. Fits(o.table, row)
      BY <2>5, WritableBodyHasNoMasks, SetManyFits
    <2>7. StoreFits(new) /\ new.drafts = store.drafts /\ new.born = store.born
      <3>1. StoreFits(Inserted(store, o.table, row))
        BY <1>2, <2>6, InsertedFits
      <3>2. \A r : /\ Inserted(store, o.table, r).drafts = store.drafts
                   /\ Inserted(store, o.table, r).born = store.born
        BY <1>2 DEF Inserted, StoreFits
      <3>3. new.drafts = store.drafts /\ new.born = store.born
        BY <3>2
      <3> QED
        BY <3>1, <3>3
    <2>8. id \in Nat
      BY <1>2 DEF StoreFits
    <2> DEFINE s == Consumed(new, o.token, id)
    <2>9. Reached(levels[1], new, guards \union {o.table}, req.user)
      BY <1>2, <2>4, InsertReaches
    <2>10. new.drafts[o.token] # NoDraft /\ new.born[o.token] = {}
      BY <2>2, <2>5, <2>7
    <2> HIDE DEF new, id, d
    <2>11. StoreFits(s) /\ s.rows = new.rows /\ s.next = new.next
      BY <2>1, <2>7, <2>8, <2>10, ConsumedFits
    <2>12. Reached(levels[1], s, guards \union {o.table}, req.user)
      BY <2>9, <2>11, ReachedByRows
    <2>13. store' = s /\ guards' = guards \union {o.table} /\ ops' = Tail(ops)
           /\ UNCHANGED <<levels, frames, deleting, req, todo>>
      BY <1>5 DEF Writes
    <2> HIDE DEF s
    <2> QED
      BY <1>2, <2>11, <2>12, <2>13, WriteStep
  <1>6. CASE Fails(ok, o.table)
    BY <1>1, <1>6, FailedOperation
  <1> QED
    BY <1>3, <1>4, <1>5, <1>6

-----------------------------------------------------------------------------
(* Deletion.                                                               *)

LEMMA RequestStill ==
    ASSUME RequestInv, UNCHANGED <<levels, req, todo, ops>>, guards' \subseteq Tables
    PROVE  RequestInv'
  BY DEF RequestInv, InTransaction, Left

LEMMA EnterStep ==
    ASSUME MachineInv, InTransaction, NEW t \in Tables, NEW id \in Nat, NEW rest,
           FramesFit(rest, deleting, guards, req.user),
           Enter(t, id, rest), UNCHANGED <<store, levels, req>>
    PROVE  StoreInv' /\ ReachInv' /\ FrameInv' /\ guards' \subseteq Tables
  <1>1. guards' = guards \union {t} /\ Can(req.user, t, "delete")
    BY DEF Enter, EntryAllowed, Allowed
  <1>2. guards \subseteq guards' /\ guards' \subseteq Tables
    BY <1>1 DEF MachineInv, RequestInv
  <1>3. StoreInv' /\ ReachInv'
    <2>1. 1 \in DOMAIN levels
      BY LevelsOf DEF MachineInv
    <2>2. StoreFits(store') /\ Reached(levels[1], store', guards', req.user)
      BY <1>2, ReachedWithMore DEF MachineInv, StoreInv, ReachInv
    <2> QED
      BY <1>2, <2>2, StoreStep DEF MachineInv
  <1>4. FramesFit(rest, deleting, guards', req.user)
    BY <1>2, FramesMore
  <1>5. CASE <<t, id>> \in deleting
    <2>1. frames' = rest /\ deleting' = deleting
      BY <1>5 DEF Enter
    <2>2. FrameInv'
      BY <1>4, <2>1 DEF FrameInv, InTransaction
    <2> QED
      BY <1>2, <1>3, <2>2
  <1>6. CASE <<t, id>> \notin deleting
    <2> DEFINE f == Frame(t, id)
    <2>1. frames' = Append(rest, f) /\ deleting' = deleting \union {<<t, id>>}
      BY <1>6 DEF Enter
    <2>2. /\ DOMAIN f = {"table", "id", "refs", "kids"} /\ f.table = t /\ f.id = id
          /\ f.refs = References(t) /\ f.kids = <<>>
      BY DEF Frame
    <2>3. DOMAIN <<>> = {}
      OBVIOUS
    <2> HIDE DEF f
    <2>4. FrameFits(f, guards', req.user) /\ Key(f) = <<t, id>>
      BY <1>1, <2>2, <2>3 DEF FrameFits, Key
    <2>5. FramesFit(Append(rest, f), deleting \union {Key(f)}, guards', req.user)
      BY <1>4, <1>6, <2>4, FramesPushed
    <2>6. FrameInv'
      BY <2>1, <2>4, <2>5 DEF FrameInv, InTransaction
    <2> QED
      BY <1>2, <1>3, <2>6
  <1> QED
    BY <1>5, <1>6

LEMMA DeleteOpStep == ASSUME MachineInv, DeleteOp PROVE MachineInv'
  <1> DEFINE o == Head(ops)
             ok == /\ o.id \in DOMAIN store.rows[o.table] /\ Allowed(o.table, "read")
                   /\ EntryAllowed(o.table)
  <1>1. Running("delete")
    BY DEF DeleteOp
  <1>2. InTransaction /\ frames = <<>> /\ ops # <<>> /\ o.op = "delete" /\ o.table \in Tables
    BY <1>1, OperationOf
  <1>3. CASE ok /\ Enter(o.table, o.id, <<>>) /\ ops' = Tail(ops) /\ UNCHANGED <<store, levels, req, todo>>
    <2>1. o.id \in Nat
      BY <1>2, <1>3, StoredRowFits
    <2>2. FramesFit(<<>>, deleting, guards, req.user)
      BY <1>2 DEF MachineInv, FrameInv
    <2>3. StoreInv' /\ ReachInv' /\ FrameInv' /\ guards' \subseteq Tables
      BY <1>2, <1>3, <2>1, <2>2, EnterStep
    <2>4. RequestInv'
      BY <1>2, <1>3, <2>3, OpsStep DEF MachineInv
    <2> QED
      BY <2>3, <2>4 DEF MachineInv
  <1>4. CASE ~ok /\ Throw
    BY <1>2, <1>4, ThrowStep
  <1> QED
    BY <1>3, <1>4 DEF DeleteOp

(* The innermost call, with the transaction it runs in.                    *)
LEMMA TopOf ==
    ASSUME MachineInv, frames # <<>>
    PROVE  /\ InTransaction /\ StoreFits(store) /\ StoreFits(levels[1])
           /\ Reached(levels[1], store, guards, req.user)
           /\ FrameFits(Top, guards, req.user) /\ guards \subseteq Tables
  <1>1. InTransaction
    BY DEF MachineInv, FrameInv
  <1>2. 1 \in DOMAIN levels
    BY <1>1, LevelsOf DEF MachineInv
  <1>3. FrameFits(Top, guards, req.user)
    BY FramesPopped DEF MachineInv, FrameInv, Top
  <1> QED
    BY <1>1, <1>2, <1>3 DEF MachineInv, StoreInv, ReachInv, RequestInv

LEMMA NextReferenceOfTop ==
    ASSUME MachineInv, frames # <<>>, Top.refs # {}
    PROVE  NextReference(Top.refs) \in Top.refs /\ From(NextReference(Top.refs)) \in Tables
  BY TopOf, NextReferenceOf DEF FrameFits

(* The innermost call is replaced by one for the same row.                 *)
LEMMA ReplacedStep ==
    ASSUME MachineInv, frames # <<>>, NEW f, NEW g, guards \subseteq g, FrameFits(f, g, req.user),
           Key(f) = Key(Top)
    PROVE  FramesFit(Append(Front(frames), f), deleting, g, req.user)
  <1>1. FramesFit(frames, deleting, g, req.user)
    BY FramesMore DEF MachineInv, FrameInv
  <1> QED
    BY <1>1, FramesReplaced DEF Top

LEMMA FindChildrenStep == ASSUME MachineInv, FindChildren PROVE MachineInv'
  <1> DEFINE r == NextReference(Top.refs)
             kids == Children(r, Top.id)
             f == [Top EXCEPT !.kids = kids, !.refs = IF DOMAIN kids = {} THEN @ \ {r} ELSE @]
  <1>1. frames # <<>> /\ Top.refs # {}
    BY DEF FindChildren
  <1>2. /\ InTransaction /\ StoreFits(store) /\ guards \subseteq Tables
        /\ FrameFits(Top, guards, req.user)
    BY <1>1, TopOf
  <1>3. CASE Throw
    BY <1>2, <1>3, ThrowStep
  <1>4. CASE Replace(f) /\ UNCHANGED <<store, levels, guards, deleting, req, todo, ops>>
    <2>1. r \in Top.refs /\ From(r) \in Tables
      BY <1>1, NextReferenceOfTop
    <2>2. DOMAIN kids \subseteq Nat /\ \A i \in DOMAIN kids : Fits(From(r), kids[i])
      BY <1>2, <2>1 DEF Children, StoreFits
    <2> HIDE DEF kids
    <2>3. DOMAIN Top = {"table", "id", "refs", "kids"}
      BY <1>2 DEF FrameFits
    <2>4. /\ DOMAIN f = DOMAIN Top /\ f.table = Top.table /\ f.id = Top.id /\ f.kids = kids
          /\ f.refs = IF DOMAIN kids = {} THEN Top.refs \ {r} ELSE Top.refs
      BY <2>3
    <2> HIDE DEF f
    <2>5. FrameFits(f, guards, req.user) /\ Key(f) = Key(Top)
      BY <1>1, <1>2, <2>2, <2>4 DEF FrameFits, Key
    <2>6. FramesFit(frames', deleting, guards, req.user)
      BY <1>1, <1>4, <2>5, ReplacedStep DEF Replace
    <2>7. FrameInv'
      BY <1>2, <1>4, <2>6 DEF FrameInv, InTransaction
    <2>8. StoreInv' /\ ReachInv'
      BY <1>1, <1>2, <1>4, TopOf, StoreStep DEF MachineInv
    <2>9. RequestInv'
      BY <1>2, <1>4, RequestStill DEF MachineInv
    <2> QED
      BY <2>7, <2>8, <2>9 DEF MachineInv
  <1> QED
    BY <1>3, <1>4 DEF FindChildren

LEMMA AdvancedFits ==
    ASSUME NEW f, NEW g, NEW u, FrameFits(f, g, u), ~Childless(f)
    PROVE  /\ FrameFits(Advanced(f), g, u) /\ Key(Advanced(f)) = Key(f)
           /\ NextChild(f) \in DOMAIN f.kids /\ NextChild(f) \in Nat /\ f.refs # {}
           /\ Fits(From(NextReference(f.refs)), f.kids[NextChild(f)])
  <1>1. DOMAIN f = {"table", "id", "refs", "kids"} /\ DOMAIN f.kids \in SUBSET Nat
    BY DEF FrameFits
  <1>2. NextChild(f) \in DOMAIN f.kids
    BY <1>1, FirstOnlyOf DEF NextChild, Childless
  <1> DEFINE left == DOMAIN f.kids \ {NextChild(f)}
             a == Advanced(f)
  <1>3. /\ DOMAIN a = DOMAIN f /\ a.table = f.table /\ a.id = f.id
        /\ a.kids = [i \in left |-> f.kids[i]]
        /\ a.refs = IF left = {} THEN f.refs \ {NextReference(f.refs)} ELSE f.refs
    BY <1>1 DEF Advanced
  <1>4. DOMAIN a.kids = left /\ \A i \in left : a.kids[i] = f.kids[i] /\ i \in DOMAIN f.kids
    BY <1>3
  <1> HIDE DEF a, left
  <1>5. FrameFits(a, g, u)
    <2>1. \A i \in DOMAIN a.kids : a.refs # {} /\ Fits(From(NextReference(a.refs)), a.kids[i])
      BY <1>3, <1>4 DEF FrameFits
    <2>2. DOMAIN a.kids \subseteq Nat
      BY <1>1, <1>4
    <2> QED
      BY <1>3, <2>1, <2>2 DEF FrameFits
  <1> QED
    BY <1>1, <1>2, <1>3, <1>5 DEF FrameFits, Key, a

LEMMA NullChildStep == ASSUME MachineInv, NullChild PROVE MachineInv'
  <1> DEFINE r == NextReference(Top.refs)
             t == From(r)
             kid == NextChild(Top)
             row == [Top.kids[kid] EXCEPT ![Column(r).name] = Null]
             ok == Allowed(t, "update") /\ Valid(t, row)
  <1>1. frames # <<>> /\ ~Childless(Top)
    BY DEF NullChild
  <1>2. /\ InTransaction /\ StoreFits(store) /\ StoreFits(levels[1]) /\ guards \subseteq Tables
        /\ FrameFits(Top, guards, req.user)
        /\ Reached(levels[1], store, guards, req.user)
    BY <1>1, TopOf
  <1>3. /\ FrameFits(Advanced(Top), guards, req.user) /\ Key(Advanced(Top)) = Key(Top)
        /\ Top.refs # {} /\ Fits(t, Top.kids[kid])
    BY <1>1, <1>2, AdvancedFits
  <1>4. t \in Tables
    BY <1>1, <1>3, NextReferenceOfTop
  <1>5. CASE Fails(ok, t)
    BY <1>2, <1>4, <1>5, FailsStep
  <1>6. CASE /\ ok /\ store' = Updated(store, t, kid, row)
             /\ guards' = guards \union {t} /\ Replace(Advanced(Top))
             /\ UNCHANGED <<levels, deleting, req, todo, ops>>
    <2>1. Fits(t, row)
      BY <1>3, ValuesAssumption DEF Fits
    <2>2. Can(req.user, t, "update")
      BY <1>6 DEF Allowed
    <2> HIDE DEF r, t, kid, row
    <2>3. StoreFits(store') /\ Reached(levels[1], store', guards', req.user)
      BY <1>2, <1>4, <1>6, <2>1, <2>2, UpdatedFits, UpdateReaches
    <2>4. guards \subseteq guards' /\ guards' \subseteq Tables
      BY <1>2, <1>4, <1>6
    <2>5. StoreInv' /\ ReachInv'
      BY <1>2, <1>6, <2>3, <2>4, StoreStep DEF MachineInv
    <2>6. RequestInv'
      BY <1>6, <2>4, RequestStill DEF MachineInv
    <2>7. FrameFits(Advanced(Top), guards', req.user)
      BY <1>3, <2>4 DEF FrameFits
    <2>8. FramesFit(frames', deleting, guards', req.user)
      BY <1>1, <1>3, <1>6, <2>4, <2>7, ReplacedStep DEF Replace
    <2>9. FrameInv'
      BY <1>2, <1>6, <2>8 DEF FrameInv, InTransaction
    <2> QED
      BY <2>5, <2>6, <2>9 DEF MachineInv
  <1> QED
    BY <1>5, <1>6 DEF NullChild

LEMMA CascadeChildStep == ASSUME MachineInv, CascadeChild PROVE MachineInv'
  <1> DEFINE t == From(NextReference(Top.refs))
             rest == Append(Front(frames), Advanced(Top))
  <1>1. frames # <<>> /\ ~Childless(Top)
    BY DEF CascadeChild
  <1>2. InTransaction /\ guards \subseteq Tables /\ FrameFits(Top, guards, req.user)
    BY <1>1, TopOf
  <1>3. /\ FrameFits(Advanced(Top), guards, req.user) /\ Key(Advanced(Top)) = Key(Top)
        /\ Top.refs # {} /\ NextChild(Top) \in Nat
    BY <1>1, <1>2, AdvancedFits
  <1>4. t \in Tables
    BY <1>1, <1>3, NextReferenceOfTop
  <1>5. CASE Throw
    BY <1>2, <1>5, ThrowStep
  <1>6. CASE Enter(t, NextChild(Top), rest) /\ UNCHANGED <<store, levels, req, todo, ops>>
    <2>1. FramesFit(rest, deleting, guards, req.user)
      BY <1>1, <1>3, ReplacedStep
    <2> HIDE DEF t, rest
    <2>2. StoreInv' /\ ReachInv' /\ FrameInv' /\ guards' \subseteq Tables
      BY <1>2, <1>3, <1>4, <1>6, <2>1, EnterStep
    <2>3. RequestInv'
      BY <1>6, <2>2, RequestStill DEF MachineInv
    <2> QED
      BY <2>2, <2>3 DEF MachineInv
  <1> QED
    BY <1>5, <1>6 DEF CascadeChild

LEMMA DeleteRowStep == ASSUME MachineInv, DeleteRow PROVE MachineInv'
  <1>1. frames # <<>>
    BY DEF DeleteRow
  <1>2. /\ InTransaction /\ StoreFits(store) /\ StoreFits(levels[1]) /\ guards \subseteq Tables
        /\ FrameFits(Top, guards, req.user)
        /\ Reached(levels[1], store, guards, req.user)
    BY <1>1, TopOf
  <1>3. Top.table \in guards /\ Top.table \in Tables /\ Can(req.user, Top.table, "delete")
    BY <1>2 DEF FrameFits
  <1>4. CASE Fails(TRUE, Top.table)
    BY <1>2, <1>3, <1>4, FailsStep, Zenon
  <1>5. CASE /\ store' = Without(store, Top.table, Top.id)
             /\ frames' = Front(frames) /\ deleting' = deleting \ {<<Top.table, Top.id>>}
             /\ UNCHANGED <<levels, guards, req, todo, ops>>
    <2>1. StoreFits(store') /\ Reached(levels[1], store', guards, req.user)
      BY <1>2, <1>3, <1>5, WithoutFits, DeleteReaches
    <2>2. StoreInv' /\ ReachInv'
      BY <1>2, <1>5, <2>1, StoreStep DEF MachineInv
    <2>3. RequestInv'
      BY <1>2, <1>5, RequestStill DEF MachineInv
    <2>4. FramesFit(frames', deleting', guards, req.user)
      BY <1>1, <1>5, FramesPopped DEF MachineInv, FrameInv, Top, Key
    <2>5. FrameInv'
      BY <1>2, <1>5, <2>4 DEF FrameInv, InTransaction
    <2> QED
      BY <2>2, <2>3, <2>5 DEF MachineInv
  <1> QED
    BY <1>4, <1>5 DEF DeleteRow

-----------------------------------------------------------------------------
(* Requests, the world around them, and the data of whole apps.            *)

(* While nothing is open, the database may become another one.             *)
LEMMA IdleStep ==
    ASSUME MachineInv, ~InTransaction, UNCHANGED <<levels, guards, frames, deleting>>, ops' = <<>>,
           StoreFits(store'), req' # None => req' \in Sent, todo' \in Seq(Seq(Script))
    PROVE  MachineInv'
  <1>1. levels' = <<>> /\ frames' = <<>> /\ deleting' = {}
    BY NothingOpen
  <1>2. guards' \subseteq Tables
    BY DEF MachineInv, RequestInv
  <1> QED
    BY <1>1, <1>2, Closed

LEMMA IdleOf ==
    ASSUME MachineInv, req = None
    PROVE  ~InTransaction /\ ops = <<>>
  <1>1. ~InTransaction
    BY DEF MachineInv, RequestInv, InTransaction
  <1> QED
    BY <1>1, NothingOpen

LEMMA ServeStep ==
    ASSUME MachineInv, req = None, NEW r \in Sent, Serve(r)
    PROVE  MachineInv'
  <1>1. req' = r /\ todo' = r.txns /\ ops' = <<>> /\ UNCHANGED <<store, levels, guards, frames, deleting>>
    BY DEF Serve
  <1>2. todo' \in Seq(Seq(Script))
    BY <1>1, RequestsAssumption
  <1>3. StoreFits(store')
    BY <1>1 DEF MachineInv, StoreInv
  <1> QED
    BY <1>1, <1>2, <1>3, IdleOf, IdleStep

LEMMA AnswerStep == ASSUME MachineInv, Answer PROVE MachineInv'
  <1>1. /\ ~InTransaction /\ req' = None /\ UNCHANGED <<store, levels, guards, frames, deleting, todo, ops>>
    BY DEF Answer
  <1>2. ops' = <<>>
    BY <1>1, NothingOpen
  <1> QED
    BY <1>1, <1>2, IdleStep DEF MachineInv, StoreInv, RequestInv

LEMMA ExpireDraftStep ==
    ASSUME MachineInv, NEW k \in Tokens, ExpireDraft(k)
    PROVE  MachineInv'
  <1> DEFINE d == [store.drafts[k] EXCEPT !.expired = TRUE]
             drafts == [store.drafts EXCEPT ![k] = d]
  <1>1. /\ req = None /\ store.drafts[k].owner # None
        /\ store' = [store EXCEPT !.drafts[k].expired = TRUE]
        /\ UNCHANGED <<levels, guards, frames, deleting, req, todo, ops>>
    BY DEF ExpireDraft, machine
  <1>2. StoreFits(store)
    BY DEF MachineInv, StoreInv
  <1>3. DraftFits(store.drafts[k], store.born[k]) /\ store.drafts[k] # NoDraft
    BY <1>1, <1>2 DEF StoreFits, NoDraft
  <1>4. /\ DOMAIN d = DOMAIN store.drafts[k] /\ d.record = store.drafts[k].record
        /\ d.table = store.drafts[k].table /\ d.snapshot = store.drafts[k].snapshot
    BY <1>3 DEF DraftFits
  <1>5. DraftFits(d, store.born[k])
    BY <1>3, <1>4 DEF DraftFits
  <1>6. store' = [store EXCEPT !.drafts = drafts]
    BY <1>1, <1>2 DEF StoreFits
  <1> HIDE DEF d
  <1>7. DOMAIN drafts = Tokens /\ \A l \in Tokens : DraftFits(drafts[l], store.born[l])
    BY <1>2, <1>5 DEF StoreFits
  <1> HIDE DEF drafts
  <1>8. StoreFits(store')
    BY <1>2, <1>6, <1>7, DraftsFit
  <1> QED
    BY <1>1, <1>8, IdleOf, IdleStep DEF MachineInv, RequestInv

LEMMA CrashStep == ASSUME MachineInv, Crash PROVE MachineInv'
  <1>1. /\ store' = IF InTransaction THEN levels[1] ELSE store
        /\ levels' = <<>> /\ guards' = {} /\ frames' = <<>> /\ deleting' = {}
        /\ req' = None /\ todo' = <<>> /\ ops' = <<>>
    BY DEF Crash
  <1>2. StoreFits(store')
    <2>1. InTransaction => 1 \in DOMAIN levels
      BY LevelsOf DEF MachineInv
    <2> QED
      BY <1>1, <2>1 DEF MachineInv, StoreInv
  <1>3. todo' \in Seq(Seq(Script)) /\ guards' \subseteq Tables
    BY <1>1
  <1> QED
    BY <1>1, <1>2, <1>3, Closed

(* The app's tables get the rows of the package, the others keep theirs.   *)
LEMMA RowsOfApp ==
    ASSUME StoreInv, NEW a, NEW incoming, DOMAIN incoming = AppTables(a)
    PROVE  /\ DOMAIN With(a, incoming) = Tables
           /\ \A t \in Tables : With(a, incoming)[t] = IF AppOf[t] = a THEN incoming[t] ELSE store.rows[t]
  BY DEF With, Over, AppTables, StoreInv, StoreFits

LEMMA StoredRowsFit ==
    ASSUME StoreInv, NEW t \in Tables
    PROVE  RowsFit(t, store.rows[t])
  <1>1. DOMAIN store.rows[t] \subseteq 0..store.next[t] /\ store.next[t] \in Nat
    BY DEF StoreInv, StoreFits
  <1>2. IsFiniteSet(0..store.next[t])
    BY <1>1, FS_Interval
  <1>3. IsFiniteSet(DOMAIN store.rows[t])
    BY <1>1, <1>2, FS_Subset
  <1> QED
    BY <1>3 DEF StoreInv, StoreFits, RowsFit

LEMMA ReplacedFits ==
    ASSUME StoreInv, NEW a, NEW incoming, DOMAIN incoming = AppTables(a),
           \A t \in AppTables(a) : RowsFit(t, incoming[t]), replaceData(a, incoming)
    PROVE  StoreFits(store')
  <1> DEFINE rows == With(a, incoming)
  <1>1. /\ DOMAIN rows = Tables
        /\ \A t \in Tables : rows[t] = IF AppOf[t] = a THEN incoming[t] ELSE store.rows[t]
    BY RowsOfApp
  <1>2. \A t \in Tables : RowsFit(t, rows[t])
    BY <1>1, StoredRowsFit DEF AppTables
  <1> HIDE DEF rows
  <1> DEFINE next == [t \in Tables |-> Beyond(store.next[t], DOMAIN rows[t])]
  <1>3. \A t \in Tables : next[t] \in Nat /\ \A i \in DOMAIN rows[t] : i < next[t]
    BY <1>2, BeyondAll DEF StoreInv, StoreFits, RowsFit
  <1>4. store' = [store EXCEPT !.rows = rows, !.next = next]
    BY DEF replaceData, rows
  <1>5. next \in [Tables -> Nat]
    BY <1>3
  <1> HIDE DEF next
  <1>6. /\ DOMAIN store' = DOMAIN store /\ store'.rows = rows /\ store'.next = next
        /\ store'.drafts = store.drafts /\ store'.born = store.born
    BY <1>4 DEF StoreInv, StoreFits
  <1> QED
    BY <1>1, <1>2, <1>3, <1>5, <1>6 DEF StoreInv, StoreFits, RowsFit

LEMMA AdministerStep ==
    ASSUME MachineInv, Administer, Machine, StoreFits(store')
    PROVE  MachineInv'
  BY IdleOf, IdleStep DEF Administer, Machine, MachineInv, RequestInv

LEMMA ReplacementStep ==
    ASSUME MachineInv, PreviewInv, NEW u, NEW p \in previews, Replacement(u, p)
    PROVE  MachineInv'
  <1>1. StoreFits(store')
    BY ReplacedFits DEF Replacement, PreviewInv, MachineInv
  <1> QED
    BY <1>1, AdministerStep DEF Replacement

LEMMA DeleteDataStep ==
    ASSUME MachineInv, NEW a, DeleteData(a)
    PROVE  MachineInv'
  <1> DEFINE empty == [t \in AppTables(a) |-> << >>]
  <1>1. DOMAIN empty = AppTables(a) /\ \A t \in AppTables(a) : empty[t] = <<>>
    OBVIOUS
  <1>2. DOMAIN <<>> = {}
    OBVIOUS
  <1>3. \A t : RowsFit(t, <<>>)
    BY <1>2, FS_EmptySet DEF RowsFit
  <1>4. replaceData(a, empty)
    BY DEF DeleteData
  <1> HIDE DEF empty
  <1>5. StoreFits(store')
    BY <1>1, <1>3, <1>4, ReplacedFits DEF MachineInv
  <1> QED
    BY <1>5, AdministerStep DEF DeleteData

-----------------------------------------------------------------------------
(* The invariant.                                                          *)

World == <<jobs, licenses, clock, crashes>>

LEMMA FailsWorld == ASSUME NEW ok, NEW t, Fails(ok, t) PROVE UNCHANGED World
  BY DEF Fails, Others, around, World

LEMMA WritesWorld ==
    ASSUME NEW ok, NEW t, NEW s, NEW tally, Writes(ok, t, s, tally)
    PROVE  UNCHANGED World
  BY DEF Writes, around, World

(* The machine changes nothing around it but the job it answers for.       *)
LEMMA ServingWorld ==
    ASSUME Serving
    PROVE  UNCHANGED World \/ Answer
  <1>1. CASE Begin \/ Commit \/ Try \/ ReleaseSavepoint
    BY <1>1 DEF Begin, Commit, Try, ReleaseSavepoint, around, World
  <1>2. CASE InsertOp
    BY <1>2, FailsWorld, WritesWorld DEF InsertOp
  <1>3. CASE PatchOp
    BY <1>3, FailsWorld, WritesWorld DEF PatchOp
  <1>4. CASE UpsertOp
    BY <1>4, FailsWorld, WritesWorld DEF UpsertOp
  <1>5. CASE EntityOp
    BY <1>5, FailsWorld, WritesWorld DEF EntityOp
  <1>6. CASE CreateDraft
    BY <1>6, FailsWorld DEF CreateDraft, around, World
  <1>7. CASE SaveDraft
    BY <1>7, FailsWorld, WritesWorld DEF SaveDraft, around, World
  <1>8. CASE DeleteOp \/ FindChildren \/ CascadeChild
    BY <1>8 DEF DeleteOp, FindChildren, CascadeChild, around, World
  <1>9. CASE NullChild
    BY <1>9, FailsWorld DEF NullChild, around, World
  <1>10. CASE DeleteRow
    BY <1>10, FailsWorld DEF DeleteRow, around, World
  <1> QED
    BY <1>1, <1>2, <1>3, <1>4, <1>5, <1>6, <1>7, <1>8, <1>9, <1>10 DEF Serving

LEMMA ServingStep ==
    ASSUME MachineInv, Serving
    PROVE  MachineInv'
  BY BeginStep, CommitStep, AnswerStep, TryStep, ReleaseStep, InsertOpStep, PatchOpStep, UpsertOpStep,
     EntityOpStep, CreateDraftStep, SaveDraftStep, DeleteOpStep, FindChildrenStep, NullChildStep,
     CascadeChildStep, DeleteRowStep DEF Serving

LEMMA MachineNext ==
    ASSUME MachineInv, Next
    PROVE  MachineInv'
  <1>1. CASE \E r \in Requests : Receive(r)
    <2>1. PICK r \in Requests : Receive(r)
      BY <1>1
    <2>2. r \in Sent /\ req = None /\ Serve(r)
      BY <2>1 DEF Sent, Receive
    <2> QED
      BY <2>2, ServeStep
  <1>2. CASE \E j \in Jobs : StartJob(j)
    BY <1>2, MachineStill DEF StartJob, machine
  <1>3. CASE \E j \in Jobs : ImportJob(j)
    <2>1. PICK j \in Jobs : ImportJob(j)
      BY <1>3
    <2>2. JobDocuments[j] \in Sent /\ req = None /\ Serve(JobDocuments[j])
      BY <2>1 DEF Sent, ImportJob
    <2> QED
      BY <2>2, ServeStep
  <1>4. CASE Serving
    BY <1>4, ServingStep
  <1>5. CASE Tick \/ Deploy \/ \E l \in Licenses : InstallLicense(l)
    BY <1>5, MachineStill DEF Tick, Deploy, InstallLicense, machine
  <1>6. CASE Crash
    BY <1>6, CrashStep
  <1>7. CASE \E k \in Tokens : ExpireDraft(k)
    BY <1>7, ExpireDraftStep
  <1> QED
    BY <1>1, <1>2, <1>3, <1>4, <1>5, <1>6, <1>7 DEF Next

LEMMA JobStill ==
    ASSUME JobInv, jobs' = jobs
    PROVE  JobInv'
  BY DEF JobInv

(* One import of a job is replaced by another record of it.                *)
LEMMA JobChanges ==
    ASSUME JobInv, NEW j \in Jobs, NEW job, JobFits(job), jobs' = [jobs EXCEPT ![j] = job]
    PROVE  JobInv'
  BY DEF JobInv

LEMMA JobNext ==
    ASSUME MachineInv, JobInv, Next
    PROVE  JobInv'
  <1>1. ASSUME NEW j \in Jobs, StartJob(j) PROVE JobInv'
    <2> DEFINE job == [jobs[j] EXCEPT !.status = "running", !.reading = @ + 1]
    <2>1. JobFits(jobs[j]) /\ jobs[j].status = "staged"
      BY <1>1 DEF JobInv, StartJob
    <2>2. JobFits(job)
      BY <2>1 DEF JobFits
    <2>3. jobs' = [jobs EXCEPT ![j] = job]
      BY <1>1, <2>1 DEF StartJob, JobInv, JobFits
    <2> HIDE DEF job
    <2> QED
      BY <2>2, <2>3, JobChanges
  <1>2. ASSUME NEW j \in Jobs, ImportJob(j) PROVE JobInv'
    <2> DEFINE job == [jobs[j] EXCEPT !.reading = @ - 1, !.imports = @ + 1]
    <2>1. JobFits(jobs[j]) /\ jobs[j].reading > 0
      BY <1>2 DEF JobInv, ImportJob
    <2>2. JobFits(job)
      BY <2>1 DEF JobFits
    <2>3. jobs' = [jobs EXCEPT ![j] = job]
      BY <1>2, <2>1 DEF ImportJob, JobInv, JobFits
    <2> HIDE DEF job
    <2> QED
      BY <2>2, <2>3, JobChanges
  <1>3. CASE Answer
    <2>1. CASE req.job = None
      BY <1>3, <2>1, JobStill DEF Answer
    <2>2. CASE req.job # None
      <3>1. req.job \in Jobs
        BY <1>3, <2>2, RequestsAssumption DEF Answer, MachineInv, RequestInv
      <3> DEFINE job == [jobs[req.job] EXCEPT !.status = "completed"]
      <3>2. JobFits(jobs[req.job])
        BY <3>1 DEF JobInv
      <3>3. JobFits(job)
        BY <3>2 DEF JobFits
      <3>4. jobs' = [jobs EXCEPT ![req.job] = job]
        BY <1>3, <2>2, <3>1, <3>2 DEF Answer, JobInv, JobFits
      <3> HIDE DEF job
      <3> QED
        BY <3>1, <3>3, <3>4, JobChanges
    <2> QED
      BY <2>1, <2>2
  <1>4. CASE Crash
    <2>1. jobs' = [j \in Jobs |-> [jobs[j] EXCEPT !.reading = 0]]
      BY <1>4 DEF Crash
    <2>2. \A j \in Jobs : JobFits([jobs[j] EXCEPT !.reading = 0])
      BY DEF JobInv, JobFits
    <2> QED
      BY <2>1, <2>2 DEF JobInv
  <1>5. CASE Serving /\ ~Answer
    BY <1>5, ServingWorld, JobStill DEF World
  <1>6. CASE \E r \in Requests : Receive(r)
    BY <1>6, JobStill DEF Receive
  <1>7. CASE Tick \/ Deploy \/ \E l \in Licenses : InstallLicense(l)
    BY <1>7, JobStill DEF Tick, Deploy, InstallLicense
  <1>8. CASE \E k \in Tokens : ExpireDraft(k)
    BY <1>8, JobStill DEF ExpireDraft, around
  <1> QED
    BY <1>1, <1>2, <1>3, <1>4, <1>5, <1>6, <1>7, <1>8 DEF Next

(* Only an installation changes the licences.                              *)
LEMMA LicensesNext ==
    ASSUME Next
    PROVE  licenses' = licenses \/ \E l \in Licenses : InstallLicense(l)
  <1>1. CASE Serving
    BY <1>1, ServingWorld DEF World, Answer
  <1>2. CASE ~Serving
    BY <1>2 DEF Next, Receive, StartJob, ImportJob, Tick, Deploy, Crash, ExpireDraft, around
  <1> QED
    BY <1>1, <1>2

LEMMA PreviewNext ==
    ASSUME PreviewInv, DataNext
    PROVE  PreviewInv'
  <1>1. CASE Working \/ \E a \in Apps : DeleteData(a)
    BY <1>1 DEF Working, DeleteData, PreviewInv
  <1>2. ASSUME NEW u \in Admins, NEW p \in Packages, Preview(u, p)
        PROVE  PreviewInv'
    <2>1. /\ p.app \in Apps /\ DOMAIN p.rows = AppTables(p.app)
          /\ \A t \in AppTables(p.app) : RowsFit(t, p.rows[t])
      BY PackagesAssumption DEF AppTables, RowsFit
    <2> QED
      BY <1>2, <2>1 DEF Preview, PreviewInv
  <1>3. CASE \E p \in previews : ExpirePreview(p) \/ \E u \in Admins : Replacement(u, p)
    BY <1>3 DEF ExpirePreview, Replacement, PreviewInv
  <1> QED
    BY <1>1, <1>2, <1>3 DEF DataNext

LEMMA RecordsStep ==
    ASSUME IInv, [DataNext]_<<vars, previews>>
    PROVE  IInv'
  <1>1. CASE Working
    <2>1. MachineInv' /\ JobInv'
      BY <1>1, MachineNext, JobNext DEF Working, IInv
    <2>2. DOMAIN licenses' = Apps
      BY <1>1, LicensesNext DEF Working, IInv, InstallLicense
    <2>3. PreviewInv'
      BY <1>1, PreviewNext DEF DataNext, IInv
    <2> QED
      BY <2>1, <2>2, <2>3 DEF IInv
  <1>2. CASE \E a \in Apps : DeleteData(a)
    <2>1. MachineInv' /\ PreviewInv'
      BY <1>2, DeleteDataStep, PreviewNext DEF DataNext, IInv
    <2>2. jobs' = jobs /\ licenses' = licenses
      BY <1>2 DEF DeleteData, Administer
    <2> QED
      BY <2>1, <2>2, JobStill DEF IInv
  <1>3. CASE \E u \in Admins, p \in Packages : Preview(u, p)
    <2>1. MachineInv'
      BY <1>3, MachineStill DEF Preview, Machine, Unserved, Administer, IInv
    <2>2. PreviewInv'
      BY <1>3, PreviewNext DEF DataNext, IInv
    <2>3. jobs' = jobs /\ licenses' = licenses
      BY <1>3 DEF Preview, Administer
    <2> QED
      BY <2>1, <2>2, <2>3, JobStill DEF IInv
  <1>4. CASE \E u \in Admins, p \in previews : Replacement(u, p)
    <2>1. MachineInv' /\ PreviewInv'
      BY <1>4, ReplacementStep, PreviewNext DEF DataNext, IInv
    <2>2. jobs' = jobs /\ licenses' = licenses
      BY <1>4 DEF Replacement, Administer
    <2> QED
      BY <2>1, <2>2, JobStill DEF IInv
  <1>5. CASE \E p \in previews : ExpirePreview(p)
    <2>1. UNCHANGED vars
      BY <1>5 DEF ExpirePreview
    <2>2. MachineInv' /\ JobInv' /\ licenses' = licenses
      BY <2>1, MachineStill, JobStill DEF vars, machine, around, IInv
    <2>3. PreviewInv'
      BY <1>5, PreviewNext DEF DataNext, IInv
    <2> QED
      BY <2>2, <2>3 DEF IInv
  <1>6. CASE UNCHANGED <<vars, previews>>
    <2>1. MachineInv' /\ JobInv' /\ licenses' = licenses
      BY <1>6, MachineStill, JobStill DEF vars, machine, around, IInv
    <2> QED
      BY <1>6, <2>1 DEF IInv, PreviewInv
  <1> QED
    BY <1>1, <1>2, <1>3, <1>4, <1>5, <1>6 DEF DataNext

LEMMA RecordsInit == DataInit => IInv
  <1> SUFFICES ASSUME DataInit PROVE IInv
    OBVIOUS
  <1>1. StoreFits(store)
    <2>1. /\ store.rows = InitialRows /\ DOMAIN store = {"rows", "next", "drafts", "born"}
          /\ store.next = [t \in Tables |-> Cardinality(DOMAIN InitialRows[t]) + 1]
          /\ store.drafts = [k \in Tokens |-> NoDraft] /\ store.born = [k \in Tokens |-> {}]
      BY DEF DataInit, Init
    <2>2. \A t \in Tables : /\ Cardinality(DOMAIN InitialRows[t]) \in Nat
                            /\ \A id \in DOMAIN InitialRows[t] :
                                  id \in Nat /\ id < Cardinality(DOMAIN InitialRows[t]) + 1
      <3> SUFFICES ASSUME NEW t \in Tables
                   PROVE  /\ Cardinality(DOMAIN InitialRows[t]) \in Nat
                          /\ \A id \in DOMAIN InitialRows[t] :
                                id \in Nat /\ id < Cardinality(DOMAIN InitialRows[t]) + 1
        OBVIOUS
      <3> DEFINE rows == InitialRows[t]
      <3>1. rows \in Seq(Range(rows))
        BY TablesAssumption
      <3> HIDE DEF rows
      <3>2. DOMAIN rows = 1..Len(rows) /\ Len(rows) \in Nat
        BY <3>1
      <3>3. \A n \in Nat : Cardinality(1..n) = n
        BY FS_Interval
      <3> QED
        BY <3>2, <3>3 DEF rows
    <2>3. \A t \in Tables : \A id \in DOMAIN InitialRows[t] : Fits(t, InitialRows[t][id])
      BY TablesAssumption
    <2>4. DOMAIN InitialRows = Tables
      BY TablesAssumption
    <2>5. \A k \in Tokens : DraftFits(store.drafts[k], store.born[k])
      BY <2>1 DEF DraftFits
    <2> QED
      BY <2>1, <2>2, <2>3, <2>4, <2>5 DEF StoreFits
  <1>2. StoreInv /\ ReachInv
    BY <1>1, NoOps DEF DataInit, Init, StoreInv, ReachInv, InTransaction
  <1>3. RequestInv
    <2>1. ops = <<>> /\ levels = <<>> /\ todo = <<>> /\ req = None /\ guards = {}
      BY DEF DataInit, Init
    <2>2. Left(0)
      BY <2>1, NoOps DEF Left
    <2>3. 0 \in 0..Len(ops)
      BY <2>1, NoOps
    <2>4. todo \in Seq(Seq(Script))
      BY <2>1
    <2> QED
      BY <2>1, <2>2, <2>3, <2>4, NoOps DEF RequestInv
  <1>4. FrameInv
    BY FramesEmpty DEF DataInit, Init, FrameInv
  <1>5. JobInv
    <2>1. \A j \in Jobs : JobFits([status |-> "staged", reading |-> 0, imports |-> 0])
      BY DEF JobFits
    <2> QED
      BY <2>1 DEF DataInit, Init, JobInv
  <1>6. PreviewInv /\ DOMAIN licenses = Apps
    BY DEF DataInit, Init, PreviewInv
  <1> QED
    BY <1>2, <1>3, <1>4, <1>5, <1>6 DEF IInv, MachineInv

(* The parts of the machine, the jobs and the previews agree, whatever is  *)
(* requested, thrown, installed, replaced or interrupted.                  *)
THEOREM RecordsInvariance == DataSpec => []IInv
  <1>1. DataInit => IInv
    BY RecordsInit
  <1>2. IInv /\ [DataNext]_<<vars, previews>> => IInv'
    BY RecordsStep
  <1> QED
    BY <1>1, <1>2, PTL DEF DataSpec

LEMMA RecordsHolds == IInv => RecordsAreSound
  <1> SUFFICES ASSUME IInv PROVE RecordsAreSound
    OBVIOUS
  <1>1. TypeOK
    <2>1. \A t \in Tables : \A id \in DOMAIN store.rows[t] :
             id < store.next[t] /\ DOMAIN store.rows[t][id] = FieldNames(t)
      BY DEF IInv, MachineInv, StoreInv, StoreFits, Fits
    <2>2. guards \subseteq Tables /\ Len(levels) <= 2
      BY DEF IInv, MachineInv, StoreInv, RequestInv
    <2>3. (frames # <<>> \/ ops # <<>>) => InTransaction
      BY DEF IInv, MachineInv, RequestInv, FrameInv
    <2>4. /\ deleting = {<<frames[i].table, frames[i].id>> : i \in DOMAIN frames}
          /\ Cardinality(deleting) = Len(frames)
      BY DEF IInv, MachineInv, FrameInv, FramesFit, Key
    <2>5. \A j \in Jobs : jobs[j].status \in {"staged", "running", "completed"}
      BY DEF IInv, JobInv, JobFits
    <2> QED
      BY <2>1, <2>2, <2>3, <2>4, <2>5 DEF TypeOK
  <1>2. OncePerToken
    <2>1. StoreFits(committed)
      <3>1. InTransaction => 1 \in DOMAIN levels
        BY LevelsOf DEF IInv, MachineInv
      <3> QED
        BY <3>1 DEF committed, IInv, MachineInv, StoreInv
    <2> SUFFICES ASSUME NEW k \in Tokens
                 PROVE  /\ Cardinality(committed.born[k]) <= 1
                        /\ committed.drafts[k] # NoDraft /\ committed.drafts[k].record # None
                              => committed.born[k] = {committed.drafts[k].record}
      BY DEF OncePerToken
    <2>2. DraftFits(committed.drafts[k], committed.born[k])
      BY <2>1 DEF StoreFits
    <2>3. committed.born[k] = {} \/ \E id : committed.born[k] = {id}
      BY <2>2 DEF DraftFits
    <2>4. Cardinality(committed.born[k]) <= 1
      <3>1. Cardinality({}) = 0 /\ \A id : Cardinality({id}) = 1
        BY FS_EmptySet, FS_Singleton, Zenon
      <3>2. Cardinality(committed.born[k]) \in {0, 1}
        BY <2>3, <3>1
      <3> QED
        BY <3>2
    <2>5. committed.drafts[k] # NoDraft /\ committed.drafts[k].record # None
             => committed.born[k] = {committed.drafts[k].record}
      BY <2>2 DEF DraftFits
    <2> QED
      BY <2>4, <2>5
  <1>3. JobsImportOnce
    BY DEF JobsImportOnce, IInv, JobInv, JobFits
  <1>4. MasksAreNotStored
    BY DEF MasksAreNotStored, IInv, MachineInv, StoreInv, StoreFits, Fits
  <1> QED
    BY <1>1, <1>2, <1>3, <1>4 DEF RecordsAreSound

(* The machine's parts agree; a draft's token becomes at most one record,  *)
(* also when its saving is thrown out, rolled back or sent again; a staged *)
(* import is carried out at most once; no mask is stored for a secret      *)
(* (dataContext.save, recordDrafts, dataEntityIo, crud.writableBody).      *)
THEOREM RecordsSoundness == DataSpec => []RecordsAreSound
  BY RecordsInvariance, RecordsHolds, PTL

-----------------------------------------------------------------------------
(* What a step commits.                                                    *)

(* The rows of a commit are those its guards and permissions were asked    *)
(* for; no other step of the machine commits anything.                     *)
LEMMA UnwindCommits ==
    ASSUME MachineInv, InTransaction, NEW left, Unwind(left)
    PROVE  committed' = committed
  <1>1. store' = Last(levels) /\ levels' = Front(levels)
    BY DEF Unwind
  <1>2. /\ Len(levels) \in {1, 2}
        /\ Last(levels) = levels[Len(levels)]
        /\ Len(levels) = 1 => Front(levels) = <<>>
        /\ Len(levels) = 2 => Front(levels) # <<>> /\ Front(levels)[1] = levels[1]
    BY LevelsOf DEF MachineInv
  <1> QED
    BY <1>1, <1>2 DEF committed, InTransaction

LEMMA FailsCommits ==
    ASSUME MachineInv, InTransaction, NEW ok, NEW t, Fails(ok, t)
    PROVE  committed' = committed
  BY UnwindCommits DEF Fails

LEMMA LevelsKept ==
    ASSUME InTransaction, levels' = levels
    PROVE  committed' = committed
  BY DEF committed, InTransaction

LEMMA OperationCommits ==
    ASSUME MachineInv, NEW kind, Running(kind), kind \notin {"try", "release"},
           levels' = levels \/ \E ok, t : Fails(ok, t)
    PROVE  committed' = committed
  BY OperationOf, LevelsKept, FailsCommits

LEMMA ServingCommits ==
    ASSUME MachineInv, Serving
    PROVE  \/ committed' = committed
           \/ InTransaction /\ frames = <<>> /\ GuardsHold /\ committed' = store /\ UNCHANGED store
  <1>1. CASE Begin
    <2>1. <<store>> # <<>> /\ <<store>>[1] = store
      OBVIOUS
    <2> QED
      BY <1>1, <2>1 DEF Begin, committed, InTransaction
  <1>2. CASE Commit
    BY <1>2, UnwindCommits DEF Commit, Throw, committed, InTransaction
  <1>3. CASE Answer
    BY <1>3 DEF Answer, committed, InTransaction
  <1>4. CASE Try
    <2>1. levels' # <<>> /\ levels'[1] = levels[1]
      <3>1. 1 \in 1..Len(levels) /\ InTransaction
        BY <1>4, LevelsOf DEF Try, Running, MachineInv
      <3> QED
        BY <1>4, <3>1, AppendTo DEF Try, MachineInv, StoreInv
    <2> QED
      BY <1>4, <2>1 DEF Try, Running, committed, InTransaction
  <1>5. CASE ReleaseSavepoint
    <2>1. InTransaction /\ ops # <<>> /\ Head(ops).op = "release" /\ levels' = Front(levels)
      BY <1>5 DEF ReleaseSavepoint, Running
    <2>2. Left(1)
      BY <2>1, HeadOf DEF MachineInv
    <2>3. levels' # <<>> /\ levels'[1] = levels[1]
      BY <2>1, <2>2, LevelsOf DEF MachineInv, Left
    <2> QED
      BY <2>1, <2>3 DEF committed, InTransaction
  <1>6. CASE InsertOp
    BY <1>6, OperationCommits DEF InsertOp, Writes
  <1>7. CASE PatchOp
    BY <1>7, OperationCommits DEF PatchOp, Writes
  <1>8. CASE UpsertOp
    BY <1>8, OperationCommits DEF UpsertOp, Writes
  <1>9. CASE EntityOp
    BY <1>9, OperationCommits DEF EntityOp, Writes
  <1>10. CASE CreateDraft
    BY <1>10, OperationCommits DEF CreateDraft
  <1>11. CASE SaveDraft
    BY <1>11, OperationCommits DEF SaveDraft, Writes
  <1>12. CASE DeleteOp
    BY <1>12, LevelsKept, UnwindCommits DEF DeleteOp, Running, Throw
  <1>13. CASE FindChildren
    BY <1>13, TopOf, LevelsKept, UnwindCommits DEF FindChildren, Throw
  <1>14. CASE NullChild
    BY <1>14, TopOf, LevelsKept, FailsCommits DEF NullChild
  <1>15. CASE CascadeChild
    BY <1>15, TopOf, LevelsKept, UnwindCommits DEF CascadeChild, Throw
  <1>16. CASE DeleteRow
    BY <1>16, TopOf, LevelsKept, FailsCommits DEF DeleteRow
  <1> QED
    BY <1>1, <1>2, <1>3, <1>4, <1>5, <1>6, <1>7, <1>8, <1>9, <1>10, <1>11, <1>12, <1>13, <1>14, <1>15,
       <1>16 DEF Serving

(* A step of a request, or of the world around it.                         *)
LEMMA NextCommits ==
    ASSUME MachineInv, Next
    PROVE  \/ committed'.rows = committed.rows
           \/ InTransaction /\ frames = <<>> /\ GuardsHold /\ committed' = store
  <1>1. CASE Serving
    BY <1>1, ServingCommits
  <1>2. CASE Crash
    <2>1. committed' = committed
      BY <1>2 DEF Crash, committed, InTransaction
    <2> QED
      BY <2>1
  <1>3. CASE \E k \in Tokens : ExpireDraft(k)
    <2>1. PICK k \in Tokens : ExpireDraft(k)
      BY <1>3
    <2>2. req = None /\ store' = [store EXCEPT !.drafts[k].expired = TRUE] /\ levels' = levels
      BY <2>1 DEF ExpireDraft, machine
    <2>3. levels = <<>>
      BY <2>2, IdleOf DEF InTransaction
    <2>4. store'.rows = store.rows
      BY <2>2 DEF MachineInv, StoreInv, StoreFits
    <2> QED
      BY <2>2, <2>3, <2>4 DEF committed, InTransaction
  <1>4. CASE ~Serving /\ ~Crash /\ ~\E k \in Tokens : ExpireDraft(k)
    <2>1. UNCHANGED <<store, levels>>
      BY <1>4 DEF Next, Receive, StartJob, ImportJob, Serve, Tick, Deploy, InstallLicense, machine
    <2> QED
      BY <2>1 DEF committed, InTransaction
  <1> QED
    BY <1>1, <1>2, <1>3, <1>4

(* Replacing or deleting an app's data, the rows of other apps stay.       *)
LEMMA ReplacedCommits ==
    ASSUME MachineInv, NEW a, NEW incoming, DOMAIN incoming = AppTables(a), req = None,
           replaceData(a, incoming), UNCHANGED levels
    PROVE  a \notin BlockedApps /\ \A t \in Tables : committed'.rows[t] # committed.rows[t] => AppOf[t] = a
  <1>1. a \notin BlockedApps
    BY DEF replaceData
  <1>2. store'.rows = With(a, incoming)
    BY DEF replaceData, MachineInv, StoreInv, StoreFits
  <1>3. \A t \in Tables : AppOf[t] # a => With(a, incoming)[t] = store.rows[t]
    BY RowsOfApp DEF MachineInv
  <1>4. levels = <<>>
    BY IdleOf DEF InTransaction
  <1> QED
    BY <1>1, <1>2, <1>3, <1>4 DEF committed, InTransaction

LEMMA DataCommits ==
    ASSUME IInv, [DataNext]_<<vars, previews>>
    PROVE  \/ committed'.rows = committed.rows
           \/ InTransaction /\ frames = <<>> /\ GuardsHold /\ committed' = store
           \/ \E a : /\ req = None /\ a \notin BlockedApps
                     /\ \A t \in Tables : committed'.rows[t] # committed.rows[t] => AppOf[t] = a
  <1>1. CASE Working
    BY <1>1, NextCommits DEF Working, IInv
  <1>2. ASSUME NEW a \in Apps, DeleteData(a)
        PROVE  \E b : /\ req = None /\ b \notin BlockedApps
                      /\ \A t \in Tables : committed'.rows[t] # committed.rows[t] => AppOf[t] = b
    <2> DEFINE empty == [t \in AppTables(a) |-> << >>]
    <2>1. DOMAIN empty = AppTables(a)
      OBVIOUS
    <2>2. replaceData(a, empty) /\ req = None /\ UNCHANGED levels
      BY <1>2 DEF DeleteData, Administer, Machine
    <2> HIDE DEF empty
    <2> QED
      BY <2>1, <2>2, ReplacedCommits DEF IInv
  <1>3. ASSUME NEW u \in Admins, NEW p \in previews, Replacement(u, p)
        PROVE  \E b : /\ req = None /\ b \notin BlockedApps
                      /\ \A t \in Tables : committed'.rows[t] # committed.rows[t] => AppOf[t] = b
    <2>1. DOMAIN p.rows = AppTables(p.app)
      BY DEF IInv, PreviewInv
    <2>2. replaceData(p.app, p.rows) /\ req = None /\ UNCHANGED levels
      BY <1>3 DEF Replacement, Administer, Machine
    <2> QED
      BY <2>1, <2>2, ReplacedCommits DEF IInv
  <1>4. CASE \/ \E u \in Admins, p \in Packages : Preview(u, p)
             \/ \E p \in previews : ExpirePreview(p)
             \/ UNCHANGED <<vars, previews>>
    <2>1. UNCHANGED <<store, levels>>
      BY <1>4 DEF Preview, Unserved, Machine, ExpirePreview, vars, machine
    <2> QED
      BY <2>1 DEF committed, InTransaction
  <1> QED
    BY <1>1, <1>2, <1>3, <1>4 DEF DataNext

-----------------------------------------------------------------------------
(* The guards.                                                             *)

LEMMA CommitIsReached ==
    ASSUME MachineInv, InTransaction
    PROVE  Reached(committed, store, guards, req.user)
  BY DEF MachineInv, ReachInv, committed

LEMMA LicensedStep ==
    ASSUME IInv, [DataNext]_<<vars, previews>>
    PROVE  \A t \in Tables : committed'.rows[t] # committed.rows[t] => Writable(t)
  <1>1. CASE committed'.rows = committed.rows
    BY <1>1
  <1>2. CASE InTransaction /\ frames = <<>> /\ GuardsHold /\ committed' = store
    BY <1>2, CommitIsReached DEF IInv, Reached, GuardsHold
  <1>3. ASSUME NEW a, a \notin BlockedApps,
               \A t \in Tables : committed'.rows[t] # committed.rows[t] => AppOf[t] = a
        PROVE  \A t \in Tables : committed'.rows[t] # committed.rows[t] => Writable(t)
    BY <1>3 DEF Writable
  <1> QED
    BY <1>1, <1>2, <1>3, DataCommits

LEMMA PermittedStep ==
    ASSUME IInv, [DataNext]_<<vars, previews>>, req # None, NEW t \in Tables
    PROVE  Permitted(req.user, t, committed.rows[t], committed'.rows[t])
  <1>1. CASE committed'.rows = committed.rows
    BY <1>1 DEF Permitted
  <1>2. CASE InTransaction /\ committed' = store
    BY <1>2, CommitIsReached DEF IInv, Reached
  <1> QED
    BY <1>1, <1>2, DataCommits

(* An installed licence is active at once, or one that was missing.        *)
LEMMA InstalledLapses ==
    ASSUME NEW l \in Licenses, InstallLicense(l), DOMAIN licenses = Apps
    PROVE  Lapsed' \subseteq Lapsed
  <1> SUFFICES ASSUME NEW a \in Licensed, Active(a) PROVE Active(a)'
    BY DEF Lapsed
  <1>1. a \in Apps
    BY AppsAssumption
  <1>2. licenses' = [licenses EXCEPT ![l.app] = l] /\ clock' = clock
    BY DEF InstallLicense
  <1>3. CASE a = l.app
    <2>1. licenses[a] # None
      BY DEF Active
    <2>2. l.from <= clock /\ clock < l.to
      BY <1>3, <2>1 DEF InstallLicense
    <2>3. licenses'[a] = l /\ l # None
      BY <1>1, <1>2, <1>3, ValuesAssumption
    <2> QED
      BY <1>2, <2>2, <2>3 DEF Active
  <1>4. CASE a # l.app
    BY <1>1, <1>2, <1>4 DEF Active
  <1> QED
    BY <1>3, <1>4

LEMMA RenewalStep ==
    ASSUME IInv, [DataNext]_<<vars, previews>>, licenses' # licenses, NEW t \in Tables, Writable(t)
    PROVE  Writable(t)'
  <1>1. Working
    BY DEF DataNext, DeleteData, Preview, Replacement, Administer, ExpirePreview, vars, around
  <1>2. Lapsed' \subseteq Lapsed
    BY <1>1, LicensesNext, InstalledLapses DEF Working, IInv
  <1>3. BlockedApps' \subseteq BlockedApps
    BY <1>2 DEF BlockedApps
  <1> QED
    BY <1>3 DEF Writable

(* Nothing is committed to a table whose app is blocked at that moment,    *)
(* however it was reached and however long it took (guardWrite()).         *)
THEOREM RecordsAreLicensed == DataSpec => WritesAreLicensed
  <1>1. IInv /\ [DataNext]_<<vars, previews>>
           => [\A t \in Tables : committed'.rows[t] # committed.rows[t] => Writable(t)]_vars
    BY LicensedStep
  <1> QED
    BY <1>1, RecordsInvariance, PTL DEF DataSpec, WritesAreLicensed

(* Each row a request creates, changes or deletes, directly or by cascade, *)
(* is one its user has that permission for (assertAllowed()).              *)
THEOREM RecordsArePermitted == DataSpec => WritesArePermitted
  <1>1. IInv /\ [DataNext]_<<vars, previews>>
           => [req # None => \A t \in Tables :
                  LET old == committed.rows[t]
                      new == committed'.rows[t]
                  IN /\ DOMAIN new \ DOMAIN old # {} => Can(req.user, t, "create")
                     /\ DOMAIN old \ DOMAIN new # {} => Can(req.user, t, "delete")
                     /\ (\E id \in DOMAIN old \intersect DOMAIN new : old[id] # new[id])
                           => Can(req.user, t, "update")]_vars
    BY PermittedStep DEF Permitted
  <1> QED
    BY <1>1, RecordsInvariance, PTL DEF DataSpec, WritesArePermitted

(* Installing a licence never blocks an app that was writable, also through*)
(* the apps it depends on (licensing.ts: blockedApps()).                   *)
THEOREM LicencesRenew == DataSpec => RenewalKeepsWritable
  <1>1. IInv /\ [DataNext]_<<vars, previews>>
           => [licenses' # licenses => \A t \in Tables : Writable(t) => Writable(t)']_vars
    BY RenewalStep
  <1> QED
    BY <1>1, RecordsInvariance, PTL DEF DataSpec, RenewalKeepsWritable

(* Writes are licensed when they are committed, and permitted, and a new   *)
(* licence takes no right to write away.                                   *)
THEOREM WritesHoldTheirGuards == DataSpec => WritesAreGuarded
  BY RecordsAreLicensed, RecordsArePermitted, LicencesRenew DEF WritesAreGuarded

-----------------------------------------------------------------------------
(* References.  They hold of requests that do not make a row refer to one  *)
(* that their own transaction has deleted: the routes' transactions are of *)
(* one operation, or of an entity document's, and only a script could.     *)

ReferencesLive ==
    InTransaction => \A r \in ReferencesIn(store'.rows) \ ReferencesIn(store.rows) :
        r[4] \in DOMAIN levels[1].rows[r[3].to] => r[4] \in DOMAIN store'.rows[r[3].to]

ReferenceFields(t) == {f \in Range(Fields[t]) : f.type = "reference"}
Kids(rows, r, id) == {c \in DOMAIN rows[From(r)] : rows[From(r)][c][Column(r).name] = id}

(* What a row referred to in the base is there, or the row is being deleted*)
(* itself.                                                                 *)
Kept(base, rows, keys) ==
    \A t \in Tables : \A id \in DOMAIN rows[t] : \A f \in ReferenceFields(t) :
        LET to == rows[t][id][f.name]
        IN to \in DOMAIN base[f.to] => to \in DOMAIN rows[f.to] \/ <<t, id>> \in keys

(* A call has left no child behind along the references it is done with,   *)
(* and holds those along its next one, if it has looked.                   *)
Clears(f, rows, keys) ==
    /\ \A r \in References(f.table) \ f.refs : \A c \in Kids(rows, r, f.id) : <<From(r), c>> \in keys
    /\ DOMAIN f.kids # {} =>
          \A c \in Kids(rows, NextReference(f.refs), f.id) :
              c \in DOMAIN f.kids \/ <<From(NextReference(f.refs)), c>> \in keys

(* Only the innermost call nulls children, which are as it found them.     *)
Nulls(f) == DOMAIN f.kids # {} /\ Column(NextReference(f.refs)).onDelete = "setNull"
Hydrated(f, rows) ==
    Nulls(f) => \A c \in DOMAIN f.kids :
        LET t == From(NextReference(f.refs)) IN c \in DOMAIN rows[t] => rows[t][c] = f.kids[c]
Stack(fs, rows, keys) ==
    /\ \A i \in DOMAIN fs : Clears(fs[i], rows, keys)
    /\ \A i \in DOMAIN fs : i # Len(fs) => ~Nulls(fs[i])
    /\ fs # <<>> => Hydrated(Last(fs), rows)

TiedInv ==
    InTransaction =>
        /\ Kept(levels[1].rows, store.rows, deleting)
        /\ \A i \in DOMAIN levels : Kept(levels[1].rows, levels[i].rows, {})
        /\ Stack(frames, store.rows, deleting)

LEMMA ReferredTo ==
    ASSUME NEW rows, NEW t \in Tables, NEW id \in DOMAIN rows[t], NEW f \in ReferenceFields(t)
    PROVE  <<t, id, f, rows[t][id][f.name]>> \in ReferencesIn(rows)
  BY DEF ReferencesIn, ReferenceFields

LEMMA ReferenceIn ==
    ASSUME NEW rows, NEW r \in ReferencesIn(rows)
    PROVE  \E t \in Tables : \E id \in DOMAIN rows[t] : \E f \in ReferenceFields(t) :
               r = <<t, id, f, rows[t][id][f.name]>>
  BY DEF ReferencesIn, ReferenceFields

LEMMA ReferenceField ==
    ASSUME NEW t \in Tables, NEW f \in ReferenceFields(t)
    PROVE  f.to \in Tables /\ \E r \in References(f.to) : From(r) = t /\ Column(r) = f
  <1>1. f.to \in Tables /\ f \in Range(Fields[t]) /\ f.type = "reference"
    BY TablesAssumption DEF ReferenceFields
  <1>2. PICK j \in DOMAIN Fields[t] : f = Fields[t][j]
    BY <1>1 DEF Range
  <1>3. PICK i \in DOMAIN TableOrder : t = TableOrder[i]
    BY DEF Tables, Range
  <1>4. <<i, j>> \in References(f.to)
    BY <1>1, <1>2, <1>3 DEF References
  <1>5. From(<<i, j>>) = t /\ Column(<<i, j>>) = f
    BY <1>2, <1>3 DEF From, Column
  <1> QED
    BY <1>1, <1>4, <1>5

(* A transaction that has done nothing, and one that only adds references  *)
(* to rows that are there.                                                 *)
LEMMA KeptItself == \A rows : Kept(rows, rows, {})
  BY DEF Kept

LEMMA KeptByMore ==
    ASSUME NEW base, NEW rows, NEW keys, Kept(base, rows, keys), NEW more, keys \subseteq more
    PROVE  Kept(base, rows, more)
  BY DEF Kept

LEMMA KeptByWrites ==
    ASSUME NEW base, NEW rows, Kept(base, rows, {}), NEW new,
           \A t \in Tables : DOMAIN rows[t] \subseteq DOMAIN new[t],
           \A r \in ReferencesIn(new) \ ReferencesIn(rows) :
               r[4] \in DOMAIN base[r[3].to] => r[4] \in DOMAIN new[r[3].to]
    PROVE  Kept(base, new, {})
  <1> SUFFICES ASSUME NEW t \in Tables, NEW id \in DOMAIN new[t], NEW f \in ReferenceFields(t),
                      new[t][id][f.name] \in DOMAIN base[f.to]
               PROVE  new[t][id][f.name] \in DOMAIN new[f.to]
    BY DEF Kept
  <1> DEFINE r == <<t, id, f, new[t][id][f.name]>>
  <1>1. r \in ReferencesIn(new) /\ r[3] = f /\ r[4] = new[t][id][f.name]
    BY ReferredTo
  <1>2. f.to \in Tables
    BY ReferenceField
  <1>3. CASE r \in ReferencesIn(rows)
    <2>1. PICK u \in Tables : \E i \in DOMAIN rows[u] : \E g \in ReferenceFields(u) :
               r = <<u, i, g, rows[u][i][g.name]>>
      BY <1>3, ReferenceIn
    <2>2. id \in DOMAIN rows[t] /\ new[t][id][f.name] = rows[t][id][f.name]
      BY <2>1
    <2>3. rows[t][id][f.name] \in DOMAIN rows[f.to]
      BY <2>2 DEF Kept
    <2> QED
      BY <1>2, <2>2, <2>3
  <1>4. CASE r \notin ReferencesIn(rows)
    BY <1>1, <1>4
  <1> QED
    BY <1>3, <1>4

(* Nulling a child leaves every other reference as it was.                 *)
Nulled(t, kid, field, rows, new) ==
    /\ \A u \in Tables : DOMAIN new[u] = DOMAIN rows[u]
    /\ \A u \in Tables : \A id \in DOMAIN rows[u] : <<u, id>> # <<t, kid>> => new[u][id] = rows[u][id]
    /\ \A u \in Tables : \A id \in DOMAIN rows[u] : \A x \in FieldNames(u) :
          \/ new[u][id][x] = rows[u][id][x] /\ <<u, id, x>> # <<t, kid, field>>
          \/ new[u][id][x] = Null

LEMMA NullsOnly ==
    ASSUME NEW s, StoreFits(s), NEW t \in Tables, NEW kid, NEW old, NEW field \in FieldNames(t),
           kid \in DOMAIN s.rows[t] => s.rows[t][kid] = old
    PROVE  Nulled(t, kid, field, s.rows, Updated(s, t, kid, [old EXCEPT ![field] = Null]).rows)
  <1> DEFINE row == [old EXCEPT ![field] = Null]
             new == Updated(s, t, kid, row)
  <1>1. CASE kid \notin DOMAIN s.rows[t]
    <2>1. new = s
      BY <1>1 DEF Updated
    <2> QED
      BY <1>1, <2>1 DEF Nulled
  <1>2. CASE kid \in DOMAIN s.rows[t]
    <2>1. /\ DOMAIN new.rows = Tables
          /\ DOMAIN new.rows[t] = DOMAIN s.rows[t] /\ new.rows[t][kid] = Stored(row)
          /\ \A i \in DOMAIN s.rows[t] : i # kid => new.rows[t][i] = s.rows[t][i]
          /\ \A u \in Tables : u # t => new.rows[u] = s.rows[u]
      BY <1>2, UpdatedShape
    <2>2. old = s.rows[t][kid] /\ DOMAIN old = FieldNames(t)
      BY <1>2 DEF StoreFits, Fits
    <2>3. /\ DOMAIN row = FieldNames(t) /\ row[field] = Null
          /\ \A x \in FieldNames(t) : x # field => row[x] = old[x]
      BY <2>2
    <2> HIDE DEF row
    <2>4. \A x \in FieldNames(t) : Stored(row)[x] = IF row[x] = NaN THEN Null ELSE row[x]
      BY <2>3 DEF Stored
    <2>5. \A x \in FieldNames(t) : \/ Stored(row)[x] = old[x] /\ x # field
                                   \/ Stored(row)[x] = Null
      BY <2>3, <2>4
    <2> HIDE DEF new
    <2>6. \A u \in Tables : DOMAIN new.rows[u] = DOMAIN s.rows[u]
      BY <2>1
    <2>7. ASSUME NEW u \in Tables, NEW id \in DOMAIN s.rows[u], NEW x \in FieldNames(u)
          PROVE  \/ new.rows[u][id][x] = s.rows[u][id][x] /\ <<u, id, x>> # <<t, kid, field>>
                 \/ new.rows[u][id][x] = Null
      <3>1. CASE u # t
        BY <2>1, <3>1
      <3>2. CASE u = t /\ id # kid
        BY <2>1, <3>2
      <3>3. CASE u = t /\ id = kid
        BY <2>1, <2>2, <2>5, <3>3
      <3> QED
        BY <3>1, <3>2, <3>3
    <2>9. \A u \in Tables : \A id \in DOMAIN s.rows[u] :
              <<u, id>> # <<t, kid>> => new.rows[u][id] = s.rows[u][id]
      BY <2>1
    <2>8. Nulled(t, kid, field, s.rows, new.rows)
      BY <2>6, <2>7, <2>9 DEF Nulled
    <2> QED
      BY <2>8 DEF new, row
  <1> QED
    BY <1>1, <1>2

LEMMA ReferenceNamed ==
    /\ \A t \in Tables : \A f \in ReferenceFields(t) : f.name \in FieldNames(t)
    /\ \A t : \A r \in References(t) : From(r) \in Tables /\ Column(r).name \in FieldNames(From(r))
  <1>1. \A t \in Tables : \A f \in ReferenceFields(t) : f.name \in FieldNames(t)
    BY DEF ReferenceFields, FieldNames, Range
  <1>2. ASSUME NEW t, NEW r \in References(t)
        PROVE  From(r) \in Tables /\ Column(r).name \in FieldNames(From(r))
    <2>1. PICK i \in DOMAIN TableOrder : \E j \in DOMAIN Fields[TableOrder[i]] : r = <<i, j>>
      BY DEF References
    <2>2. PICK j \in DOMAIN Fields[TableOrder[i]] : r = <<i, j>>
      BY <2>1
    <2>3. From(r) = TableOrder[i] /\ Column(r) = Fields[TableOrder[i]][j]
      BY <2>2 DEF From, Column
    <2> QED
      BY <2>3, ReferenceOf DEF FieldNames
  <1> QED
    BY <1>1, <1>2

LEMMA KeptByNulling ==
    ASSUME NEW s, NEW base, StoreFits(s), StoreFits(base), NEW keys, Kept(base.rows, s.rows, keys),
           NEW t, NEW kid, NEW field, NEW new, Nulled(t, kid, field, s.rows, new)
    PROVE  Kept(base.rows, new, keys)
  <1> SUFFICES ASSUME NEW u \in Tables, NEW id \in DOMAIN new[u], NEW f \in ReferenceFields(u),
                      new[u][id][f.name] \in DOMAIN base.rows[f.to]
               PROVE  new[u][id][f.name] \in DOMAIN new[f.to] \/ <<u, id>> \in keys
    BY DEF Kept
  <1>1. f.to \in Tables /\ f.name \in FieldNames(u)
    BY ReferenceField, ReferenceNamed
  <1>2. id \in DOMAIN s.rows[u] /\ DOMAIN new[f.to] = DOMAIN s.rows[f.to]
    BY <1>1 DEF Nulled
  <1>3. new[u][id][f.name] # Null
    BY <1>1, ValuesAssumption DEF StoreFits
  <1>4. new[u][id][f.name] = s.rows[u][id][f.name]
    BY <1>1, <1>2, <1>3 DEF Nulled
  <1> QED
    BY <1>2, <1>4 DEF Kept

LEMMA KidsByNulling ==
    ASSUME NEW rows, NEW t, NEW kid, NEW field, NEW new, Nulled(t, kid, field, rows, new),
           NEW u, NEW r \in References(u), NEW id \in Nat, NEW c \in Kids(new, r, id)
    PROVE  c \in Kids(rows, r, id) /\ <<From(r), c, Column(r).name>> # <<t, kid, field>>
  <1>1. From(r) \in Tables /\ Column(r).name \in FieldNames(From(r))
    BY ReferenceNamed
  <1>2. c \in DOMAIN rows[From(r)] /\ new[From(r)][c][Column(r).name] = id
    BY <1>1 DEF Kids, Nulled
  <1>3. id # Null
    BY ValuesAssumption
  <1> QED
    BY <1>1, <1>2, <1>3 DEF Kids, Nulled

(* A call stays done with what it was done with.                           *)
LEMMA ClearsStill ==
    ASSUME NEW f, NEW rows, NEW keys, Clears(f, rows, keys), f.refs \subseteq References(f.table),
           DOMAIN f.kids # {} => f.refs # {},
           NEW new, NEW left,
           \A r \in References(f.table) : \A c \in Kids(new, r, f.id) :
               c \in Kids(rows, r, f.id) /\ (<<From(r), c>> \in keys => <<From(r), c>> \in left)
    PROVE  Clears(f, new, left)
  <1>1. \A r \in References(f.table) \ f.refs : \A c \in Kids(new, r, f.id) : <<From(r), c>> \in left
    BY DEF Clears
  <1>2. CASE DOMAIN f.kids # {}
    <2>1. NextReference(f.refs) \in References(f.table)
      BY <1>2, NextReferenceOf
    <2> QED
      BY <1>1, <2>1 DEF Clears
  <1> QED
    BY <1>1, <1>2 DEF Clears

(* A row that goes takes its own references along, and leaves none to it.  *)
LEMMA RowsWithout ==
    ASSUME NEW s, StoreFits(s), NEW t \in Tables, NEW id
    PROVE  LET new == Without(s, t, id).rows
           IN \A u \in Tables : /\ \A i : i \in DOMAIN new[u] <=> i \in DOMAIN s.rows[u] /\ <<u, i>> # <<t, id>>
                                /\ \A i \in DOMAIN new[u] : new[u][i] = s.rows[u][i]
  <1> DEFINE new == Without(s, t, id).rows
  <1>1. /\ new[t] = [i \in DOMAIN s.rows[t] \ {id} |-> s.rows[t][i]]
        /\ \A u \in Tables : u # t => new[u] = s.rows[u]
    BY WithoutShape
  <1> HIDE DEF new
  <1>2. DOMAIN new[t] = DOMAIN s.rows[t] \ {id} /\ \A i \in DOMAIN new[t] : new[t][i] = s.rows[t][i]
    BY <1>1
  <1>3. \A u \in Tables : /\ \A i : i \in DOMAIN new[u] <=> i \in DOMAIN s.rows[u] /\ <<u, i>> # <<t, id>>
                          /\ \A i \in DOMAIN new[u] : new[u][i] = s.rows[u][i]
    BY <1>1, <1>2
  <1> QED
    BY <1>3 DEF new

LEMMA KeptByDeletion ==
    ASSUME NEW s, StoreFits(s), NEW base, NEW keys, Kept(base, s.rows, keys),
           NEW f, f.table \in Tables, f.refs = {}, Clears(f, s.rows, keys)
    PROVE  Kept(base, Without(s, f.table, f.id).rows, keys \ {<<f.table, f.id>>})
  <1> DEFINE new == Without(s, f.table, f.id).rows
  <1>1. \A u \in Tables : /\ \A i : i \in DOMAIN new[u] <=> i \in DOMAIN s.rows[u] /\ <<u, i>> # <<f.table, f.id>>
                          /\ \A i \in DOMAIN new[u] : new[u][i] = s.rows[u][i]
    BY RowsWithout
  <1> HIDE DEF new
  <1>2. ASSUME NEW u \in Tables, NEW i \in DOMAIN new[u], NEW g \in ReferenceFields(u),
               new[u][i][g.name] \in DOMAIN base[g.to]
        PROVE  new[u][i][g.name] \in DOMAIN new[g.to] \/ <<u, i>> \in keys \ {<<f.table, f.id>>}
    <2> DEFINE to == new[u][i][g.name]
    <2>1. to = s.rows[u][i][g.name] /\ i \in DOMAIN s.rows[u] /\ <<u, i>> # <<f.table, f.id>>
      BY <1>1
    <2>2. to \in DOMAIN base[g.to] /\ g.to \in Tables
      BY <1>2, ReferenceField
    <2>3. to \in DOMAIN s.rows[g.to] \/ <<u, i>> \in keys
      BY <2>1, <2>2 DEF Kept
    <2>4. CASE <<g.to, to>> = <<f.table, f.id>>
      <3>1. PICK r \in References(f.table) : From(r) = u /\ Column(r) = g
        BY <2>4, ReferenceField
      <3>2. i \in Kids(s.rows, r, f.id)
        BY <2>1, <2>4, <3>1 DEF Kids
      <3> QED
        BY <2>1, <3>1, <3>2 DEF Clears
    <2>5. CASE <<g.to, to>> # <<f.table, f.id>>
      BY <1>1, <2>1, <2>2, <2>3, <2>5
    <2> QED
      BY <2>4, <2>5
  <1> QED
    BY <1>2 DEF Kept, new

LEMMA KidsByDeletion ==
    ASSUME NEW s, StoreFits(s), NEW t \in Tables, NEW id, NEW u, NEW r \in References(u), NEW k,
           NEW c \in Kids(Without(s, t, id).rows, r, k)
    PROVE  c \in Kids(s.rows, r, k) /\ <<From(r), c>> # <<t, id>>
  <1>1. From(r) \in Tables
    BY ReferenceOf
  <1> QED
    BY <1>1, RowsWithout DEF Kids

-----------------------------------------------------------------------------
(* The stack of calls.                                                     *)

LEMMA StackEmpty == \A rows, keys : Stack(<<>>, rows, keys)
  <1>1. DOMAIN <<>> = {}
    OBVIOUS
  <1> QED
    BY <1>1 DEF Stack

LEMMA StackPushed ==
    ASSUME NEW fs, IsSeq(fs), NEW rows, NEW keys, NEW f,
           \A i \in DOMAIN fs : Clears(fs[i], rows, keys) /\ ~Nulls(fs[i]),
           Clears(f, rows, keys), Hydrated(f, rows)
    PROVE  Stack(Append(fs, f), rows, keys)
  <1> DEFINE new == Append(fs, f)
  <1>1. /\ IsSeq(new)
        /\ Len(fs) \in Nat /\ Len(new) = Len(fs) + 1 /\ DOMAIN fs = 1..Len(fs)
        /\ DOMAIN new = 1..(Len(fs) + 1)
        /\ \A i \in 1..Len(fs) : new[i] = fs[i]
        /\ new[Len(fs) + 1] = f
    BY AppendTo
  <1> HIDE DEF new
  <1>2. Last(new) = f
    BY <1>1 DEF Last
  <1> DEFINE n == Len(new)
  <1>3. /\ \A i \in DOMAIN new : i = n \/ i \in DOMAIN fs
        /\ \A i \in DOMAIN fs : i # n /\ new[i] = fs[i]
        /\ new[n] = f
    BY <1>1
  <1> HIDE DEF n
  <1>4. Stack(new, rows, keys)
    BY <1>2, <1>3 DEF Stack, n
  <1> QED
    BY <1>4 DEF new

(* The calls below the innermost one, when the rows and keys change.       *)
LEMMA StackBelow ==
    ASSUME NEW fs, IsSeq(fs), fs # <<>>, NEW rows, NEW keys, Stack(fs, rows, keys)
    PROVE  /\ IsSeq(Front(fs)) /\ Clears(Last(fs), rows, keys) /\ Hydrated(Last(fs), rows)
           /\ \A i \in DOMAIN Front(fs) : /\ Front(fs)[i] = fs[i] /\ i \in DOMAIN fs
                                          /\ Clears(fs[i], rows, keys) /\ ~Nulls(fs[i])
  <1>1. /\ IsSeq(Front(fs))
        /\ Len(fs) \in Nat \ {0} /\ DOMAIN fs = 1..Len(fs)
        /\ DOMAIN Front(fs) = 1..(Len(fs) - 1)
        /\ \A i \in 1..(Len(fs) - 1) : Front(fs)[i] = fs[i]
        /\ Last(fs) = fs[Len(fs)] /\ Len(fs) \in DOMAIN fs
    BY FrontOf
  <1>2. \A i \in DOMAIN Front(fs) : Front(fs)[i] = fs[i] /\ i \in DOMAIN fs /\ i # Len(fs)
    BY <1>1
  <1> QED
    BY <1>1, <1>2 DEF Stack

LEMMA StackPopped ==
    ASSUME NEW fs, IsSeq(fs), NEW rows, NEW keys,
           \A i \in DOMAIN fs : Clears(fs[i], rows, keys) /\ ~Nulls(fs[i])
    PROVE  Stack(fs, rows, keys)
  <1>1. fs # <<>> => Last(fs) = fs[Len(fs)] /\ Len(fs) \in DOMAIN fs
    BY FrontOf
  <1> QED
    BY <1>1 DEF Stack, Hydrated

-----------------------------------------------------------------------------
(* The steps.                                                              *)

LEMMA TiedStill ==
    ASSUME TiedInv, UNCHANGED <<store, levels, frames, deleting>>
    PROVE  TiedInv'
  BY DEF TiedInv, InTransaction

LEMMA TiedUnwind ==
    ASSUME MachineInv, TiedInv, InTransaction, NEW left, Unwind(left)
    PROVE  TiedInv'
  <1>1. /\ Len(levels) \in {1, 2} /\ DOMAIN levels = 1..Len(levels)
        /\ Last(levels) = levels[Len(levels)]
        /\ IsSeq(Front(levels)) /\ Len(Front(levels)) = Len(levels) - 1
        /\ Len(levels) = 1 => Front(levels) = <<>>
        /\ Len(levels) = 2 => Front(levels) # <<>> /\ Front(levels)[1] = levels[1]
    BY LevelsOf DEF MachineInv
  <1>2. frames' = <<>> /\ deleting' = {} /\ store' = Last(levels) /\ levels' = Front(levels)
    BY DEF Unwind
  <1>3. CASE Len(levels) = 1
    BY <1>1, <1>2, <1>3 DEF TiedInv, InTransaction
  <1>4. CASE Len(levels) = 2
    <2>1. Kept(levels[1].rows, levels[1].rows, {}) /\ Kept(levels[1].rows, levels[2].rows, {})
      BY <1>1, <1>4 DEF TiedInv
    <2>2. levels' # <<>> /\ levels'[1] = levels[1] /\ store' = levels[2]
      BY <1>1, <1>2, <1>4
    <2>3. DOMAIN levels' = {1}
      <3>1. DOMAIN levels' = 1..1
        BY <1>1, <1>2, <1>4, FrontOf
      <3> QED
        BY <3>1
    <2> QED
      BY <1>2, <2>1, <2>2, <2>3, StackEmpty DEF TiedInv
  <1> QED
    BY <1>1, <1>3, <1>4

LEMMA TiedFails ==
    ASSUME MachineInv, TiedInv, InTransaction, NEW ok, NEW t, Fails(ok, t)
    PROVE  TiedInv'
  BY TiedUnwind DEF Fails

LEMMA NoneDeleted ==
    ASSUME MachineInv, frames = <<>>
    PROVE  deleting = {}
  <1>1. DOMAIN <<>> = {}
    OBVIOUS
  <1> QED
    BY <1>1 DEF MachineInv, FrameInv, FramesFit

(* An operation writes a row.                                              *)
Grows(rows, new) == \A t \in Tables : DOMAIN rows[t] \subseteq DOMAIN new[t]

LEMMA TiedWrites ==
    ASSUME MachineInv, TiedInv, ReferencesLive, InTransaction, frames = <<>>,
           UNCHANGED <<levels, frames, deleting>>, Grows(store.rows, store'.rows)
    PROVE  TiedInv'
  <1>1. deleting = {}
    BY NoneDeleted
  <1>2. Kept(levels[1].rows, store'.rows, {})
    BY <1>1, KeptByWrites DEF TiedInv, ReferencesLive, Grows
  <1> QED
    BY <1>1, <1>2, StackEmpty DEF TiedInv

LEMMA RowsGrow ==
    ASSUME NEW s, StoreFits(s), NEW t \in Tables
    PROVE  /\ \A row : Grows(s.rows, Inserted(s, t, row).rows)
           /\ \A id, row : Grows(s.rows, Updated(s, t, id, row).rows)
           /\ \A row, k, id : k \in Tokens => Grows(s.rows, Consumed(Inserted(s, t, row), k, id).rows)
  <1>1. ASSUME NEW row
        PROVE  Grows(s.rows, Inserted(s, t, row).rows)
    <2> DEFINE new == Inserted(s, t, row)
    <2>1. /\ new.rows[t] = Put(s.rows[t], s.next[t], Stored(row))
          /\ \A u \in Tables : u # t => new.rows[u] = s.rows[u]
      BY DEF Inserted, StoreFits
    <2> HIDE DEF new
    <2>2. DOMAIN s.rows[t] \subseteq DOMAIN new.rows[t]
      BY <2>1 DEF Put
    <2>3. Grows(s.rows, new.rows)
      BY <2>1, <2>2 DEF Grows
    <2> QED
      BY <2>3 DEF new
  <1>2. ASSUME NEW id, NEW row
        PROVE  Grows(s.rows, Updated(s, t, id, row).rows)
    <2>1. CASE id \in DOMAIN s.rows[t]
      <3>1. /\ DOMAIN Updated(s, t, id, row).rows[t] = DOMAIN s.rows[t]
            /\ \A u \in Tables : u # t => Updated(s, t, id, row).rows[u] = s.rows[u]
        BY <2>1, UpdatedShape
      <3> QED
        BY <3>1 DEF Grows
    <2>2. CASE id \notin DOMAIN s.rows[t]
      BY <2>2 DEF Grows, Updated
    <2> QED
      BY <2>1, <2>2
  <1>3. ASSUME NEW row, NEW k \in Tokens, NEW id
        PROVE  Grows(s.rows, Consumed(Inserted(s, t, row), k, id).rows)
    <2> DEFINE new == Inserted(s, t, row)
    <2>1. DOMAIN new = DOMAIN s
      BY DEF Inserted, StoreFits
    <2>2. Grows(s.rows, new.rows)
      BY <1>1
    <2> HIDE DEF new
    <2>3. Consumed(new, k, id).rows = new.rows
      BY <2>1 DEF Consumed, StoreFits
    <2> QED
      BY <2>2, <2>3 DEF new
  <1> QED
    BY <1>1, <1>2, <1>3

LEMMA TiedOperation ==
    ASSUME MachineInv, TiedInv, ReferencesLive, NEW kind, Running(kind), kind \notin {"try", "release"},
           \/ Grows(store.rows, store'.rows) /\ UNCHANGED <<levels, frames, deleting>>
           \/ \E ok, t : Fails(ok, t)
    PROVE  TiedInv'
  BY OperationOf, TiedWrites, TiedFails

LEMMA WritesGrow ==
    ASSUME MachineInv, NEW kind, Running(kind), kind \notin {"try", "release"}, NEW ok, NEW s, NEW tally,
           Writes(ok, Head(ops).table, s, tally),
           \/ \E row : s = Inserted(store, Head(ops).table, row)
           \/ \E id, row : s = Updated(store, Head(ops).table, id, row)
           \/ \E row, id : \E k \in Tokens : s = Consumed(Inserted(store, Head(ops).table, row), k, id)
    PROVE  Grows(store.rows, store'.rows) /\ UNCHANGED <<levels, frames, deleting>>
  <1>1. store' = s /\ UNCHANGED <<levels, frames, deleting>>
    BY DEF Writes
  <1>2. StoreFits(store) /\ Head(ops).table \in Tables
    BY OperationOf
  <1>3. Grows(store.rows, s.rows)
    BY <1>2, RowsGrow
  <1> QED
    BY <1>1, <1>3

LEMMA GrowsItself == \A rows : Grows(rows, rows)
  BY DEF Grows

LEMMA TiedOps ==
    ASSUME MachineInv, TiedInv, ReferencesLive,
           InsertOp \/ PatchOp \/ UpsertOp \/ EntityOp \/ CreateDraft \/ SaveDraft
    PROVE  TiedInv'
  <1>1. CASE InsertOp
    <2>1. Running("insert")
      BY <1>1 DEF InsertOp
    <2> QED
      BY <1>1, <2>1, WritesGrow, TiedOperation DEF InsertOp
  <1>2. CASE PatchOp
    <2>1. Running("patch")
      BY <1>2 DEF PatchOp
    <2> QED
      BY <1>2, <2>1, WritesGrow, TiedOperation DEF PatchOp
  <1>3. CASE UpsertOp
    <2>1. Running("upsert")
      BY <1>3 DEF UpsertOp
    <2> QED
      BY <1>3, <2>1, WritesGrow, TiedOperation DEF UpsertOp
  <1>4. CASE EntityOp
    <2>1. Running("entity")
      BY <1>4 DEF EntityOp
    <2> QED
      BY <1>4, <2>1, WritesGrow, TiedOperation DEF EntityOp
  <1>5. CASE CreateDraft
    <2>1. Running("draft")
      BY <1>5 DEF CreateDraft
    <2>2. StoreFits(store)
      BY <2>1, OperationOf
    <2>3. \A drafts : [store EXCEPT !.drafts = drafts].rows = store.rows
      BY <2>2 DEF StoreFits
    <2> QED
      BY <1>5, <2>1, <2>3, GrowsItself, TiedOperation DEF CreateDraft
  <1>6. CASE SaveDraft
    <2>1. Running("save")
      BY <1>6 DEF SaveDraft
    <2>2. Head(ops).token \in Tokens
      BY <2>1, OperationOf DEF Plain
    <2> QED
      BY <1>6, <2>1, <2>2, WritesGrow, GrowsItself, TiedOperation DEF SaveDraft
  <1> QED
    BY <1>1, <1>2, <1>3, <1>4, <1>5, <1>6

LEMMA TiedBegin == ASSUME MachineInv, Begin PROVE TiedInv'
  <1>1. ~InTransaction /\ levels' = <<store>> /\ UNCHANGED <<store, frames, deleting>>
    BY DEF Begin
  <1>2. frames' = <<>> /\ deleting' = {}
    BY <1>1, NothingOpen
  <1>3. <<store>>[1] = store /\ DOMAIN <<store>> = {1}
    OBVIOUS
  <1> QED
    BY <1>1, <1>2, <1>3, KeptItself, StackEmpty DEF TiedInv

LEMMA TiedCommit == ASSUME MachineInv, TiedInv, Commit PROVE TiedInv'
  <1>1. CASE GuardsHold
    BY <1>1 DEF Commit, TiedInv, InTransaction
  <1>2. CASE ~GuardsHold
    BY <1>2, TiedUnwind DEF Commit, Throw
  <1> QED
    BY <1>1, <1>2

LEMMA TiedTry == ASSUME MachineInv, TiedInv, Try PROVE TiedInv'
  <1>1. InTransaction /\ frames = <<>> /\ levels' = Append(levels, store) /\ UNCHANGED <<store, frames, deleting>>
    BY DEF Try, Running
  <1>2. IsSeq(levels)
    BY DEF MachineInv, StoreInv
  <1> DEFINE more == Append(levels, store)
  <1>3. /\ IsSeq(more)
        /\ Len(levels) \in Nat /\ Len(more) = Len(levels) + 1 /\ DOMAIN levels = 1..Len(levels)
        /\ DOMAIN more = 1..(Len(levels) + 1) /\ more # <<>>
        /\ \A i \in 1..Len(levels) : more[i] = levels[i]
        /\ more[Len(levels) + 1] = store
    BY <1>2, AppendTo
  <1> HIDE DEF more
  <1>4. \A i \in DOMAIN more : more[i] = store \/ (i \in DOMAIN levels /\ more[i] = levels[i])
    BY <1>3
  <1>5. more[1] = levels[1]
    <2>1. 1 \in 1..Len(levels)
      BY <1>1, LevelsOf DEF MachineInv
    <2> QED
      BY <1>3, <2>1
  <1>6. deleting = {}
    BY <1>1, NoneDeleted
  <1>7. \A i \in DOMAIN more : Kept(more[1].rows, more[i].rows, {})
    BY <1>1, <1>4, <1>5, <1>6 DEF TiedInv
  <1> QED
    BY <1>1, <1>5, <1>6, <1>7, StackEmpty DEF TiedInv, more

LEMMA TiedRelease == ASSUME MachineInv, TiedInv, ReleaseSavepoint PROVE TiedInv'
  <1>1. /\ InTransaction /\ frames = <<>> /\ ops # <<>> /\ Head(ops).op = "release"
        /\ levels' = Front(levels) /\ UNCHANGED <<store, frames, deleting>>
    BY DEF ReleaseSavepoint, Running
  <1>2. Left(1)
    BY <1>1, HeadOf DEF MachineInv
  <1>3. Len(levels) = 2
    BY <1>1, <1>2, LevelsOf DEF MachineInv, Left
  <1>4. IsSeq(levels') /\ Len(levels') = 1 /\ levels' # <<>> /\ levels'[1] = levels[1]
    BY <1>1, <1>3, LevelsOf DEF MachineInv
  <1>5. DOMAIN levels' = {1}
    <2>1. DOMAIN levels' = 1..1
      BY <1>4, FrontOf
    <2> QED
      BY <2>1
  <1> QED
    BY <1>1, <1>4, <1>5, KeptItself DEF TiedInv

-----------------------------------------------------------------------------
(* The steps of a deletion.                                                *)

LEMMA TopTied ==
    ASSUME MachineInv, TiedInv, frames # <<>>
    PROVE  /\ InTransaction /\ StoreFits(store) /\ StoreFits(levels[1])
           /\ FrameFits(Top, guards, req.user) /\ Top.table \in Tables
           /\ Kept(levels[1].rows, store.rows, deleting)
           /\ IsSeq(Front(frames)) /\ Clears(Top, store.rows, deleting) /\ Hydrated(Top, store.rows)
           /\ \A i \in DOMAIN Front(frames) :
                 LET f == Front(frames)[i]
                 IN /\ Clears(f, store.rows, deleting) /\ ~Nulls(f)
                    /\ f.refs \subseteq References(f.table) /\ f.id \in Nat
                    /\ DOMAIN f.kids # {} => f.refs # {}
  <1>1. /\ InTransaction /\ StoreFits(store) /\ StoreFits(levels[1]) /\ guards \subseteq Tables
        /\ FrameFits(Top, guards, req.user)
    BY TopOf
  <1>2. IsSeq(frames) /\ \A i \in DOMAIN frames : FrameFits(frames[i], guards, req.user)
    BY DEF MachineInv, FrameInv, FramesFit
  <1>3. Stack(frames, store.rows, deleting) /\ Kept(levels[1].rows, store.rows, deleting)
    BY <1>1 DEF TiedInv
  <1>4. /\ IsSeq(Front(frames)) /\ Clears(Top, store.rows, deleting) /\ Hydrated(Top, store.rows)
        /\ \A i \in DOMAIN Front(frames) :
              /\ Front(frames)[i] = frames[i] /\ i \in DOMAIN frames
              /\ Clears(frames[i], store.rows, deleting) /\ ~Nulls(frames[i])
    BY <1>2, <1>3, StackBelow DEF Top
  <1>5. ASSUME NEW i \in DOMAIN Front(frames)
        PROVE  LET f == Front(frames)[i]
               IN /\ Clears(f, store.rows, deleting) /\ ~Nulls(f)
                  /\ f.refs \subseteq References(f.table) /\ f.id \in Nat
                  /\ DOMAIN f.kids # {} => f.refs # {}
    BY <1>2, <1>4 DEF FrameFits
  <1>6. Top.table \in Tables
    BY <1>1 DEF FrameFits
  <1> QED
    BY <1>1, <1>3, <1>4, <1>5, <1>6

(* A transaction goes on with other rows, keys and calls.                  *)
LEMMA TiedStep ==
    ASSUME TiedInv, InTransaction, UNCHANGED levels,
           Kept(levels[1].rows, store'.rows, deleting'), Stack(frames', store'.rows, deleting')
    PROVE  TiedInv'
  BY DEF TiedInv, InTransaction

(* A call is entered above others that null nothing, and has looked at     *)
(* nothing yet.                                                            *)
LEMMA NewFrameClears ==
    ASSUME NEW t, NEW id, NEW rows, NEW keys
    PROVE  Clears(Frame(t, id), rows, keys) /\ ~Nulls(Frame(t, id)) /\ Hydrated(Frame(t, id), rows)
  <1> DEFINE f == Frame(t, id)
  <1>1. f.table = t /\ f.id = id /\ f.refs = References(t) /\ f.kids = <<>>
    BY DEF Frame
  <1>2. DOMAIN <<>> = {}
    OBVIOUS
  <1> HIDE DEF f
  <1>3. Clears(f, rows, keys) /\ ~Nulls(f) /\ Hydrated(f, rows)
    BY <1>1, <1>2 DEF Clears, Nulls, Hydrated
  <1> QED
    BY <1>3 DEF f

LEMMA TiedEnter ==
    ASSUME MachineInv, TiedInv, InTransaction, NEW t, NEW id, NEW rest, IsSeq(rest),
           Enter(t, id, rest), UNCHANGED <<store, levels>>,
           \A i \in DOMAIN rest : Clears(rest[i], store.rows, deleting \union {<<t, id>>}) /\ ~Nulls(rest[i])
    PROVE  TiedInv'
  <1>1. Kept(levels[1].rows, store.rows, deleting)
    BY DEF TiedInv
  <1>2. CASE <<t, id>> \in deleting
    <2>1. frames' = rest /\ deleting' = deleting /\ deleting \union {<<t, id>>} = deleting
      BY <1>2 DEF Enter
    <2>2. Stack(rest, store.rows, deleting)
      BY <2>1, StackPopped
    <2> QED
      BY <1>1, <2>1, <2>2, TiedStep
  <1>3. CASE <<t, id>> \notin deleting
    <2>1. frames' = Append(rest, Frame(t, id)) /\ deleting' = deleting \union {<<t, id>>}
      BY <1>3 DEF Enter
    <2>2. Stack(Append(rest, Frame(t, id)), store.rows, deleting \union {<<t, id>>})
      BY StackPushed, NewFrameClears
    <2>3. Kept(levels[1].rows, store.rows, deleting \union {<<t, id>>})
      BY <1>1, KeptByMore
    <2> QED
      BY <2>1, <2>2, <2>3, TiedStep
  <1> QED
    BY <1>2, <1>3

LEMMA TiedDeleteOp == ASSUME MachineInv, TiedInv, DeleteOp PROVE TiedInv'
  <1> DEFINE o == Head(ops)
  <1>1. InTransaction
    BY DEF DeleteOp, Running
  <1>2. CASE Throw
    BY <1>1, <1>2, TiedUnwind DEF Throw
  <1>3. CASE Enter(o.table, o.id, <<>>) /\ UNCHANGED <<store, levels>>
    <2>1. IsSeq(<<>>) /\ DOMAIN <<>> = {}
      BY NoOps
    <2> QED
      BY <1>1, <1>3, <2>1, TiedEnter
  <1> QED
    BY <1>2, <1>3 DEF DeleteOp

LEMMA FoundClears ==
    ASSUME NEW f, NEW g, NEW u, FrameFits(f, g, u), NEW keys, f.refs # {}, Childless(f),
           Clears(f, store.rows, keys)
    PROVE  LET r == NextReference(f.refs)
               kids == Children(r, f.id)
               new == [f EXCEPT !.kids = kids, !.refs = IF DOMAIN kids = {} THEN @ \ {r} ELSE @]
           IN Clears(new, store.rows, keys) /\ Hydrated(new, store.rows)
  <1> DEFINE r == NextReference(f.refs)
             kids == Children(r, f.id)
             new == [f EXCEPT !.kids = kids, !.refs = IF DOMAIN kids = {} THEN @ \ {r} ELSE @]
  <1>1. /\ DOMAIN kids = Kids(store.rows, r, f.id)
        /\ \A c \in DOMAIN kids : kids[c] = store.rows[From(r)][c]
    BY DEF Children, Kids
  <1>2. DOMAIN f = {"table", "id", "refs", "kids"}
    BY DEF FrameFits
  <1>3. /\ new.table = f.table /\ new.id = f.id /\ new.kids = kids
        /\ new.refs = IF DOMAIN kids = {} THEN f.refs \ {r} ELSE f.refs
    BY <1>2
  <1>4. \A q \in References(f.table) \ f.refs : \A c \in Kids(store.rows, q, f.id) : <<From(q), c>> \in keys
    BY DEF Clears
  <1> HIDE DEF new, kids
  <1>5. CASE DOMAIN kids = {}
    <2>1. \A q \in References(f.table) \ new.refs : \A c \in Kids(store.rows, q, f.id) : <<From(q), c>> \in keys
      BY <1>1, <1>3, <1>4, <1>5
    <2>2. Clears(new, store.rows, keys) /\ Hydrated(new, store.rows)
      BY <1>3, <1>5, <2>1 DEF Clears, Hydrated, Nulls
    <2> QED
      BY <2>2 DEF new, kids
  <1>6. CASE DOMAIN kids # {}
    <2>1. new.refs = f.refs /\ NextReference(new.refs) = r
      BY <1>3, <1>6
    <2> HIDE DEF r
    <2>2. Clears(new, store.rows, keys)
      BY <1>1, <1>3, <1>4, <2>1 DEF Clears
    <2>3. Hydrated(new, store.rows)
      BY <1>1, <1>3, <2>1 DEF Hydrated
    <2> QED
      BY <2>2, <2>3 DEF new, kids, r
  <1> QED
    BY <1>5, <1>6

LEMMA TiedFindChildren == ASSUME MachineInv, TiedInv, FindChildren PROVE TiedInv'
  <1> DEFINE r == NextReference(Top.refs)
             kids == Children(r, Top.id)
             f == [Top EXCEPT !.kids = kids, !.refs = IF DOMAIN kids = {} THEN @ \ {r} ELSE @]
  <1>1. frames # <<>> /\ Top.refs # {} /\ Childless(Top)
    BY DEF FindChildren
  <1>2. InTransaction
    BY <1>1, TopOf
  <1>3. CASE Throw
    BY <1>2, <1>3, TiedUnwind DEF Throw
  <1>4. CASE Replace(f) /\ UNCHANGED <<store, levels, deleting>>
    <2>1. /\ FrameFits(Top, guards, req.user) /\ Clears(Top, store.rows, deleting)
          /\ Kept(levels[1].rows, store.rows, deleting) /\ IsSeq(Front(frames))
          /\ \A i \in DOMAIN Front(frames) :
                Clears(Front(frames)[i], store.rows, deleting) /\ ~Nulls(Front(frames)[i])
      BY <1>1, TopTied
    <2>2. Clears(f, store.rows, deleting) /\ Hydrated(f, store.rows)
      BY <1>1, <2>1, FoundClears
    <2> HIDE DEF f
    <2>3. Stack(frames', store.rows, deleting)
      BY <1>4, <2>1, <2>2, StackPushed DEF Replace
    <2> QED
      BY <1>2, <1>4, <2>1, <2>3, TiedStep
  <1> QED
    BY <1>3, <1>4 DEF FindChildren

(* A child has been dealt with: it refers no longer, or is being deleted.  *)
LEMMA AdvancedClears ==
    ASSUME NEW f, NEW g, NEW u, FrameFits(f, g, u), NEW rows, NEW keys, ~Childless(f),
           Clears(f, rows, keys), NEW new, NEW more,
           \A q \in References(f.table) : \A c \in Kids(new, q, f.id) :
               c \in Kids(rows, q, f.id) /\ (<<From(q), c>> \in keys => <<From(q), c>> \in more),
           LET r == NextReference(f.refs)
           IN \A c \in Kids(new, r, f.id) : c = NextChild(f) => <<From(r), c>> \in more
    PROVE  Clears(Advanced(f), new, more)
  <1> DEFINE r == NextReference(f.refs)
             kid == NextChild(f)
             left == DOMAIN f.kids \ {kid}
             a == Advanced(f)
  <1>1. DOMAIN f = {"table", "id", "refs", "kids"} /\ f.refs \subseteq References(f.table)
        /\ f.refs # {} /\ DOMAIN f.kids # {}
    BY AdvancedFits DEF FrameFits, Childless
  <1>2. r \in References(f.table)
    BY <1>1, NextReferenceOf
  <1>3. /\ a.table = f.table /\ a.id = f.id
        /\ a.kids = [i \in left |-> f.kids[i]]
        /\ a.refs = IF left = {} THEN f.refs \ {r} ELSE f.refs
    BY <1>1 DEF Advanced
  <1>4. DOMAIN a.kids = left
    BY <1>3
  <1>5. \A q \in References(f.table) \ f.refs : \A c \in Kids(new, q, f.id) : <<From(q), c>> \in more
    BY DEF Clears
  <1>6. \A c \in Kids(new, r, f.id) : c \in left \/ <<From(r), c>> \in more
    <2> SUFFICES ASSUME NEW c \in Kids(new, r, f.id), c # kid
                 PROVE  c \in DOMAIN f.kids \/ <<From(r), c>> \in more
      OBVIOUS
    <2>1. c \in Kids(rows, r, f.id) /\ (<<From(r), c>> \in keys => <<From(r), c>> \in more)
      BY <1>2
    <2>2. c \in DOMAIN f.kids \/ <<From(r), c>> \in keys
      BY <1>1, <2>1 DEF Clears
    <2> QED
      BY <2>1, <2>2
  <1> HIDE DEF a, left
  <1>7. CASE left = {}
    <2>1. \A q \in References(f.table) \ a.refs : q = r \/ q \in References(f.table) \ f.refs
      BY <1>3, <1>7
    <2>2. Clears(a, new, more)
      BY <1>3, <1>4, <1>5, <1>6, <1>7, <2>1 DEF Clears
    <2> QED
      BY <2>2 DEF a
  <1>8. CASE left # {}
    <2>1. a.refs = f.refs /\ NextReference(a.refs) = r
      BY <1>3, <1>8
    <2> HIDE DEF r
    <2>2. Clears(a, new, more)
      BY <1>3, <1>4, <1>5, <1>6, <2>1 DEF Clears
    <2> QED
      BY <2>2 DEF a
  <1> QED
    BY <1>7, <1>8

(* What is left of the children is what the call found.                    *)
LEMMA AdvancedKeeps ==
    ASSUME NEW f, NEW g, NEW u, FrameFits(f, g, u), ~Childless(f)
    PROVE  LET r == NextReference(f.refs)
           IN /\ Nulls(Advanced(f)) => Column(r).onDelete = "setNull"
              /\ \A rows, new :
                    /\ \A c \in DOMAIN new[From(r)] :
                          c # NextChild(f) => c \in DOMAIN rows[From(r)] /\ new[From(r)][c] = rows[From(r)][c]
                    /\ Hydrated(f, rows)
                    => Hydrated(Advanced(f), new)
  <1> DEFINE r == NextReference(f.refs)
             kid == NextChild(f)
             left == DOMAIN f.kids \ {kid}
             a == Advanced(f)
  <1>1. DOMAIN f = {"table", "id", "refs", "kids"} /\ DOMAIN f.kids # {}
    BY DEF FrameFits, Childless
  <1>2. /\ a.kids = [i \in left |-> f.kids[i]]
        /\ a.refs = IF left = {} THEN f.refs \ {r} ELSE f.refs
    BY <1>1 DEF Advanced
  <1>3. DOMAIN a.kids = left /\ \A c \in left : a.kids[c] = f.kids[c] /\ c # kid /\ c \in DOMAIN f.kids
    BY <1>2
  <1> HIDE DEF a
  <1>4. left # {} => NextReference(a.refs) = r
    BY <1>2
  <1> HIDE DEF left, r
  <1>5. Nulls(a) => Column(r).onDelete = "setNull"
    BY <1>3, <1>4 DEF Nulls
  <1>6. ASSUME NEW rows, NEW new, Hydrated(f, rows),
               \A c \in DOMAIN new[From(r)] :
                  c # kid => c \in DOMAIN rows[From(r)] /\ new[From(r)][c] = rows[From(r)][c]
        PROVE  Hydrated(a, new)
    <2> SUFFICES ASSUME Nulls(a), NEW c \in DOMAIN a.kids, c \in DOMAIN new[From(r)]
                 PROVE  new[From(r)][c] = a.kids[c]
      BY <1>3, <1>4 DEF Hydrated, Nulls
    <2>1. c \in left /\ c # kid /\ c \in DOMAIN f.kids /\ a.kids[c] = f.kids[c]
      BY <1>3
    <2>2. Nulls(f)
      BY <1>1, <1>5 DEF Nulls, r
    <2>3. c \in DOMAIN rows[From(r)] /\ new[From(r)][c] = rows[From(r)][c]
      BY <1>6, <2>1
    <2>4. rows[From(r)][c] = f.kids[c]
      BY <1>6, <2>1, <2>2, <2>3 DEF Hydrated, r
    <2> QED
      BY <2>1, <2>3, <2>4
  <1> QED
    BY <1>5, <1>6 DEF a, r

LEMMA TiedNullChild == ASSUME MachineInv, TiedInv, NullChild PROVE TiedInv'
  <1> DEFINE r == NextReference(Top.refs)
             t == From(r)
             kid == NextChild(Top)
             field == Column(r).name
             row == [Top.kids[kid] EXCEPT ![field] = Null]
             ok == Allowed(t, "update") /\ Valid(t, row)
  <1>1. frames # <<>> /\ ~Childless(Top) /\ Column(r).onDelete = "setNull"
    BY DEF NullChild
  <1>2. InTransaction
    BY <1>1, TopOf
  <1>3. CASE Fails(ok, t)
    BY <1>2, <1>3, TiedFails
  <1>4. CASE store' = Updated(store, t, kid, row) /\ Replace(Advanced(Top)) /\ UNCHANGED <<levels, deleting>>
    <2>1. /\ StoreFits(store) /\ StoreFits(levels[1])
          /\ FrameFits(Top, guards, req.user)
          /\ Kept(levels[1].rows, store.rows, deleting)
          /\ IsSeq(Front(frames)) /\ Clears(Top, store.rows, deleting) /\ Hydrated(Top, store.rows)
      BY <1>1, TopTied
    <2>2. \A i \in DOMAIN Front(frames) :
             LET f == Front(frames)[i]
             IN /\ Clears(f, store.rows, deleting) /\ ~Nulls(f)
                /\ f.refs \subseteq References(f.table) /\ f.id \in Nat
                /\ DOMAIN f.kids # {} => f.refs # {}
      BY <1>1, TopTied
    <2>3. Top.refs # {} /\ kid \in DOMAIN Top.kids /\ Top.refs \subseteq References(Top.table) /\ Top.id \in Nat
      BY <1>1, <2>1, AdvancedFits DEF FrameFits
    <2>4. r \in References(Top.table) /\ t \in Tables /\ field \in FieldNames(t)
      BY <2>3, NextReferenceOf, ReferenceNamed
    <2>5. kid \in DOMAIN store.rows[t] => store.rows[t][kid] = Top.kids[kid]
      BY <1>1, <2>1, <2>3 DEF Hydrated, Nulls
    <2>6. Nulled(t, kid, field, store.rows, store'.rows)
      BY <1>4, <2>1, <2>4, <2>5, NullsOnly
    <2>7. Kept(levels[1].rows, store'.rows, deleting)
      BY <2>1, <2>6, KeptByNulling
    <2>8. \A u : \A q \in References(u) : \A id \in Nat : \A c \in Kids(store'.rows, q, id) :
             c \in Kids(store.rows, q, id) /\ <<From(q), c, Column(q).name>> # <<t, kid, field>>
      BY <2>6, KidsByNulling
    <2>9. Clears(Advanced(Top), store'.rows, deleting)
      <3>1. \A q \in References(Top.table) : \A c \in Kids(store'.rows, q, Top.id) : c \in Kids(store.rows, q, Top.id)
        BY <2>3, <2>8
      <3>2. \A c \in Kids(store'.rows, r, Top.id) : c # kid
        BY <2>3, <2>4, <2>8
      <3> QED
        BY <1>1, <2>1, <3>1, <3>2, AdvancedClears
    <2>10. Hydrated(Advanced(Top), store'.rows)
      <3>1. \A c \in DOMAIN store'.rows[t] :
               c # kid => c \in DOMAIN store.rows[t] /\ store'.rows[t][c] = store.rows[t][c]
        BY <2>4, <2>6 DEF Nulled
      <3> QED
        BY <1>1, <2>1, <3>1, AdvancedKeeps
    <2>11. ASSUME NEW i \in DOMAIN Front(frames)
           PROVE  Clears(Front(frames)[i], store'.rows, deleting) /\ ~Nulls(Front(frames)[i])
      <3> DEFINE f == Front(frames)[i]
      <3>1. /\ Clears(f, store.rows, deleting) /\ ~Nulls(f)
            /\ f.refs \subseteq References(f.table) /\ f.id \in Nat
            /\ DOMAIN f.kids # {} => f.refs # {}
        BY <2>2
      <3> HIDE DEF f
      <3>2. \A q \in References(f.table) : \A c \in Kids(store'.rows, q, f.id) : c \in Kids(store.rows, q, f.id)
        BY <2>8, <3>1
      <3>3. Clears(f, store'.rows, deleting)
        BY <3>1, <3>2, ClearsStill
      <3> QED
        BY <3>1, <3>3 DEF f
    <2> HIDE DEF r, t, kid, field, row
    <2>12. Stack(frames', store'.rows, deleting)
      BY <1>4, <2>1, <2>9, <2>10, <2>11, StackPushed DEF Replace
    <2> QED
      BY <1>2, <1>4, <2>7, <2>12, TiedStep
  <1> QED
    BY <1>3, <1>4 DEF NullChild

LEMMA TiedCascadeChild == ASSUME MachineInv, TiedInv, CascadeChild PROVE TiedInv'
  <1> DEFINE r == NextReference(Top.refs)
             t == From(r)
             kid == NextChild(Top)
             rest == Append(Front(frames), Advanced(Top))
             more == deleting \union {<<t, kid>>}
  <1>1. frames # <<>> /\ ~Childless(Top) /\ Column(r).onDelete = "cascade"
    BY DEF CascadeChild
  <1>2. InTransaction
    BY <1>1, TopOf
  <1>3. CASE Throw
    BY <1>2, <1>3, TiedUnwind DEF Throw
  <1>4. CASE Enter(t, kid, rest) /\ UNCHANGED <<store, levels>>
    <2>1. /\ FrameFits(Top, guards, req.user) /\ IsSeq(Front(frames)) /\ Clears(Top, store.rows, deleting)
      BY <1>1, TopTied
    <2>2. \A i \in DOMAIN Front(frames) :
             LET f == Front(frames)[i]
             IN /\ Clears(f, store.rows, deleting) /\ ~Nulls(f)
                /\ f.refs \subseteq References(f.table)
                /\ DOMAIN f.kids # {} => f.refs # {}
      BY <1>1, TopTied
    <2>3. Clears(Advanced(Top), store.rows, more)
      BY <1>1, <2>1, AdvancedClears
    <2>4. ~Nulls(Advanced(Top))
      BY <1>1, <2>1, AdvancedKeeps
    <2>5. ASSUME NEW i \in DOMAIN Front(frames)
          PROVE  Clears(Front(frames)[i], store.rows, more) /\ ~Nulls(Front(frames)[i])
      BY <2>2, ClearsStill
    <2>6. /\ IsSeq(rest) /\ Len(Front(frames)) \in Nat /\ DOMAIN Front(frames) = 1..Len(Front(frames))
          /\ DOMAIN rest = 1..(Len(Front(frames)) + 1)
          /\ \A i \in 1..Len(Front(frames)) : rest[i] = Front(frames)[i]
          /\ rest[Len(Front(frames)) + 1] = Advanced(Top)
      BY <2>1, AppendTo
    <2> HIDE DEF rest
    <2>7. \A i \in DOMAIN rest : rest[i] = Advanced(Top) \/ (i \in DOMAIN Front(frames) /\ rest[i] = Front(frames)[i])
      BY <2>6
    <2>8. \A i \in DOMAIN rest : Clears(rest[i], store.rows, more) /\ ~Nulls(rest[i])
      BY <2>3, <2>4, <2>5, <2>7
    <2> HIDE DEF r, t, kid
    <2> QED
      BY <1>2, <1>4, <2>6, <2>8, TiedEnter
  <1> QED
    BY <1>3, <1>4 DEF CascadeChild

LEMMA TiedDeleteRow == ASSUME MachineInv, TiedInv, DeleteRow PROVE TiedInv'
  <1> DEFINE key == <<Top.table, Top.id>>
  <1>1. frames # <<>> /\ Childless(Top) /\ Top.refs = {}
    BY DEF DeleteRow
  <1>2. InTransaction
    BY <1>1, TopOf
  <1>3. CASE Fails(TRUE, Top.table)
    BY <1>2, <1>3, TiedFails
  <1>4. CASE /\ store' = Without(store, Top.table, Top.id)
             /\ frames' = Front(frames) /\ deleting' = deleting \ {key}
             /\ UNCHANGED levels
    <2>1. /\ StoreFits(store) /\ Top.table \in Tables
          /\ Kept(levels[1].rows, store.rows, deleting)
          /\ IsSeq(Front(frames)) /\ Clears(Top, store.rows, deleting)
      BY <1>1, TopTied
    <2>2. \A i \in DOMAIN Front(frames) :
             LET f == Front(frames)[i]
             IN /\ Clears(f, store.rows, deleting) /\ ~Nulls(f)
                /\ f.refs \subseteq References(f.table)
                /\ DOMAIN f.kids # {} => f.refs # {}
      BY <1>1, TopTied
    <2>3. Kept(levels[1].rows, store'.rows, deleting')
      BY <1>1, <1>4, <2>1, KeptByDeletion
    <2>4. \A u : \A q \in References(u) : \A id : \A c \in Kids(store'.rows, q, id) :
             c \in Kids(store.rows, q, id) /\ <<From(q), c>> # key
      <3> SUFFICES ASSUME NEW u, NEW q \in References(u), NEW id, NEW c \in Kids(store'.rows, q, id)
                   PROVE  c \in Kids(store.rows, q, id) /\ <<From(q), c>> # key
        OBVIOUS
      <3>1. c \in Kids(Without(store, Top.table, Top.id).rows, q, id)
        BY <1>4
      <3>2. c \in Kids(store.rows, q, id) /\ <<From(q), c>> # <<Top.table, Top.id>>
        BY <2>1, <3>1, KidsByDeletion
      <3> QED
        BY <3>2
    <2> HIDE DEF key
    <2>5. ASSUME NEW i \in DOMAIN Front(frames)
          PROVE  Clears(Front(frames)[i], store'.rows, deleting') /\ ~Nulls(Front(frames)[i])
      <3> DEFINE f == Front(frames)[i]
      <3>1. /\ Clears(f, store.rows, deleting) /\ ~Nulls(f)
            /\ f.refs \subseteq References(f.table)
            /\ DOMAIN f.kids # {} => f.refs # {}
        BY <2>2
      <3> HIDE DEF f
      <3>2. \A q \in References(f.table) : \A c \in Kids(store'.rows, q, f.id) :
               /\ c \in Kids(store.rows, q, f.id)
               /\ <<From(q), c>> \in deleting => <<From(q), c>> \in deleting'
        BY <1>4, <2>4
      <3>3. Clears(f, store'.rows, deleting')
        BY <3>1, <3>2, ClearsStill
      <3> QED
        BY <3>1, <3>3 DEF f
    <2>6. Stack(frames', store'.rows, deleting')
      BY <1>4, <2>1, <2>5, StackPopped
    <2> QED
      BY <1>2, <1>4, <2>3, <2>6, TiedStep
  <1> QED
    BY <1>3, <1>4 DEF DeleteRow

LEMMA TiedServing ==
    ASSUME MachineInv, TiedInv, ReferencesLive, Serving
    PROVE  TiedInv'
  <1>1. CASE Answer
    BY <1>1, TiedStill DEF Answer
  <1> QED
    BY <1>1, TiedBegin, TiedCommit, TiedTry, TiedRelease, TiedOps, TiedDeleteOp, TiedFindChildren,
       TiedNullChild, TiedCascadeChild, TiedDeleteRow DEF Serving

LEMMA TiedIdle ==
    ASSUME MachineInv, req = None, UNCHANGED levels
    PROVE  TiedInv'
  BY IdleOf DEF TiedInv, InTransaction

LEMMA TiedNext ==
    ASSUME MachineInv, TiedInv, ReferencesLive, Next
    PROVE  TiedInv'
  <1>1. CASE Serving
    BY <1>1, TiedServing
  <1>2. CASE Crash
    BY <1>2 DEF Crash, TiedInv, InTransaction
  <1>3. CASE Tick
    BY <1>3, TiedStill DEF Tick, machine
  <1>4. CASE ~Serving /\ ~Crash /\ ~Tick
    <2>1. req = None /\ UNCHANGED levels
      BY <1>4 DEF Next, Receive, StartJob, ImportJob, Serve, Deploy, InstallLicense, ExpireDraft, machine
    <2> QED
      BY <2>1, TiedIdle
  <1> QED
    BY <1>1, <1>2, <1>3, <1>4

LEMMA TiedData ==
    ASSUME IInv, TiedInv, [DataNext]_<<vars, previews>>, [ReferencesLive]_<<vars, previews>>
    PROVE  TiedInv'
  <1>1. CASE UNCHANGED <<vars, previews>>
    BY <1>1, TiedStill DEF vars, machine
  <1>2. CASE Working /\ ReferencesLive
    BY <1>2, TiedNext DEF Working, IInv
  <1>3. CASE \E a \in Apps : DeleteData(a)
    BY <1>3, TiedIdle DEF DeleteData, Administer, Machine, IInv
  <1>4. CASE \E u \in Admins : (\E p \in Packages : Preview(u, p)) \/ (\E p \in previews : Replacement(u, p))
    BY <1>4, TiedIdle DEF Preview, Replacement, Administer, Machine, IInv
  <1>5. CASE \E p \in previews : ExpirePreview(p)
    BY <1>5, TiedStill DEF ExpirePreview, vars, machine
  <1> QED
    BY <1>1, <1>2, <1>3, <1>4, <1>5 DEF DataNext

-----------------------------------------------------------------------------
(* The data of whole apps.                                                 *)

(* What a preview saw was whole with what it brings.                       *)
SeenInv ==
    \A p \in previews : \A r \in Dangling(Over(p.rows, p.seen)) :
        AppOf[r[1]] # p.app /\ AppOf[r[3].to] # p.app

LEMMA OverElsewhere ==
    ASSUME StoreInv, NEW a, NEW incoming, DOMAIN incoming = AppTables(a)
    PROVE  Over(incoming, Elsewhere(a)) = With(a, incoming)
  <1>1. DOMAIN store.rows = Tables /\ DOMAIN Elsewhere(a) = Tables \ AppTables(a)
    BY DEF StoreInv, StoreFits, Elsewhere
  <1>2. \A t \in Tables \ AppTables(a) : Elsewhere(a)[t] = store.rows[t]
    BY DEF Elsewhere
  <1>3. AppTables(a) \subseteq Tables
    BY DEF AppTables
  <1> QED
    BY <1>1, <1>2, <1>3 DEF With, Over

LEMMA SeenNext ==
    ASSUME IInv, SeenInv, [DataNext]_<<vars, previews>>
    PROVE  SeenInv'
  <1>1. CASE previews' \subseteq previews
    BY <1>1 DEF SeenInv
  <1>2. ASSUME NEW u \in Admins, NEW p \in Packages, Preview(u, p)
        PROVE  SeenInv'
    <2> DEFINE new == [actor |-> u, app |-> p.app, rows |-> p.rows, seen |-> Elsewhere(p.app)]
    <2>1. previews' = previews \union {new} /\ validateReferences(p.app, p.rows)
      BY <1>2 DEF Preview
    <2>2. DOMAIN p.rows = AppTables(p.app)
      BY PackagesAssumption DEF AppTables
    <2>3. Over(new.rows, new.seen) = With(p.app, p.rows)
      BY <2>2, OverElsewhere DEF IInv, MachineInv
    <2>4. \A r \in Dangling(Over(new.rows, new.seen)) : AppOf[r[1]] # new.app /\ AppOf[r[3].to] # new.app
      BY <2>1, <2>3 DEF validateReferences
    <2> HIDE DEF new
    <2> QED
      BY <2>1, <2>4 DEF SeenInv
  <1>3. \/ previews' \subseteq previews
        \/ \E u \in Admins : \E p \in Packages : Preview(u, p)
    BY DEF DataNext, Working, DeleteData, Replacement, ExpirePreview
  <1> QED
    BY <1>1, <1>2, <1>3

(* No other app's rows change: what dangles among them did so before.      *)
LEMMA ElsewhereDangles ==
    ASSUME NEW a, NEW old, NEW new,
           \A t \in Tables : AppOf[t] # a => new[t] = old[t],
           NEW r \in Dangling(new), AppOf[r[1]] # a, AppOf[r[3].to] # a
    PROVE  r \in Dangling(old)
  <1>1. r \in ReferencesIn(new) /\ r[4] # Null /\ r[4] \notin DOMAIN new[r[3].to]
    BY DEF Dangling
  <1>2. PICK t \in Tables : \E id \in DOMAIN new[t] : \E f \in ReferenceFields(t) :
             r = <<t, id, f, new[t][id][f.name]>>
    BY <1>1, ReferenceIn
  <1>3. PICK id \in DOMAIN new[t] : \E f \in ReferenceFields(t) : r = <<t, id, f, new[t][id][f.name]>>
    BY <1>2
  <1>4. PICK f \in ReferenceFields(t) : r = <<t, id, f, new[t][id][f.name]>>
    BY <1>3
  <1>5. f.to \in Tables /\ new[t] = old[t] /\ new[f.to] = old[f.to]
    BY <1>4, ReferenceField
  <1>6. r \in ReferencesIn(old)
    BY <1>4, <1>5, ReferredTo
  <1> QED
    BY <1>1, <1>4, <1>5, <1>6 DEF Dangling

LEMMA ReplacedRows ==
    ASSUME MachineInv, NEW a, NEW incoming, DOMAIN incoming = AppTables(a), req = None,
           replaceData(a, incoming), UNCHANGED levels
    PROVE  /\ committed.rows = store.rows /\ committed'.rows = With(a, incoming)
           /\ \A t \in Tables : committed'.rows[t] = IF AppOf[t] = a THEN incoming[t] ELSE committed.rows[t]
  <1>1. store'.rows = With(a, incoming)
    BY DEF replaceData, MachineInv, StoreInv, StoreFits
  <1>2. levels = <<>>
    BY IdleOf DEF InTransaction
  <1>3. \A t \in Tables : With(a, incoming)[t] = IF AppOf[t] = a THEN incoming[t] ELSE store.rows[t]
    BY RowsOfApp DEF MachineInv
  <1> QED
    BY <1>1, <1>2, <1>3 DEF committed, InTransaction

LEMMA DeletionDangles ==
    ASSUME MachineInv, NEW a, DeleteData(a)
    PROVE  Dangling(committed'.rows) \subseteq Dangling(committed.rows)
  <1> DEFINE empty == [t \in AppTables(a) |-> << >>]
             old == committed.rows
             new == committed'.rows
  <1>1. DOMAIN empty = AppTables(a) /\ \A t \in AppTables(a) : empty[t] = <<>>
    OBVIOUS
  <1>2. replaceData(a, empty) /\ req = None /\ UNCHANGED levels
    BY DEF DeleteData, Administer, Machine
  <1> HIDE DEF empty
  <1>3. old = store.rows /\ \A t \in Tables : new[t] = IF AppOf[t] = a THEN empty[t] ELSE old[t]
    BY <1>1, <1>2, ReplacedRows
  <1>4. \A r \in ReferencesIn(old) : AppOf[r[1]] # a /\ AppOf[r[3].to] = a => r[4] = Null
    BY <1>3 DEF DeleteData
  <1> HIDE DEF old, new
  <1>5. SUFFICES ASSUME NEW r \in Dangling(new) PROVE r \in Dangling(old)
    BY DEF old, new
  <1>6. r \in ReferencesIn(new) /\ r[4] # Null
    BY DEF Dangling
  <1>7. PICK t \in Tables : \E id \in DOMAIN new[t] : \E f \in ReferenceFields(t) :
             r = <<t, id, f, new[t][id][f.name]>>
    BY <1>6, ReferenceIn
  <1>8. PICK id \in DOMAIN new[t] : \E f \in ReferenceFields(t) : r = <<t, id, f, new[t][id][f.name]>>
    BY <1>7
  <1>9. PICK f \in ReferenceFields(t) : r = <<t, id, f, new[t][id][f.name]>>
    BY <1>8
  <1>10. AppOf[t] # a
    <2>1. DOMAIN <<>> = {}
      OBVIOUS
    <2> QED
      BY <1>1, <1>3, <2>1 DEF AppTables
  <1>11. AppOf[f.to] # a
    <2>1. new[t] = old[t]
      BY <1>3, <1>10
    <2>2. r \in ReferencesIn(old)
      BY <1>9, <2>1, ReferredTo
    <2> QED
      BY <1>4, <1>6, <1>9, <1>10, <2>2
  <1>12. \A u \in Tables : AppOf[u] # a => new[u] = old[u]
    BY <1>3
  <1>13. AppOf[r[1]] # a /\ AppOf[r[3].to] # a
    BY <1>9, <1>10, <1>11
  <1> QED
    BY <1>12, <1>13, ElsewhereDangles

LEMMA ReplacementDangles ==
    ASSUME IInv, SeenInv, NEW u, NEW p \in previews, Replacement(u, p)
    PROVE  \/ Dangling(committed'.rows) \subseteq Dangling(committed.rows)
           \/ \E q \in previews \ previews' : Elsewhere(q.app) # q.seen
  <1>1. CASE Elsewhere(p.app) # p.seen
    <2>1. p \in previews \ previews'
      BY DEF Replacement
    <2> QED
      BY <1>1, <2>1
  <1>2. CASE Elsewhere(p.app) = p.seen
    <2>1. DOMAIN p.rows = AppTables(p.app)
      BY DEF IInv, PreviewInv
    <2>2. replaceData(p.app, p.rows) /\ req = None /\ UNCHANGED levels
      BY DEF Replacement, Administer, Machine
    <2>3. /\ committed'.rows = With(p.app, p.rows)
          /\ \A t \in Tables : committed'.rows[t] = IF AppOf[t] = p.app THEN p.rows[t] ELSE committed.rows[t]
      BY <2>1, <2>2, ReplacedRows DEF IInv
    <2>4. committed'.rows = Over(p.rows, p.seen)
      BY <1>2, <2>1, <2>3, OverElsewhere DEF IInv, MachineInv
    <2>5. ASSUME NEW r \in Dangling(committed'.rows) PROVE r \in Dangling(committed.rows)
      <3>1. AppOf[r[1]] # p.app /\ AppOf[r[3].to] # p.app
        BY <2>4 DEF SeenInv
      <3>2. \A t \in Tables : AppOf[t] # p.app => committed'.rows[t] = committed.rows[t]
        BY <2>3
      <3> QED
        BY <3>1, <3>2, ElsewhereDangles
    <2> QED
      BY <2>5
  <1> QED
    BY <1>1, <1>2

(* A request commits no reference to what it took away.                    *)
LEMMA CommitDangles ==
    ASSUME MachineInv, TiedInv, InTransaction, committed' = store, frames = <<>>
    PROVE  \A r \in Dangling(committed'.rows) : req # None /\ r[4] \notin DOMAIN committed.rows[r[3].to]
  <1>1. req # None
    BY DEF MachineInv, RequestInv, InTransaction
  <1>2. Kept(levels[1].rows, store.rows, {}) /\ committed = levels[1]
    BY NoneDeleted DEF TiedInv, committed
  <1>3. ASSUME NEW r \in Dangling(store.rows), r[4] \in DOMAIN levels[1].rows[r[3].to]
        PROVE  FALSE
    <2>1. r \in ReferencesIn(store.rows) /\ r[4] \notin DOMAIN store.rows[r[3].to]
      BY DEF Dangling
    <2>2. PICK t \in Tables : \E id \in DOMAIN store.rows[t] : \E f \in ReferenceFields(t) :
               r = <<t, id, f, store.rows[t][id][f.name]>>
      BY <2>1, ReferenceIn
    <2> QED
      BY <1>2, <1>3, <2>1, <2>2 DEF Kept
  <1> QED
    BY <1>1, <1>2, <1>3

LEMMA DanglingStep ==
    ASSUME IInv, TiedInv, SeenInv, [DataNext]_<<vars, previews>>
    PROVE  \/ committed'.rows = committed.rows
           \/ \A r \in Dangling(committed'.rows) \ Dangling(committed.rows) :
                  req # None /\ r[4] \notin DOMAIN committed.rows[r[3].to]
           \/ \E p \in previews \ previews' : Elsewhere(p.app) # p.seen
  <1>1. CASE Working
    <2>1. \/ committed'.rows = committed.rows
          \/ InTransaction /\ frames = <<>> /\ committed' = store
      BY <1>1, NextCommits DEF Working, IInv
    <2> QED
      BY <2>1, CommitDangles DEF IInv
  <1>2. CASE \E a \in Apps : DeleteData(a)
    <2>1. Dangling(committed'.rows) \subseteq Dangling(committed.rows)
      BY <1>2, DeletionDangles DEF IInv
    <2> QED
      BY <2>1
  <1>3. CASE \E u \in Admins, p \in previews : Replacement(u, p)
    <2>1. \/ Dangling(committed'.rows) \subseteq Dangling(committed.rows)
          \/ \E q \in previews \ previews' : Elsewhere(q.app) # q.seen
      BY <1>3, ReplacementDangles
    <2> QED
      BY <2>1
  <1>4. CASE \/ \E u \in Admins, p \in Packages : Preview(u, p)
             \/ \E p \in previews : ExpirePreview(p)
             \/ UNCHANGED <<vars, previews>>
    <2>1. UNCHANGED <<store, levels>>
      BY <1>4 DEF Preview, Unserved, Machine, ExpirePreview, vars, machine
    <2> QED
      BY <2>1 DEF committed, InTransaction
  <1> QED
    BY <1>1, <1>2, <1>3, <1>4 DEF DataNext

(* No step takes a row away that is still referred to, along cascades,     *)
(* nulled references and cycles (deleteWithinTransaction()), and when an   *)
(* app's rows go or are replaced (appDataManagement.ts), as long as no     *)
(* script makes a row refer to one that its own transaction has deleted.   *)
THEOREM ReferencesHold ==
    DataSpec /\ [][ReferencesLive]_<<vars, previews>> => NothingDangles
  <1>1. DataInit => TiedInv /\ SeenInv
    BY DEF DataInit, Init, TiedInv, SeenInv, InTransaction
  <1>2. IInv /\ (TiedInv /\ SeenInv) /\ [DataNext]_<<vars, previews>> /\ [ReferencesLive]_<<vars, previews>>
           => (TiedInv /\ SeenInv)'
    BY TiedData, SeenNext
  <1>3. IInv /\ (TiedInv /\ SeenInv) /\ [DataNext]_<<vars, previews>>
           => [\/ committed'.rows = committed.rows
               \/ \A r \in Dangling(committed'.rows) \ Dangling(committed.rows) :
                      req # None /\ r[4] \notin DOMAIN committed.rows[r[3].to]
               \/ \E p \in previews \ previews' : Elsewhere(p.app) # p.seen]_<<vars, previews>>
    BY DanglingStep
  <1> QED
    BY <1>1, <1>2, <1>3, RecordsInvariance, PTL DEF DataSpec, NothingDangles

-----------------------------------------------------------------------------
(* Imports.                                                                *)

Added(base, s) ==
    UNION {{<<t, id>> : id \in DOMAIN s.rows[t] \ DOMAIN base.rows[t]} : t \in Tables}

(* What n insertions make of the base, besides updates.                    *)
Faithful(base, s, n, keys) ==
    /\ \A t \in Tables : DOMAIN base.rows[t] \subseteq DOMAIN s.rows[t]
    /\ IsFiniteSet(Added(base, s)) /\ n = Cardinality(Added(base, s))
    /\ \A k \in keys : Unique(base.rows[k[1]], k[2]) => Unique(s.rows[k[1]], k[2])

(* An import has no savepoints and deletes nothing; what it has counted is *)
(* what it has done, of the open transaction and of those before it.       *)
Tally == [inserted : Nat, updated : Nat, skipped : Nat]
Fair(o, r) == Imported(o, r.keys) /\ \A n \in SureKeys(r) : FoundAsStored(o, n)
ImportInv ==
    req # None /\ req.isolated =>
        /\ frames = <<>> /\ Len(levels) <= 1
        /\ \A o \in Range(ops) : Fair(o, req)
        /\ \A txn \in Range(todo) : \A o \in Range(txn) : Fair(o, req)
        /\ report \in Tally /\ Faithful(before, committed, report.inserted, SureKeys(req))
        /\ InTransaction => pending \in Tally /\ Faithful(before, store, pending.inserted, SureKeys(req))

LEMMA SureKeysAreKeys == \A r : SureKeys(r) \subseteq r.keys
  BY DEF SureKeys

LEMMA RangeOfTail ==
    ASSUME NEW s, IsSeq(s), s # <<>>
    PROVE  Range(Tail(s)) \subseteq Range(s) /\ Head(s) \in Range(s)
  <1>1. /\ IsSeq(Tail(s)) /\ Head(s) = s[1]
        /\ Len(s) \in Nat \ {0} /\ Len(Tail(s)) = Len(s) - 1
        /\ \A i \in 1..(Len(s) - 1) : Tail(s)[i] = s[i + 1]
    BY TailOf
  <1>2. \A q : IsSeq(q) => DOMAIN q = 1..Len(q)
    BY DEF IsSeq
  <1>3. DOMAIN s = 1..Len(s) /\ DOMAIN Tail(s) = 1..(Len(s) - 1)
    BY <1>1, <1>2
  <1>4. \A i \in 1..(Len(s) - 1) : i + 1 \in DOMAIN s
    BY <1>1, <1>3
  <1>5. 1 \in DOMAIN s
    BY <1>1, <1>3
  <1> QED
    BY <1>1, <1>3, <1>4, <1>5 DEF Range

LEMMA UniqueWithNew ==
    ASSUME NEW rows, NEW id, NEW row, NEW f, Unique(rows, f), id \notin DOMAIN rows,
           row[f] = Null \/ \A i \in DOMAIN rows : rows[i][f] # row[f]
    PROVE  Unique(Put(rows, id, row), f)
  BY DEF Unique, Keys, Put

LEMMA UniqueWithChanged ==
    ASSUME NEW rows, NEW id \in DOMAIN rows, NEW new, NEW f, Unique(rows, f),
           DOMAIN new = DOMAIN rows, new[id][f] \in {rows[id][f], Null},
           \A i \in DOMAIN rows : i # id => new[i] = rows[i]
    PROVE  Unique(new, f)
  BY DEF Unique, Keys

LEMMA FaithfulItself == \A s, keys : Faithful(s, s, 0, keys)
  <1> SUFFICES ASSUME NEW s, NEW keys
               PROVE  Faithful(s, s, 0, keys)
    OBVIOUS
  <1>1. Added(s, s) = {}
    BY DEF Added
  <1> QED
    BY <1>1, FS_EmptySet DEF Faithful

LEMMA FaithfulInserted ==
    ASSUME NEW base, NEW s, NEW n, NEW keys, Faithful(base, s, n, keys), StoreFits(s),
           NEW t \in Tables, NEW row, \A k \in keys : k[1] \in Tables,
           \A k \in keys : k[1] = t =>
               \/ Stored(row)[k[2]] = Null
               \/ \A i \in DOMAIN s.rows[t] : s.rows[t][i][k[2]] # Stored(row)[k[2]]
    PROVE  Faithful(base, Inserted(s, t, row), n + 1, keys)
  <1> DEFINE new == Inserted(s, t, row)
             id == s.next[t]
             record == Stored(row)
  <1>1. /\ DOMAIN new = DOMAIN s /\ DOMAIN new.rows = Tables
        /\ new.rows[t] = Put(s.rows[t], id, record)
        /\ \A u \in Tables : u # t => new.rows[u] = s.rows[u]
        /\ new.next = [s.next EXCEPT ![t] = @ + 1]
        /\ new.drafts = s.drafts /\ new.born = s.born
    BY InsertedShape
  <1>2. id \notin DOMAIN s.rows[t] /\ id \notin DOMAIN base.rows[t]
    BY DEF StoreFits, Faithful
  <1>3. \A k \in keys : k[1] = t =>
            record[k[2]] = Null \/ \A i \in DOMAIN s.rows[t] : s.rows[t][i][k[2]] # record[k[2]]
    OBVIOUS
  <1> HIDE DEF new, id, record
  <1>4. DOMAIN new.rows[t] = DOMAIN s.rows[t] \union {id}
    BY <1>1 DEF Put
  <1>5. \A u \in Tables : DOMAIN base.rows[u] \subseteq DOMAIN new.rows[u]
    BY <1>1, <1>4 DEF Faithful
  <1>6. Added(base, new) = Added(base, s) \union {<<t, id>>} /\ <<t, id>> \notin Added(base, s)
    <2>1. ASSUME NEW x
          PROVE  x \in Added(base, new) <=> x \in Added(base, s) \union {<<t, id>>}
      <3>1. x \in Added(base, new) <=> \E u \in Tables : \E i \in DOMAIN new.rows[u] \ DOMAIN base.rows[u] : x = <<u, i>>
        BY DEF Added
      <3>2. x \in Added(base, s) <=> \E u \in Tables : \E i \in DOMAIN s.rows[u] \ DOMAIN base.rows[u] : x = <<u, i>>
        BY DEF Added
      <3> QED
        BY <1>1, <1>2, <1>4, <3>1, <3>2
    <2>2. <<t, id>> \notin Added(base, s)
      BY <1>2 DEF Added
    <2> QED
      BY <2>1, <2>2
  <1>7. IsFiniteSet(Added(base, new)) /\ Cardinality(Added(base, new)) = n + 1
    BY <1>6, FS_AddElement DEF Faithful
  <1>8. ASSUME NEW k \in keys, Unique(base.rows[k[1]], k[2])
        PROVE  Unique(new.rows[k[1]], k[2])
    <2>1. Unique(s.rows[k[1]], k[2])
      BY <1>8 DEF Faithful
    <2>2. CASE k[1] = t
      BY <1>1, <1>2, <1>3, <2>1, <2>2, UniqueWithNew
    <2>3. CASE k[1] # t
      BY <1>1, <2>1, <2>3
    <2> QED
      BY <2>2, <2>3
  <1>9. Faithful(base, new, n + 1, keys)
    BY <1>5, <1>7, <1>8 DEF Faithful
  <1> QED
    BY <1>9 DEF new

LEMMA FaithfulUpdated ==
    ASSUME NEW base, NEW s, NEW n, NEW keys, Faithful(base, s, n, keys), StoreFits(s),
           NEW t \in Tables, NEW id \in DOMAIN s.rows[t], NEW row, \A k \in keys : k[1] \in Tables,
           \A k \in keys : k[1] = t => Stored(row)[k[2]] \in {s.rows[t][id][k[2]], Null}
    PROVE  Faithful(base, Updated(s, t, id, row), n, keys)
  <1> DEFINE new == Updated(s, t, id, row)
             record == Stored(row)
  <1>1. /\ DOMAIN new.rows[t] = DOMAIN s.rows[t] /\ new.rows[t][id] = record
        /\ \A i \in DOMAIN s.rows[t] : i # id => new.rows[t][i] = s.rows[t][i]
        /\ \A u \in Tables : u # t => new.rows[u] = s.rows[u]
    BY UpdatedShape
  <1>2. \A k \in keys : k[1] = t => record[k[2]] \in {s.rows[t][id][k[2]], Null}
    OBVIOUS
  <1> HIDE DEF new, record
  <1>3. \A u \in Tables : DOMAIN new.rows[u] = DOMAIN s.rows[u]
    BY <1>1
  <1>4. Added(base, new) = Added(base, s)
    BY <1>3 DEF Added
  <1>5. ASSUME NEW k \in keys, Unique(base.rows[k[1]], k[2])
        PROVE  Unique(new.rows[k[1]], k[2])
    <2>1. Unique(s.rows[k[1]], k[2])
      BY <1>5 DEF Faithful
    <2>2. CASE k[1] = t
      BY <1>1, <1>2, <2>1, <2>2, UniqueWithChanged
    <2>3. CASE k[1] # t
      BY <1>1, <2>1, <2>3
    <2> QED
      BY <2>2, <2>3
  <1>6. Faithful(base, new, n, keys)
    BY <1>3, <1>4, <1>5 DEF Faithful
  <1> QED
    BY <1>6 DEF new

-----------------------------------------------------------------------------
(* The steps of an import.                                                 *)

Importing == req # None /\ req.isolated

LEMMA KeysOfTables ==
    ASSUME MachineInv, Importing
    PROVE  \A k \in SureKeys(req) : k[1] \in Tables /\ k[2] \in FieldNames(k[1])
  BY ImportsAssumption, SureKeysAreKeys DEF MachineInv, RequestInv, Importing

LEMMA HeadIsImported ==
    ASSUME MachineInv, ImportInv, Importing, ops # <<>>
    PROVE  Fair(Head(ops), req) /\ Range(Tail(ops)) \subseteq Range(ops)
  BY RangeOfTail DEF MachineInv, RequestInv, ImportInv, Importing

LEMMA BaseOfImport ==
    ASSUME MachineInv, ImportInv, Importing, InTransaction
    PROVE  ~(Len(levels) > 1) /\ Last(levels) = levels[1] /\ Front(levels) = <<>>
  <1>1. IsSeq(levels) /\ levels # <<>> /\ Len(levels) <= 1
    BY DEF MachineInv, StoreInv, InTransaction, ImportInv, Importing
  <1>2. /\ IsSeq(Front(levels))
        /\ Len(levels) \in Nat \ {0} /\ Len(Front(levels)) = Len(levels) - 1 /\ DOMAIN levels = 1..Len(levels)
        /\ DOMAIN Front(levels) = 1..(Len(levels) - 1)
        /\ \A i \in 1..(Len(levels) - 1) : Front(levels)[i] = levels[i]
        /\ Last(levels) = levels[Len(levels)] /\ Len(levels) \in DOMAIN levels
    BY <1>1, FrontOf
  <1>3. Len(levels) = 1 /\ Len(Front(levels)) = 0
    BY <1>1, <1>2
  <1>4. \A q : IsSeq(q) /\ Len(q) = 0 => q = <<>>
    BY DEF IsSeq
  <1> QED
    BY <1>2, <1>3, <1>4

(* A row that fails takes its transaction with it, which then counts for   *)
(* nothing.                                                                *)
LEMMA ImportUnwind ==
    ASSUME MachineInv, ImportInv, Importing, InTransaction, NEW left, Unwind(left)
    PROVE  ImportInv'
  <1>1. /\ levels' = <<>> /\ store' = levels[1] /\ frames' = <<>> /\ ops' = <<>> /\ todo' = todo
        /\ report' = [report EXCEPT !.skipped = @ + 1] /\ UNCHANGED <<req, before>>
    <2>1. ~(Len(levels) > 1) /\ Last(levels) = levels[1] /\ Front(levels) = <<>>
      BY BaseOfImport
    <2> QED
      BY <2>1 DEF Unwind, Importing
  <1>2. report \in Tally /\ Faithful(before, levels[1], report.inserted, SureKeys(req))
    BY DEF ImportInv, Importing, committed
  <1>3. report' \in Tally /\ report'.inserted = report.inserted
    BY <1>1, <1>2 DEF Tally
  <1>4. ~InTransaction' /\ committed' = levels[1] /\ Range(ops') = {} /\ Len(levels') <= 1
    BY <1>1 DEF InTransaction, committed, Range
  <1>5. \A txn \in Range(todo) : \A o \in Range(txn) : Fair(o, req)
    BY DEF ImportInv, Importing
  <1> QED
    BY <1>1, <1>2, <1>3, <1>4, <1>5 DEF ImportInv

LEMMA ImportFails ==
    ASSUME MachineInv, ImportInv, Importing, InTransaction, NEW ok, NEW t, Fails(ok, t)
    PROVE  ImportInv'
  BY ImportUnwind DEF Fails

(* A row that is written is counted as what it is.                         *)
LEMMA ImportWrites ==
    ASSUME MachineInv, ImportInv, Importing, InTransaction, ops # <<>>,
           NEW ok, NEW t, NEW s, NEW tally, Writes(ok, t, s, tally),
           \/ tally = "inserted" /\ Faithful(before, s, pending.inserted + 1, SureKeys(req))
           \/ tally = "updated" /\ Faithful(before, s, pending.inserted, SureKeys(req))
    PROVE  ImportInv'
  <1>1. /\ store' = s /\ ops' = Tail(ops) /\ pending' = [pending EXCEPT ![tally] = @ + 1]
        /\ UNCHANGED <<levels, frames, req, todo, report, before>>
    BY DEF Writes
  <1>2. /\ frames = <<>> /\ Len(levels) <= 1 /\ pending \in Tally
        /\ \A o \in Range(ops) : Fair(o, req)
        /\ \A txn \in Range(todo) : \A o \in Range(txn) : Fair(o, req)
        /\ report \in Tally /\ Faithful(before, levels[1], report.inserted, SureKeys(req))
    BY DEF ImportInv, Importing, committed
  <1>3. pending' \in Tally /\ Faithful(before, s, pending'.inserted, SureKeys(req))
    BY <1>1, <1>2 DEF Tally
  <1>4. InTransaction' /\ committed' = levels[1]
    BY <1>1 DEF InTransaction, committed
  <1>5. Range(ops') \subseteq Range(ops)
    BY <1>1, HeadIsImported
  <1> QED
    BY <1>1, <1>2, <1>3, <1>4, <1>5 DEF ImportInv

(* A row gets the key it was looked up by, or none.                        *)
LEMMA StoredValue ==
    ASSUME NEW row, NEW f \in DOMAIN row
    PROVE  Stored(row)[f] \in {row[f], Null}
  BY DEF Stored

LEMMA SetValue ==
    ASSUME NEW row, NEW values, NEW f \in DOMAIN row
    PROVE  SetMany(row, values)[f] = IF f \in DOMAIN values THEN values[f] ELSE row[f]
  BY DEF SetMany

LEMMA Selected ==
    ASSUME MachineInv, NEW t \in Tables, NEW conditions, NEW id, id = FirstOnly(Select(t, conditions))
    PROVE  (id = None => Select(t, conditions) = {}) /\ (id # None => id \in Select(t, conditions))
  <1>1. Select(t, conditions) \in SUBSET Nat
    BY StoredRowFits DEF Select
  <1> DEFINE ids == Select(t, conditions)
  <1> HIDE DEF ids
  <1>2. /\ ids = {} => FirstOnly(ids) = None
        /\ ids # {} => FirstOnly(ids) \in ids /\ FirstOnly(ids) # None
    BY <1>1, FirstOnlyOf DEF ids
  <1> QED
    BY <1>2 DEF ids

LEMMA ImportInsertOp ==
    ASSUME MachineInv, ImportInv, Importing, InsertOp
    PROVE  ImportInv'
  <1> DEFINE o == Head(ops)
             row == SetMany(NewRecord(o.table), WritableBody(o.table, o.values))
             ok == /\ BodyAccepted(o.table, o.values, "create")
                   /\ Allowed(o.table, "create") /\ Valid(o.table, row)
  <1>1. Running("insert")
    BY DEF InsertOp
  <1>2. \/ Writes(ok, o.table, Inserted(store, o.table, row), "inserted")
        \/ Fails(ok, o.table)
    BY DEF InsertOp
  <1>3. InTransaction /\ ops # <<>> /\ o.op = "insert" /\ o.table \in Tables /\ StoreFits(store)
    BY <1>1, OperationOf
  <1>4. \A k \in SureKeys(req) : k[1] \in Tables /\ k[1] # o.table
    BY <1>3, HeadIsImported, KeysOfTables, SureKeysAreKeys DEF Fair, Imported
  <1> HIDE DEF o, row, ok
  <1>5. Faithful(before, store, pending.inserted, SureKeys(req))
    BY <1>3 DEF ImportInv, Importing
  <1>6. Faithful(before, Inserted(store, o.table, row), pending.inserted + 1, SureKeys(req))
    BY <1>3, <1>4, <1>5, FaithfulInserted
  <1> QED
    BY <1>2, <1>3, <1>6, ImportWrites, ImportFails

(* A new row gets the key, or none if the database cannot hold it.         *)
LEMMA UpsertedKey ==
    ASSUME NEW t \in Tables, NEW f \in FieldNames(t), NEW mapped, f \in DOMAIN mapped,
           BodyAccepted(t, mapped, "create")
    PROVE  SetMany(NewRecord(t), WritableBody(t, mapped))[f] = mapped[f]
  <1>1. f \in DOMAIN NewRecord(t) /\ NewRecord(t)[f] = Field(t, f).default
    BY DEF NewRecord
  <1>2. CASE f \in DOMAIN WritableBody(t, mapped)
    BY <1>1, <1>2, SetValue DEF WritableBody
  <1>3. CASE f \notin DOMAIN WritableBody(t, mapped)
    <2>1. Field(t, f).secret /\ mapped[f] \in {Mask, Null}
      BY <1>3 DEF WritableBody
    <2>2. mapped[f] = Null
      BY <2>1 DEF BodyAccepted
    <2>3. Field(t, f).default = Null
      BY <2>1, TablesAssumption
    <2> QED
      BY <1>1, <1>3, <2>2, <2>3, SetValue
  <1> QED
    BY <1>2, <1>3

LEMMA ImportUpsertOp ==
    ASSUME MachineInv, ImportInv, Importing, UpsertOp
    PROVE  ImportInv'
  <1> DEFINE o == Head(ops)
             mapped == Mapped(o.table, o.values)
             condition == [f \in {o.key} |-> mapped[f]]
             id == FirstOnly(Select(o.table, condition))
             operation == IF id = None THEN "create" ELSE "update"
             row == SetMany(IF id = None THEN NewRecord(o.table) ELSE store.rows[o.table][id],
                            WritableBody(o.table, mapped))
             ok == /\ Allowed(o.table, "read") \/ mapped[o.key] = Null
                   /\ BodyAccepted(o.table, mapped, operation)
                   /\ Allowed(o.table, operation) /\ Valid(o.table, row)
  <1>1. Running("upsert")
    BY DEF UpsertOp
  <1>2. \/ id = None /\ Writes(ok, o.table, Inserted(store, o.table, row), "inserted")
        \/ id # None /\ Writes(ok, o.table, Updated(store, o.table, id, row), "updated")
        \/ Fails(ok, o.table)
    BY DEF UpsertOp
  <1>3. InTransaction /\ ops # <<>> /\ o.op = "upsert" /\ o.table \in Tables /\ StoreFits(store)
    BY <1>1, OperationOf
  <1>4. \A k \in SureKeys(req) : k[1] = o.table => /\ o.key = k[2] /\ k[2] \in DOMAIN mapped
                                             /\ k[2] \in FieldNames(o.table)
    BY <1>3, HeadIsImported, KeysOfTables, SureKeysAreKeys DEF Fair, Imported, Mapped
  <1>5. \A k \in SureKeys(req) : k[1] \in Tables
    BY KeysOfTables
  <1>6. DOMAIN condition = {o.key} /\ condition[o.key] = mapped[o.key] /\ id = FirstOnly(Select(o.table, condition))
    OBVIOUS
  <1>7. /\ id # None => id \in DOMAIN store.rows[o.table] /\ store.rows[o.table][id][o.key] = mapped[o.key]
        /\ id = None /\ mapped[o.key] # Null =>
              \A i \in DOMAIN store.rows[o.table] : store.rows[o.table][i][o.key] # mapped[o.key]
    <2>1. o.table \in Tables
      BY <1>3
    <2> HIDE DEF o, mapped, condition, id, row, ok, operation
    <2>2. o.table \in Tables /\ DOMAIN condition = {o.key} /\ condition[o.key] = mapped[o.key] /\ id = FirstOnly(Select(o.table, condition))
      BY <1>6, <2>1
    <2>3. ASSUME id # None
          PROVE  id \in DOMAIN store.rows[o.table] /\ store.rows[o.table][id][o.key] = mapped[o.key]
      <3>1. id \in Select(o.table, condition)
        BY <2>2, <2>3, Selected
      <3> QED
        BY <2>2, <3>1 DEF Select
    <2>4. ASSUME id = None, mapped[o.key] # Null
          PROVE  \A i \in DOMAIN store.rows[o.table] : store.rows[o.table][i][o.key] # mapped[o.key]
      <3>1. Select(o.table, condition) = {}
        BY <2>2, <2>4, Selected
      <3> QED
        BY <2>2, <2>4, <3>1 DEF Select
    <2> QED
      BY <2>3, <2>4
  <1>8. Faithful(before, store, pending.inserted, SureKeys(req))
    BY <1>3 DEF ImportInv, Importing
  <1>9. CASE id = None /\ Writes(ok, o.table, Inserted(store, o.table, row), "inserted")
    <2>1. BodyAccepted(o.table, mapped, "create")
      BY <1>9 DEF Writes
    <2>2. row = SetMany(NewRecord(o.table), WritableBody(o.table, mapped))
      BY <1>9
    <2>3. DOMAIN row = FieldNames(o.table)
      BY <2>2 DEF SetMany, NewRecord
    <2> HIDE DEF o, mapped, condition, id, row, ok, operation
    <2>4. ASSUME NEW k \in SureKeys(req), k[1] = o.table
          PROVE  \/ Stored(row)[k[2]] = Null
                 \/ \A i \in DOMAIN store.rows[o.table] : store.rows[o.table][i][k[2]] # Stored(row)[k[2]]
      <3>1. row[k[2]] = mapped[k[2]]
        BY <1>3, <1>4, <2>1, <2>2, <2>4, UpsertedKey
      <3>2. Stored(row)[k[2]] \in {mapped[k[2]], Null}
        BY <1>4, <2>3, <2>4, <3>1, StoredValue
      <3> QED
        BY <1>4, <1>6, <1>7, <1>9, <2>4, <3>2
    <2>5. Faithful(before, Inserted(store, o.table, row), pending.inserted + 1, SureKeys(req))
      BY <1>3, <1>5, <1>8, <2>4, FaithfulInserted
    <2> QED
      BY <1>3, <1>9, <2>5, ImportWrites
  <1>10. CASE id # None /\ Writes(ok, o.table, Updated(store, o.table, id, row), "updated")
    <2>1. row = SetMany(store.rows[o.table][id], WritableBody(o.table, mapped))
      BY <1>10
    <2>2. \A f \in DOMAIN WritableBody(o.table, mapped) : WritableBody(o.table, mapped)[f] = mapped[f]
      BY DEF WritableBody
    <2> HIDE DEF o, mapped, condition, id, row, ok, operation
    <2>3. id \in DOMAIN store.rows[o.table] /\ Fits(o.table, store.rows[o.table][id])
      BY <1>3, <1>7, <1>10, StoredRowFits
    <2>4. DOMAIN row = FieldNames(o.table)
      BY <2>1, <2>3 DEF SetMany, Fits
    <2>5. ASSUME NEW k \in SureKeys(req), k[1] = o.table
          PROVE  Stored(row)[k[2]] \in {store.rows[o.table][id][k[2]], Null}
      <3>1. k[2] = o.key /\ k[2] \in DOMAIN store.rows[o.table][id]
        BY <1>4, <2>3, <2>5 DEF Fits
      <3>2. store.rows[o.table][id][k[2]] = mapped[k[2]]
        BY <1>6, <1>7, <1>10, <3>1
      <3>3. row[k[2]] = mapped[k[2]]
        BY <2>1, <2>2, <3>1, <3>2, SetValue
      <3> QED
        BY <1>4, <2>4, <2>5, <3>2, <3>3, StoredValue
    <2>6. Faithful(before, Updated(store, o.table, id, row), pending.inserted, SureKeys(req))
      BY <1>3, <1>5, <1>8, <2>3, <2>5, FaithfulUpdated
    <2> QED
      BY <1>3, <1>10, <2>6, ImportWrites
  <1> HIDE DEF o, ok
  <1>11. CASE Fails(ok, o.table)
    BY <1>3, <1>11, ImportFails
  <1> QED
    BY <1>2, <1>9, <1>10, <1>11

(* A header is looked up by its key alone, and created with it.            *)
LEMMA OverNothing == \A g : Over(<<>>, g) = [x \in DOMAIN g |-> g[x]]
  <1>1. DOMAIN <<>> = {}
    OBVIOUS
  <1> QED
    BY <1>1 DEF Over

LEMMA ImportEntityOp ==
    ASSUME MachineInv, ImportInv, Importing, EntityOp
    PROVE  ImportInv'
  <1> DEFINE o == Head(ops)
             own == IF o.parent = None THEN <<>> ELSE [f \in {o.parent} |-> root]
             keys == Over(own, [f \in {o.key} |-> Sought(o.table, f, o.values[f])])
             id == FirstOnly(Select(o.table, keys))
             operation == IF id = None THEN "create" ELSE "update"
             mapped == Mapped(o.table, o.values)
             entered == {g \in DOMAIN mapped : Editable(o.table, g, operation)}
             values == Over(own, [f \in entered |-> mapped[f]])
             sought == Sought(o.table, o.key, o.values[o.key])
             cell == ImportValue(o.table, o.key, o.values[o.key])
             row == SetMany(IF id = None THEN NewRecord(o.table) ELSE store.rows[o.table][id], values)
             ok == /\ o.values[o.key] # Null
                   /\ \A f \in DOMAIN values : values[f] # NaN
                   /\ Allowed(o.table, "read") /\ Allowed(o.table, operation) /\ Valid(o.table, row)
  <1>1. Running("entity")
    BY DEF EntityOp
  <1>2. \/ id = None /\ Writes(ok, o.table, Inserted(store, o.table, row), "inserted")
        \/ id # None /\ Writes(ok, o.table, Updated(store, o.table, id, row), "updated")
        \/ Fails(ok, o.table)
    BY DEF EntityOp
  <1>3. InTransaction /\ ops # <<>> /\ o.op = "entity" /\ o.table \in Tables /\ StoreFits(store)
    BY <1>1, OperationOf
  <1>4. \A k \in SureKeys(req) : k[1] = o.table =>
            /\ o.key = k[2] /\ k[2] \in DOMAIN o.values /\ k[2] \in FieldNames(o.table)
            /\ o.parent = None /\ Editable(o.table, k[2], "create") /\ cell \in {sought, NaN}
    BY <1>3, HeadIsImported, KeysOfTables, SureKeysAreKeys DEF Fair, Imported, FoundAsStored
  <1>5. \A k \in SureKeys(req) : k[1] \in Tables
    BY KeysOfTables
  <1>6. ASSUME o.parent = None
        PROVE  values = [f \in entered |-> mapped[f]] /\ DOMAIN keys = {o.key} /\ keys[o.key] = sought
    <2>1. own = <<>>
      BY <1>6
    <2> HIDE DEF o, own, mapped, entered
    <2> QED
      BY <2>1, OverNothing
  <1>7. id = FirstOnly(Select(o.table, keys)) /\ Faithful(before, store, pending.inserted, SureKeys(req))
    BY <1>3 DEF ImportInv, Importing
  <1>8. (id = None => Select(o.table, keys) = {}) /\ (id # None => id \in Select(o.table, keys))
    <2> HIDE DEF o, keys, id
    <2> QED
      BY <1>3, <1>7, Selected
  <1>9. DOMAIN mapped = DOMAIN o.values /\ (o.key \in DOMAIN o.values => mapped[o.key] = cell)
    BY DEF Mapped
  <1>10. CASE id = None /\ Writes(ok, o.table, Inserted(store, o.table, row), "inserted")
    <2>1. \A f \in DOMAIN values : values[f] # NaN
      BY <1>10 DEF Writes
    <2>2. row = SetMany(NewRecord(o.table), values) /\ operation = "create"
      BY <1>10
    <2>3. DOMAIN row = FieldNames(o.table)
      BY <2>2 DEF SetMany, NewRecord
    <2>4. entered = {g \in DOMAIN mapped : Editable(o.table, g, "create")}
      BY <2>2
    <2> HIDE DEF o, own, keys, id, operation, mapped, entered, values, sought, cell, row, ok
    <2>5. ASSUME NEW k \in SureKeys(req), k[1] = o.table
          PROVE  \/ Stored(row)[k[2]] = Null
                 \/ \A i \in DOMAIN store.rows[o.table] : store.rows[o.table][i][k[2]] # Stored(row)[k[2]]
      <3>1. k[2] = o.key /\ k[2] \in entered /\ k[2] \in DOMAIN NewRecord(o.table)
        BY <1>4, <1>9, <2>4, <2>5 DEF NewRecord
      <3>2. row[k[2]] = cell /\ cell # NaN
        BY <1>4, <1>6, <1>9, <2>1, <2>2, <2>5, <3>1, SetValue
      <3>3. cell = sought
        BY <1>4, <2>5, <3>2
      <3>4. sought # Null => \A i \in DOMAIN store.rows[o.table] : store.rows[o.table][i][o.key] # sought
        BY <1>4, <1>6, <1>8, <1>10, <2>5 DEF Select
      <3>5. Stored(row)[k[2]] \in {sought, Null}
        BY <1>4, <2>3, <2>5, <3>2, <3>3, StoredValue
      <3> QED
        BY <3>1, <3>4, <3>5
    <2>6. Faithful(before, Inserted(store, o.table, row), pending.inserted + 1, SureKeys(req))
      BY <1>3, <1>5, <1>7, <2>5, FaithfulInserted
    <2> QED
      BY <1>3, <1>10, <2>6, ImportWrites
  <1>11. CASE id # None /\ Writes(ok, o.table, Updated(store, o.table, id, row), "updated")
    <2>1. row = SetMany(store.rows[o.table][id], values) /\ \A f \in DOMAIN values : values[f] # NaN
      BY <1>11 DEF Writes
    <2> HIDE DEF o, own, keys, id, operation, mapped, entered, values, sought, cell, row, ok
    <2>2. id \in DOMAIN store.rows[o.table]
      BY <1>8, <1>11 DEF Select
    <2>3. DOMAIN row = FieldNames(o.table) /\ DOMAIN store.rows[o.table][id] = FieldNames(o.table)
      BY <1>3, <2>1, <2>2, StoredRowFits DEF SetMany, Fits
    <2>4. ASSUME NEW k \in SureKeys(req), k[1] = o.table
          PROVE  Stored(row)[k[2]] \in {store.rows[o.table][id][k[2]], Null}
      <3>1. k[2] = o.key /\ store.rows[o.table][id][o.key] = sought
        BY <1>4, <1>6, <1>8, <1>11, <2>4 DEF Select
      <3>2. row[k[2]] = store.rows[o.table][id][k[2]]
        <4>1. CASE k[2] \in DOMAIN values
          <5>1. row[k[2]] = cell /\ cell # NaN
            BY <1>4, <1>6, <1>9, <2>1, <2>3, <2>4, <3>1, <4>1, SetValue
          <5> QED
            BY <1>4, <2>4, <3>1, <5>1
        <4>2. CASE k[2] \notin DOMAIN values
          BY <1>4, <2>1, <2>3, <2>4, <4>2, SetValue
        <4> QED
          BY <4>1, <4>2
      <3> QED
        BY <1>4, <2>3, <2>4, <3>2, StoredValue
    <2>5. Faithful(before, Updated(store, o.table, id, row), pending.inserted, SureKeys(req))
      BY <1>3, <1>5, <1>7, <2>2, <2>4, FaithfulUpdated
    <2> QED
      BY <1>3, <1>11, <2>5, ImportWrites
  <1> HIDE DEF o, ok
  <1>12. CASE Fails(ok, o.table)
    BY <1>3, <1>12, ImportFails
  <1> QED
    BY <1>2, <1>10, <1>11, <1>12

LEMMA ImportBegin ==
    ASSUME MachineInv, ImportInv, Importing, Begin
    PROVE  ImportInv'
  <1>1. /\ ~InTransaction /\ todo # <<>> /\ levels' = <<store>> /\ ops' = Head(todo) /\ todo' = Tail(todo)
        /\ pending' = report /\ UNCHANGED <<store, frames, req, report, before>>
    BY DEF Begin
  <1>2. Head(todo) \in Range(todo) /\ Range(Tail(todo)) \subseteq Range(todo)
    BY <1>1, RangeOfTail, OwnRange DEF MachineInv, RequestInv
  <1>3. report \in Tally /\ Faithful(before, store, report.inserted, SureKeys(req))
    BY <1>1 DEF ImportInv, Importing, committed
  <1>4. InTransaction' /\ committed' = store /\ Len(levels') <= 1
    <2>1. <<store>>[1] = store /\ <<store>> # <<>> /\ Len(<<store>>) = 1
      OBVIOUS
    <2> QED
      BY <1>1, <2>1 DEF InTransaction, committed
  <1>5. frames = <<>> /\ \A txn \in Range(todo) : \A o \in Range(txn) : Fair(o, req)
    BY DEF ImportInv, Importing
  <1> QED
    BY <1>1, <1>2, <1>3, <1>4, <1>5 DEF ImportInv

LEMMA ImportCommit ==
    ASSUME MachineInv, ImportInv, Importing, Commit
    PROVE  ImportInv'
  <1>1. CASE GuardsHold
    <2>1. /\ InTransaction /\ levels' = <<>> /\ report' = pending
          /\ UNCHANGED <<store, frames, req, todo, ops, before>>
      BY <1>1 DEF Commit
    <2>2. pending \in Tally /\ Faithful(before, store, pending.inserted, SureKeys(req))
      BY <2>1 DEF ImportInv, Importing
    <2>3. ~InTransaction' /\ committed' = store /\ Len(levels') <= 1
      BY <2>1 DEF InTransaction, committed
    <2> QED
      BY <2>1, <2>2, <2>3 DEF ImportInv, Importing
  <1>2. CASE ~GuardsHold
    BY <1>2, ImportUnwind DEF Commit, Throw
  <1> QED
    BY <1>1, <1>2

LEMMA ImportServing ==
    ASSUME MachineInv, ImportInv, Serving
    PROVE  ImportInv'
  <1>1. CASE Importing
    <2>1. frames = <<>> /\ (ops # <<>> => Head(ops).op \in {"insert", "upsert", "entity"})
      BY <1>1, HeadIsImported DEF ImportInv, Importing, Fair, Imported
    <2>2. \/ Begin \/ Commit \/ Answer \/ InsertOp \/ UpsertOp \/ EntityOp
      BY <2>1 DEF Serving, Try, ReleaseSavepoint, PatchOp, CreateDraft, SaveDraft, DeleteOp,
                  FindChildren, NullChild, CascadeChild, DeleteRow, Running
    <2>3. CASE Answer
      BY <2>3 DEF Answer, ImportInv
    <2> QED
      BY <1>1, <2>2, <2>3, ImportBegin, ImportCommit, ImportInsertOp, ImportUpsertOp, ImportEntityOp
  <1>2. CASE ~Importing
    <2>1. req' = req \/ req' = None
      BY DEF Serving, Begin, Commit, Answer, Try, ReleaseSavepoint, InsertOp, PatchOp, UpsertOp, EntityOp,
             CreateDraft, SaveDraft, DeleteOp, FindChildren, NullChild, CascadeChild, DeleteRow,
             Throw, Unwind, Fails, Writes
    <2> QED
      BY <1>2, <2>1 DEF ImportInv, Importing
  <1> QED
    BY <1>1, <1>2

LEMMA ImportServed ==
    ASSUME MachineInv, req = None, NEW r \in Sent, Serve(r)
    PROVE  ImportInv'
  <1>1. /\ req' = r /\ todo' = r.txns /\ ops' = <<>> /\ report' = NoReport /\ before' = store
        /\ UNCHANGED <<store, levels, frames>>
    BY DEF Serve
  <1>2. levels = <<>> /\ frames = <<>>
    BY NothingOpen, IdleOf DEF MachineInv, RequestInv
  <1>3. ~InTransaction' /\ committed' = store /\ Len(levels') <= 1 /\ Range(ops') = {}
    BY <1>1, <1>2 DEF InTransaction, committed, Range
  <1>4. report' \in Tally /\ report'.inserted = 0
    BY <1>1 DEF Tally, NoReport
  <1>5. r.isolated => \A txn \in Range(r.txns) : \A o \in Range(txn) : Fair(o, r)
    BY ImportsAssumption DEF Fair, SureKeys
  <1> QED
    BY <1>1, <1>2, <1>3, <1>4, <1>5, FaithfulItself DEF ImportInv

LEMMA ImportStill ==
    ASSUME ImportInv, UNCHANGED <<store, machine>>
    PROVE  ImportInv'
  BY DEF ImportInv, machine, committed, InTransaction

LEMMA ImportNext ==
    ASSUME MachineInv, ImportInv, Next
    PROVE  ImportInv'
  <1>1. CASE Serving
    BY <1>1, ImportServing
  <1>2. CASE Crash
    BY <1>2 DEF Crash, ImportInv
  <1>3. ASSUME NEW r \in Requests, Receive(r)
        PROVE  ImportInv'
    BY <1>3, ImportServed DEF Receive, Sent
  <1>4. ASSUME NEW j \in Jobs, ImportJob(j)
        PROVE  ImportInv'
    BY <1>4, ImportServed DEF ImportJob, Sent
  <1>5. ASSUME NEW k \in Tokens, ExpireDraft(k)
        PROVE  ImportInv'
    BY <1>5 DEF ExpireDraft, machine, ImportInv
  <1>6. CASE Tick \/ Deploy \/ (\E j \in Jobs : StartJob(j)) \/ (\E l \in Licenses : InstallLicense(l))
    BY <1>6, ImportStill DEF Tick, Deploy, StartJob, InstallLicense
  <1> QED
    BY <1>1, <1>2, <1>3, <1>4, <1>5, <1>6 DEF Next

LEMMA ImportData ==
    ASSUME IInv, ImportInv, [DataNext]_<<vars, previews>>
    PROVE  ImportInv'
  <1>1. CASE UNCHANGED <<vars, previews>>
    BY <1>1, ImportStill DEF vars
  <1>2. CASE Working
    BY <1>2, ImportNext DEF Working, IInv
  <1>3. CASE ~Working /\ DataNext
    <2>1. CASE \E p \in previews : ExpirePreview(p)
      BY <2>1, ImportStill DEF ExpirePreview, vars
    <2>2. CASE ~\E p \in previews : ExpirePreview(p)
      <3>1. req' = None
        BY <1>3, <2>2 DEF DataNext, DeleteData, Preview, Replacement, Administer, Machine
      <3> QED
        BY <3>1 DEF ImportInv
    <2> QED
      BY <2>1, <2>2
  <1> QED
    BY <1>1, <1>2, <1>3

(* An import's report counts the rows it has added, and it doubles no key  *)
(* that was unique before (POST .../import/commit, importEntityDocument()),*)
(* provided its documents give the key as it is stored (findByKey()).      *)
THEOREM ImportsKeepFaith == DataSpec => []ImportsAreFaithful
  <1>1. DataInit => ImportInv
    BY DEF DataInit, Init, ImportInv
  <1>2. IInv /\ ImportInv /\ [DataNext]_<<vars, previews>> => ImportInv'
    BY ImportData
  <1>3. ImportInv => ImportsAreFaithful
    BY DEF ImportInv, ImportsAreFaithful, Faithful, Added, committed
  <1> QED
    BY <1>1, <1>2, <1>3, RecordsInvariance, PTL DEF DataSpec
=============================================================================
