----------------------------- MODULE EditorProofs -----------------------------
(***************************************************************************)
(* The safety of the Designer in the browser, for any designers, and any   *)
(* number of saves and of store loads in flight.                           *)
(***************************************************************************)
EXTENDS Editor, SequenceTheorems, TLAPS

Artifacts == [Names -> Content \union {Absent}]
Answer == [snap : Artifacts, late : BOOLEAN]
Pages == [mode : {"list", "new", "edit", "build"}, name : Names \union {""}, named : BOOLEAN,
          tab : {"design", "json"}, draft : Content, json : Content,
          base : SUBSET ({Item} \union Edits), aged : BOOLEAN]
Todos == {<<>>, <<"TableForm">>, <<"TableForm", "Menu">>, <<"Menu">>, <<"FormExt">>}
Flows == [step : {"idle", "reload", "follow", "snapshot", "outdated"}, todo : Todos]

KindInv ==
    /\ server \in Artifacts /\ store \in [Users -> Artifacts] /\ loads \in [Users -> Seq(Answer)]
    /\ stale \in [Users -> BOOLEAN] /\ page \in [Users -> Pages] /\ flow \in [Users -> Flows]
    /\ author \in Seq(Users \union {"somebody"}) /\ Len(author) <= MaxSaves
    /\ home \in [Edits -> Names \union {""}] /\ excused \subseteq Edits /\ removed \subseteq Names
    /\ \A u \in Users : /\ page[u].mode \in {"new", "edit"} => page[u].name \in Names
                        /\ page[u].mode = "build" => page[u].tab = "design"

(* Only what was saved has a home.                                         *)
HomeInv == \A e \in Edits : home[e] # "" => e \in 1..Len(author)

(* Everywhere, the lists are taken from one set of edits and the rest from *)
(* another; and the menu item is in a list only once its form was stored.  *)
Resolved == Exists("TableForm") \/ "TableForm" \in removed
Drawn(c, lists, others) == c.list \subseteq lists /\ c.other \subseteq others
DrawnBy(u, lists, others) ==
    /\ \A n \in Names : Drawn(store[u][n], lists, others)
    /\ \A i \in DOMAIN loads[u] : \A n \in Names : Drawn(loads[u][i].snap[n], lists, others)
    /\ Drawn(page[u].draft, lists, others) /\ Drawn(page[u].json, lists, others)
DrawnInv(lists, others) ==
    /\ \A n \in Names : Drawn(server[n], lists, others)
    /\ \A u \in Users : DrawnBy(u, lists, others)
Split(lists, others) ==
    /\ DrawnInv(lists, others)
    /\ lists \intersect others \intersect Edits = {}
    /\ (lists \union others) \intersect Edits \subseteq 1..Len(author)
    /\ Item \in lists => Resolved
PartsInv == \E lists, others \in SUBSET ({Item} \union Edits) : Split(lists, others)

(* What has no home is in a page of its author that is not saved yet.      *)
Homed(c) == \A e \in Edits \intersect Parts(c) : home[e] # ""
HomedBy(u, c) ==
    \A e \in Edits \intersect Parts(c) : home[e] # "" \/ (e \in 1..Len(author) /\ author[e] = u)
ServerInv == \A n \in Names : Homed(server[n])
Private(u) ==
    /\ \A n \in Names : Homed(store[u][n])
    /\ \A i \in DOMAIN loads[u] : \A n \in Names : Homed(loads[u][i].snap[n])
    /\ HomedBy(u, page[u].draft) /\ HomedBy(u, page[u].json)
    /\ flow[u].step \in {"reload", "follow"} => Homed(Shown(page[u]))

(* A browser knows its own designer's acknowledged edits from each answer  *)
(* that was not overtaken, once it has the one to its last save.           *)
Own(u, e) == e \in Edits /\ e \in 1..Len(author) /\ author[e] = u /\ e \notin excused /\ home[e] # ""
Knows(u, rows) == \A e \in Edits : Own(u, e) => e \in Parts(rows[home[e]])
Aware(u) ==
    IF flow[u].step = "reload"
    THEN loads[u] # <<>> /\ Knows(u, loads[u][Len(loads[u])].snap)
    ELSE /\ ~stale[u] => Knows(u, store[u])
         /\ \A i \in DOMAIN loads[u] : ~loads[u][i].late => Knows(u, loads[u][i].snap)

(* A page has kept what it was taken up with, and what its designer has    *)
(* saved to the artifact since.                                            *)
Keeping(u) ==
    /\ page[u].base \subseteq Parts(page[u].draft) /\ page[u].base \subseteq Parts(Shown(page[u]))
    /\ page[u].mode = "edit" /\ ~page[u].aged =>
          \A e \in Edits : Own(u, e) /\ home[e] = page[u].name => e \in Parts(Shown(page[u]))

UserInv(u) ==
    /\ Private(u) /\ Aware(u) /\ Keeping(u)
    /\ flow[u].step = "snapshot" => page[u].mode # "list"
    /\ flow[u].todo = <<"Menu">> => Resolved

IInv ==
    /\ KindInv /\ HomeInv /\ PartsInv /\ ServerInv /\ AcknowledgedEditsSurvive
    /\ \A u \in Users : UserInv(u)
-----------------------------------------------------------------------------
(* Contents and pages.                                                     *)

LEMMA PartsOf ==
    /\ Parts(Absent) = {} /\ Absent.list = {} /\ Absent.other = {Item} /\ Item \notin Edits
    /\ \A c \in Content : c # Absent /\ Parts(c) = c.list \union c.other
                          /\ c.list \subseteq {Item} \union Edits /\ c.other \subseteq Edits
    /\ \A c \in Content \union {Absent} : Parts(c) \subseteq c.list \union c.other
                                        /\ Parts(c) \subseteq {Item} \union Edits
    /\ Empty \in Content /\ Parts(Empty) = {}
  <1>1. Item \notin Edits
    BY ConstantsAssumption DEF Item, Edits
  <1>2. Absent.list = {} /\ Absent.other = {Item}
    BY DEF Absent
  <1>3. \A c \in Content : c.list \subseteq {Item} \union Edits /\ c.other \subseteq Edits
    BY DEF Content
  <1>4. \A c \in Content : c # Absent
    BY <1>1, <1>2, <1>3
  <1>5. Empty \in Content /\ Empty.list = {} /\ Empty.other = {}
    BY DEF Empty, Content
  <1>6. QED
    BY <1>1, <1>2, <1>3, <1>4, <1>5 DEF Parts

LEMMA PageKinds ==
    ASSUME NEW mode \in {"list", "new", "edit", "build"}, NEW name \in Names \union {""}, NEW named \in BOOLEAN,
           NEW copy \in Content, NEW aged \in BOOLEAN
    PROVE  LET p == Page(mode, name, named, copy, aged)
           IN /\ p \in Pages /\ p.mode = mode /\ p.name = name /\ p.named = named /\ p.tab = "design"
              /\ p.draft = copy /\ p.json = Empty /\ p.base = Parts(copy) /\ p.aged = aged /\ Shown(p) = copy
  BY PartsOf DEF Page, Pages, Shown

LEMMA ListingKind ==
    /\ Listing \in Pages /\ Listing.mode = "list" /\ Listing.draft = Empty /\ Listing.json = Empty
    /\ Listing.base = {} /\ Shown(Listing) = Empty
  <1>1. Empty \in Content /\ Parts(Empty) = {}
    BY PartsOf
  <1>2. QED
    BY <1>1 DEF Listing, Page, Pages, Shown

(* A page goes to the other tab, or shows what is being saved.             *)
LEMMA Tabs ==
    ASSUME NEW p \in Pages
    PROVE  /\ LET q == ToJson(p)
              IN /\ q \in Pages /\ q.mode = p.mode /\ q.name = p.name /\ q.base = p.base /\ q.aged = p.aged
                 /\ q.draft = p.draft /\ q.json = p.draft /\ Shown(q) = p.draft
           /\ \A parses \in BOOLEAN :
                 LET q == ToDesign(p, parses)
                 IN /\ q \in Pages /\ q.mode = p.mode /\ q.name = p.name /\ q.base = p.base
                    /\ (q.aged <=> (p.aged \/ ~parses)) /\ q.draft = (IF parses THEN p.json ELSE p.draft)
                    /\ q.json = Empty /\ Shown(q) = q.draft
           /\ \A content \in Content :
                 LET q == Showing(p, content)
                 IN /\ q \in Pages /\ q.mode = p.mode /\ q.name = p.name /\ q.base = p.base /\ q.aged = p.aged
                    /\ Shown(q) = content
                    /\ \/ q.draft = p.draft /\ q.json = content
                       \/ q.draft = content /\ q.json = p.json /\ Shown(p) = p.draft
           /\ Shown(p) \in Content /\ (Shown(p) = p.draft \/ Shown(p) = p.json)
           /\ (p.tab = "design" => Shown(p) = p.draft) /\ (p.tab # "design" => Shown(p) = p.json)
  <1>1. Empty \in Content
    BY PartsOf
  <1>2. ASSUME NEW parses \in BOOLEAN
        PROVE  LET q == ToDesign(p, parses)
               IN /\ q \in Pages /\ q.mode = p.mode /\ q.name = p.name /\ q.base = p.base
                  /\ (q.aged <=> (p.aged \/ ~parses)) /\ q.draft = (IF parses THEN p.json ELSE p.draft)
                  /\ q.json = Empty /\ Shown(q) = q.draft
    <2> DEFINE aged == p.aged \/ ~parses
               copy == IF parses THEN p.json ELSE p.draft
    <2>1. aged \in BOOLEAN /\ copy \in Content
      BY DEF Pages
    <2> HIDE DEF aged, copy
    <2>2. LET q == [p EXCEPT !.tab = "design", !.json = Empty, !.draft = copy, !.aged = aged]
          IN /\ q \in Pages /\ q.mode = p.mode /\ q.name = p.name /\ q.base = p.base /\ q.aged = aged
             /\ q.draft = copy /\ q.json = Empty /\ q.tab = "design"
      BY <1>1, <2>1 DEF Pages
    <2>3. QED
      BY <2>2 DEF ToDesign, Shown, aged, copy
  <1>3. QED
    BY <1>1, <1>2 DEF Pages, ToJson, Showing, Shown

LEMMA ShowingTab ==
    ASSUME NEW p \in Pages, NEW content \in Content
    PROVE  /\ Showing(p, content) \in Pages /\ Showing(p, content).mode = p.mode
           /\ Showing(p, content).name = p.name /\ Showing(p, content).base = p.base
           /\ Showing(p, content).aged = p.aged /\ Shown(Showing(p, content)) = content
           /\ Showing(p, content).draft \in {p.draft, content}
           /\ Showing(p, content).json \in {p.json, content}
  BY DEF Pages, Showing, Shown

LEMMA EmptySequences ==
    <<>> \in Seq(Answer) /\ <<>> \in Seq(Users \union {"somebody"}) /\ Len(<<>>) = 0 /\ DOMAIN <<>> = {} /\ 0 <= MaxSaves
  <1>1. <<>> \in Seq(Answer) /\ <<>> \in Seq(Users \union {"somebody"})
    OBVIOUS
  <1>2. Len(<<>>) = 0
    OBVIOUS
  <1>3. DOMAIN <<>> = {}
    BY <1>2, 1..0 = {}
  <1>4. 0 <= MaxSaves
    BY ConstantsAssumption
  <1>5. QED
    BY <1>1, <1>2, <1>3, <1>4

LEMMA Steps ==
    ASSUME NEW step \in {"idle", "reload", "follow", "snapshot", "outdated"}
    PROVE  Step(step) \in Flows /\ Step(step).step = step /\ Step(step).todo = <<>> /\ <<>> # <<"Menu">>
  BY DEF Step, Flows, Todos
-----------------------------------------------------------------------------
LEMMA InvImplies == IInv => StoreIsSound /\ AcknowledgedEditsSurvive
  <1> SUFFICES ASSUME IInv PROVE StoreIsSound
    BY DEF IInv
  <1>1. TypeOK
    <2>1. ASSUME NEW u \in Users
          PROVE  /\ store[u] \in [Names -> Content \union {Absent}]
                 /\ page[u].mode \in {"list", "new", "edit", "build"} /\ page[u].draft \in Content /\ page[u].json \in Content
                 /\ flow[u].step \in {"idle", "reload", "follow", "snapshot", "outdated"}
                 /\ flow[u].step = "reload" => loads[u] # <<>>
      <3>1. store[u] \in Artifacts /\ page[u] \in Pages /\ flow[u] \in Flows
        BY DEF IInv, KindInv
      <3>2. flow[u].step = "reload" => loads[u] # <<>>
        BY DEF IInv, UserInv, Aware
      <3>3. QED
        BY <3>1, <3>2 DEF Artifacts, Pages, Flows
    <2>2. QED
      BY <2>1 DEF TypeOK, IInv, KindInv, Artifacts
  <1>2. MenuItemsResolve
    BY DEF MenuItemsResolve, IInv, PartsInv, Split, DrawnInv, Drawn, Resolved, Names
  <1>3. QED
    BY <1>1, <1>2 DEF StoreIsSound

LEMMA InitialInv == Init => IInv
  <1> SUFFICES ASSUME Init PROVE IInv
    OBVIOUS
  <1> USE DEF Init
  <1>1. Step("idle") \in Flows /\ Step("idle").step = "idle" /\ Step("idle").todo # <<"Menu">>
    BY Steps
  <1>2. <<>> \in Seq(Answer) /\ <<>> \in Seq(Users \union {"somebody"}) /\ DOMAIN <<>> = {} /\ Len(<<>>) = 0
        /\ 0 <= MaxSaves
    BY EmptySequences
  <1>3. server \in Artifacts /\ store \in [Users -> Artifacts] /\ loads \in [Users -> Seq(Answer)]
        /\ Len(author) = 0 /\ author \in Seq(Users \union {"somebody"})
    BY <1>2 DEF Artifacts
  <1>4. KindInv
    BY <1>1, <1>2, <1>3, ListingKind DEF KindInv
  <1>5. HomeInv /\ AcknowledgedEditsSurvive
    BY DEF HomeInv, AcknowledgedEditsSurvive
  <1>6. \A u \in Users : page[u] = Listing /\ flow[u] = Step("idle") /\ loads[u] = <<>> /\ store[u] = server
    OBVIOUS
  <1>7. \A n \in Names : server[n] = Absent
    OBVIOUS
  <1>8. PartsInv
    <2>1. DrawnInv({}, {Item})
      <3>1. Drawn(Absent, {}, {Item}) /\ Drawn(Empty, {}, {Item})
        BY PartsOf DEF Drawn, Empty
      <3>2. \A u \in Users : /\ \A n \in Names : store[u][n] = Absent
                             /\ DOMAIN loads[u] = {} /\ page[u].draft = Empty /\ page[u].json = Empty
        BY <1>2, <1>6, <1>7, ListingKind
      <3>3. QED
        BY <1>7, <3>1, <3>2 DEF DrawnInv, DrawnBy
    <2>2. {} \in SUBSET ({Item} \union Edits) /\ {Item} \in SUBSET ({Item} \union Edits) /\ Item \notin Edits
      BY PartsOf
    <2>3. QED
      BY <2>1, <2>2 DEF PartsInv, Split
  <1>9. ServerInv
    BY <1>7, PartsOf DEF ServerInv, Homed
  <1>10. ASSUME NEW u \in Users PROVE UserInv(u)
    <2>1. Private(u)
      BY <1>1, <1>2, <1>6, <1>7, PartsOf, ListingKind DEF Private, Homed, HomedBy
    <2>2. Aware(u)
      BY <1>1, <1>3, <1>6 DEF Aware, Knows, Own
    <2>3. Keeping(u)
      BY <1>6, ListingKind DEF Keeping
    <2>4. QED
      BY <1>1, <1>6, <2>1, <2>2, <2>3 DEF UserInv
  <1>11. QED
    BY <1>4, <1>5, <1>8, <1>9, <1>10 DEF IInv
-----------------------------------------------------------------------------
(* What every step leaves.                                                 *)

(* Saves, homes and excuses are never taken back.                          *)
Ages ==
    /\ author' \in Seq(Users \union {"somebody"}) /\ Len(author) <= Len(author') /\ Len(author') <= MaxSaves
    /\ \A e \in 1..Len(author) : author'[e] = author[e]
    /\ \A e \in Edits : home[e] # "" => home'[e] = home[e]
    /\ \A e \in Edits : home'[e] # "" => e \in 1..Len(author')
    /\ excused \subseteq excused'
    /\ Resolved => Resolved'

(* No edit of u is acknowledged.                                           *)
Quiet(u) == \A e \in Edits : home[e] = "" /\ home'[e] # "" => author'[e] # u

(* The browser of u is left alone, but for a snapshot that a write outdates. *)
Untouched(u) ==
    /\ store'[u] = store[u] /\ stale'[u] = stale[u] /\ loads'[u] = loads[u] /\ page'[u] = page[u]
    /\ flow'[u] = flow[u] \/ (flow[u].step = "snapshot" /\ flow'[u] = Step("outdated"))

LEMMA Lengths ==
    ASSUME KindInv
    PROVE  /\ Len(author) \in Nat /\ MaxSaves \in Nat
           /\ \A e \in 1..Len(author) : e \in Edits /\ author[e] \in Users \union {"somebody"}
           /\ \A u \in Users : Len(loads[u]) \in Nat /\ DOMAIN loads[u] = 1..Len(loads[u])
                               /\ \A i \in 1..Len(loads[u]) : loads[u][i] \in Answer
  <1>1. ASSUME NEW S, NEW s \in Seq(S)
        PROVE  Len(s) \in Nat /\ DOMAIN s = 1..Len(s) /\ \A i \in 1..Len(s) : s[i] \in S
    OBVIOUS
  <1>2. \A u \in Users : loads[u] \in Seq(Answer)
    BY DEF KindInv
  <1>3. author \in Seq(Users \union {"somebody"}) /\ Len(author) <= MaxSaves /\ MaxSaves \in Nat
    BY ConstantsAssumption DEF KindInv
  <1>4. Len(author) \in Nat /\ \A e \in 1..Len(author) : author[e] \in Users \union {"somebody"}
    BY <1>1, <1>3
  <1>5. \A e \in 1..Len(author) : e \in Edits
    BY <1>3, <1>4 DEF Edits
  <1>6. QED
    BY <1>1, <1>2, <1>3, <1>4, <1>5

LEMMA LaterLengths ==
    ASSUME KindInv, Ages
    PROVE  Len(author') \in Nat /\ 1..Len(author') \subseteq Edits /\ 1..Len(author) \subseteq 1..Len(author')
  <1>1. Len(author') \in Nat
    <2>1. \A S : \A s \in Seq(S) : Len(s) \in Nat
      OBVIOUS
    <2>2. QED
      BY <2>1 DEF Ages
  <1>2. Len(author) \in Nat /\ Len(author) <= Len(author') /\ Len(author') <= MaxSaves /\ MaxSaves \in Nat
    BY Lengths DEF Ages
  <1>3. QED
    BY <1>1, <1>2 DEF Edits

LEMMA OwnBefore ==
    ASSUME KindInv, HomeInv, Ages, NEW u, NEW e, Own(u, e)', home[e] # "" \/ Quiet(u)
    PROVE  Own(u, e) /\ home'[e] = home[e]
  <1>1. home[e] # "" /\ e \in Edits
    BY DEF Own, Quiet
  <1>2. e \in 1..Len(author) /\ home'[e] = home[e]
    BY <1>1 DEF HomeInv, Ages
  <1>3. QED
    BY <1>1, <1>2 DEF Own, Ages

LEMMA KnowsStill ==
    ASSUME KindInv, HomeInv, Ages, NEW u, Quiet(u), NEW rows, Knows(u, rows)
    PROVE  \A e \in Edits : Own(u, e)' => e \in Parts(rows[home'[e]])
  BY OwnBefore DEF Knows

LEMMA HomedStill ==
    ASSUME Ages, KindInv, NEW u
    PROVE  \A c \in Content \union {Absent} :
              /\ Homed(c) => \A e \in Edits \intersect Parts(c) : home'[e] # ""
              /\ HomedBy(u, c) => \A e \in Edits \intersect Parts(c) :
                                     home'[e] # "" \/ (e \in 1..Len(author') /\ author'[e] = u)
  <1>1. \A e \in Edits : home[e] # "" => home'[e] # ""
    BY DEF Ages
  <1>2. \A e \in 1..Len(author) : e \in 1..Len(author') /\ author'[e] = author[e]
    BY LaterLengths DEF Ages
  <1>3. QED
    BY <1>1, <1>2 DEF Homed, HomedBy

LEMMA KindsOf ==
    ASSUME KindInv
    PROVE  /\ \A n \in Names : server[n] \in Content \union {Absent}
           /\ \A u \in Users :
                 /\ \A n \in Names : store[u][n] \in Content \union {Absent}
                 /\ \A i \in DOMAIN loads[u] : \A n \in Names : loads[u][i].snap[n] \in Content \union {Absent}
                 /\ page[u] \in Pages /\ page[u].draft \in Content /\ page[u].json \in Content
                 /\ Shown(page[u]) \in Content /\ flow[u] \in Flows /\ stale[u] \in BOOLEAN
  <1>1. server \in Artifacts /\ \A u \in Users : store[u] \in Artifacts /\ page[u] \in Pages /\ flow[u] \in Flows
                                               /\ stale[u] \in BOOLEAN
    BY DEF KindInv
  <1>2. \A u \in Users : \A i \in DOMAIN loads[u] : loads[u][i].snap \in Artifacts
    BY Lengths DEF Answer
  <1>3. \A p \in Pages : p.draft \in Content /\ p.json \in Content
    BY DEF Pages
  <1>4. \A rows \in Artifacts : \A n \in Names : rows[n] \in Content \union {Absent}
    BY DEF Artifacts
  <1>5. \A u \in Users : Shown(page[u]) \in Content
    BY <1>1, Tabs
  <1>6. QED
    BY <1>1, <1>2, <1>3, <1>4, <1>5

LEMMA Others ==
    ASSUME KindInv, KindInv', HomeInv, Ages, NEW u \in Users, Untouched(u), Quiet(u), UserInv(u)
    PROVE  UserInv(u)'
  <1>1. /\ store'[u] = store[u] /\ stale'[u] = stale[u] /\ loads'[u] = loads[u] /\ page'[u] = page[u]
        /\ flow'[u].step \in {"reload", "follow"} => flow'[u] = flow[u]
        /\ flow'[u].step = "reload" <=> flow[u].step = "reload"
        /\ flow'[u].step = "snapshot" => flow[u].step = "snapshot"
        /\ flow'[u].todo = <<"Menu">> => flow[u].todo = <<"Menu">>
    BY Steps DEF Untouched
  <1>2. /\ \A n \in Names : store[u][n] \in Content \union {Absent}
        /\ \A i \in DOMAIN loads[u] : \A n \in Names : loads[u][i].snap[n] \in Content \union {Absent}
        /\ page[u] \in Pages /\ page[u].draft \in Content /\ page[u].json \in Content
    BY KindsOf
  <1>3. Shown(page[u]) \in Content
    BY KindsOf
  <1>4. Private(u)'
    <2>1. Private(u)
      BY DEF UserInv
    <2>2. \A n \in Names : Homed(store[u][n])'
      BY <1>1, <1>2, <2>1, HomedStill DEF Private, Homed
    <2>3. ASSUME NEW i \in DOMAIN loads[u], NEW n \in Names
          PROVE  \A e \in Edits \intersect Parts(loads[u][i].snap[n]) : home'[e] # ""
      <3>1. Homed(loads[u][i].snap[n]) /\ loads[u][i].snap[n] \in Content \union {Absent}
        BY <1>2, <2>1 DEF Private
      <3>2. QED
        BY <3>1, HomedStill
    <2>4. HomedBy(u, page[u].draft)' /\ HomedBy(u, page[u].json)'
      <3>1. HomedBy(u, page[u].draft) /\ HomedBy(u, page[u].json)
        BY <2>1 DEF Private
      <3>2. \A c \in {page[u].draft, page[u].json} : \A e \in Edits \intersect Parts(c) :
               home'[e] # "" \/ (e \in 1..Len(author') /\ author'[e] = u)
        BY <1>2, <3>1, HomedStill
      <3>3. QED
        BY <1>1, <3>2 DEF HomedBy
    <2>5. (flow[u].step \in {"reload", "follow"} => Homed(Shown(page[u])))'
      BY <1>1, <1>2, <1>3, <2>1, HomedStill DEF Private, Homed
    <2>6. QED
      BY <1>1, <2>2, <2>3, <2>4, <2>5 DEF Private, Homed
  <1>5. Aware(u)'
    BY <1>1, KnowsStill DEF Aware, UserInv, Knows
  <1>6. Keeping(u)'
    BY <1>1, OwnBefore DEF Keeping, UserInv
  <1>7. QED
    BY <1>1, <1>4, <1>5, <1>6 DEF UserInv, Ages

(* A step that writes nothing.                                             *)
LEMMA Unwritten ==
    ASSUME KindInv, HomeInv, UNCHANGED <<server, history>>
    PROVE  Ages /\ \A u : Quiet(u)
  <1>1. server' = server /\ author' = author /\ home' = home /\ excused' = excused /\ removed' = removed
    BY DEF history
  <1>2. Len(author) <= Len(author)
    BY Lengths
  <1>3. Resolved => Resolved'
    BY <1>1 DEF Resolved, Exists
  <1>4. QED
    BY <1>1, <1>2, <1>3 DEF Ages, Quiet, KindInv, HomeInv

(* A step adds the edits of A to the lists and those of B to the rest.     *)
LEMMA PartsStep ==
    ASSUME KindInv, Ages,
           NEW L \in SUBSET ({Item} \union Edits), NEW O \in SUBSET ({Item} \union Edits), Split(L, O),
           NEW A, NEW B, A \union B \subseteq {Item} \union ((1..Len(author')) \ (1..Len(author))),
           A \intersect B \intersect Edits = {}, Item \in A => Resolved',
           \A n \in Names : Drawn(server'[n], L \union A, O \union B),
           \A v \in Users : Untouched(v) \/ DrawnBy(v, L \union A, O \union B)'
    PROVE  PartsInv'
  <1> DEFINE LA == L \union A
             OB == O \union B
  <1>1. 1..Len(author') \subseteq Edits /\ 1..Len(author) \subseteq 1..Len(author')
    BY LaterLengths
  <1>2. LA \in SUBSET ({Item} \union Edits) /\ OB \in SUBSET ({Item} \union Edits)
    BY <1>1
  <1>3. ASSUME NEW v \in Users PROVE DrawnBy(v, LA, OB)'
    <2>1. CASE Untouched(v)
      BY <2>1 DEF Untouched, Split, DrawnInv, DrawnBy, Drawn
    <2>2. QED
      BY <2>1
  <1>4. LA \intersect OB \intersect Edits = {}
    BY PartsOf DEF Split
  <1>5. (LA \union OB) \intersect Edits \subseteq 1..Len(author')
    BY <1>1, PartsOf DEF Split
  <1>6. Item \in LA => Resolved'
    BY DEF Split, Ages
  <1>7. Split(LA, OB)'
    BY <1>3, <1>4, <1>5, <1>6 DEF Split, DrawnInv
  <1>8. QED
    BY <1>2, <1>7 DEF PartsInv

LEMMA Acting ==
    ASSUME IInv, KindInv', Ages, PartsInv', ServerInv', AcknowledgedEditsSurvive',
           \A v \in Users : (Untouched(v) /\ Quiet(v)) \/ UserInv(v)'
    PROVE  IInv'
  <1>1. HomeInv'
    BY DEF Ages, HomeInv
  <1>2. \A v \in Users : UserInv(v)'
    BY Others DEF IInv
  <1>3. QED
    BY <1>1, <1>2 DEF IInv

LEMMA Grows ==
    ASSUME KindInv, NEW w \in Users \union {"somebody"}, Len(author) < MaxSaves, author' = Append(author, w)
    PROVE  /\ Len(author) + 1 \in Edits /\ Len(author) + 1 \notin 1..Len(author)
           /\ author' \in Seq(Users \union {"somebody"}) /\ Len(author') = Len(author) + 1
           /\ Len(author) <= Len(author') /\ Len(author') <= MaxSaves
           /\ 1..Len(author') = (1..Len(author)) \union {Len(author) + 1}
           /\ author'[Len(author) + 1] = w /\ \A e \in 1..Len(author) : author'[e] = author[e]
  <1>1. author \in Seq(Users \union {"somebody"}) /\ Len(author) \in Nat /\ MaxSaves \in Nat
    BY Lengths DEF KindInv
  <1>2. /\ author' \in Seq(Users \union {"somebody"}) /\ Len(author') = Len(author) + 1
        /\ author'[Len(author) + 1] = w /\ \A e \in 1..Len(author) : author'[e] = author[e]
    BY <1>1
  <1>3. /\ Len(author) + 1 \in Edits /\ Len(author) + 1 \notin 1..Len(author)
        /\ 1..(Len(author) + 1) = (1..Len(author)) \union {Len(author) + 1}
        /\ Len(author) <= Len(author) + 1 /\ Len(author) + 1 <= MaxSaves
    BY <1>1 DEF Edits
  <1>4. QED
    BY <1>2, <1>3

LEMMA Loading ==
    ASSUME KindInv, NEW u \in Users, Load(u), server' \in Artifacts
    PROVE  /\ loads' \in [Users -> Seq(Answer)] /\ loads'[u] # <<>>
           /\ \A v \in Users : v # u => loads'[v] = loads[v]
           /\ loads'[u][Len(loads'[u])].snap = server'
           /\ \A i \in DOMAIN loads'[u] : \/ i \in DOMAIN loads[u] /\ loads'[u][i] = loads[u][i]
                                          \/ loads'[u][i].snap = server'
  <1> DEFINE answer == [snap |-> server', late |-> FALSE]
  <1>1. answer \in Answer /\ answer.snap = server'
    BY DEF Answer
  <1>2. loads' = [loads EXCEPT ![u] = Append(loads[u], answer)]
    BY DEF Load
  <1> HIDE DEF answer
  <1>3. loads \in [Users -> Seq(Answer)] /\ loads[u] \in Seq(Answer)
    BY DEF KindInv
  <1>4. \A s \in Seq(Answer) :
           LET t == Append(s, answer)
           IN /\ t \in Seq(Answer) /\ t # <<>> /\ t[Len(t)] = answer
              /\ \A i \in DOMAIN t : (i \in DOMAIN s /\ t[i] = s[i]) \/ t[i] = answer
    <2>1. ASSUME NEW s \in Seq(Answer)
          PROVE  /\ Append(s, answer) \in Seq(Answer) /\ Len(Append(s, answer)) = Len(s) + 1 /\ Len(s) \in Nat
                 /\ DOMAIN Append(s, answer) = 1..(Len(s) + 1) /\ DOMAIN s = 1..Len(s)
                 /\ Append(s, answer)[Len(s) + 1] = answer
                 /\ \A i \in 1..Len(s) : Append(s, answer)[i] = s[i]
      <3>1. answer \in Answer
        BY <1>1
      <3>2. Append(s, answer) \in Seq(Answer) /\ Len(s) \in Nat /\ DOMAIN s = 1..Len(s)
        BY <3>1
      <3>3. Len(Append(s, answer)) = Len(s) + 1
        BY <3>1
      <3>4. DOMAIN Append(s, answer) = 1..(Len(s) + 1)
        BY <3>2, <3>3
      <3>5. Append(s, answer)[Len(s) + 1] = answer
        BY <3>1
      <3>6. \A i \in 1..Len(s) : Append(s, answer)[i] = s[i]
        BY <3>1
      <3>7. QED
        BY <3>2, <3>3, <3>4, <3>5, <3>6
    <2>2. \A k \in Nat : \A i \in 1..(k + 1) : i \in 1..k \/ i = k + 1
      OBVIOUS
    <2>3. ASSUME NEW s \in Seq(Answer) PROVE Append(s, answer) # <<>>
      <3>1. Len(<<>>) = 0
        OBVIOUS
      <3>2. Len(Append(s, answer)) # 0
        BY <2>1
      <3>3. QED
        BY <3>1, <3>2
    <2>4. QED
      BY <2>1, <2>2, <2>3
  <1>5. loads'[u] = Append(loads[u], answer) /\ \A v \in Users : v # u => loads'[v] = loads[v]
    BY <1>2, <1>3
  <1>6. loads' \in [Users -> Seq(Answer)]
    BY <1>2, <1>3, <1>4
  <1>7. QED
    BY <1>1, <1>4, <1>5, <1>6

(* What a page saves shows all it did, and at most one new edit.           *)
LEMMA RevisedParts ==
    ASSUME NEW p \in Pages, NEW content \in Revised(p), Len(author) + 1 \in Edits
    PROVE  /\ content \in Content /\ Parts(Shown(p)) \subseteq Parts(content)
           /\ Parts(content) \subseteq Parts(Shown(p)) \union {Len(author) + 1}
           /\ \E A, B \in SUBSET {Len(author) + 1} :
                 A \intersect B = {} /\ content.list \subseteq Shown(p).list \union A
                                     /\ content.other \subseteq Shown(p).other \union B
  <1> DEFINE e == Len(author) + 1
             c == Shown(p)
  <1>1. c \in Content /\ e \in Edits /\ content \in {c} \union WithEdit(c, e)
    BY Tabs DEF Revised
  <1> HIDE DEF e, c
  <1>2. \/ content = c
        \/ content = [list |-> c.list \union {e}, other |-> c.other]
        \/ content = [list |-> c.list, other |-> c.other \union {e}]
    BY <1>1 DEF WithEdit
  <1>3. /\ content \in Content
        /\ \/ content.list = c.list /\ content.other = c.other
           \/ content.list = c.list \union {e} /\ content.other = c.other
           \/ content.list = c.list /\ content.other = c.other \union {e}
    BY <1>1, <1>2 DEF Content
  <1>4. Parts(content) = content.list \union content.other /\ Parts(c) = c.list \union c.other
    BY <1>1, <1>3, PartsOf
  <1>5. \E A, B \in SUBSET {e} : A \intersect B = {} /\ content.list \subseteq c.list \union A
                                                   /\ content.other \subseteq c.other \union B
    <2>1. CASE content.list = c.list /\ content.other = c.other
      <3>1. {} \in SUBSET {e} /\ {} \intersect {} = {}
        OBVIOUS
      <3>2. QED
        BY <2>1, <3>1
    <2>2. CASE content.list = c.list \union {e} /\ content.other = c.other
      <3>1. {e} \in SUBSET {e} /\ {} \in SUBSET {e} /\ {e} \intersect {} = {}
        OBVIOUS
      <3>2. QED
        BY <2>2, <3>1
    <2>3. CASE content.list = c.list /\ content.other = c.other \union {e}
      <3>1. {e} \in SUBSET {e} /\ {} \in SUBSET {e} /\ {} \intersect {e} = {}
        OBVIOUS
      <3>2. QED
        BY <2>3, <3>1
    <2>4. QED
      BY <1>3, <2>1, <2>2, <2>3
  <1>6. QED
    BY <1>3, <1>4, <1>5 DEF e, c
-----------------------------------------------------------------------------
(* Pages are opened, turned and closed.                                    *)

LEMMA PageStep ==
    ASSUME IInv, NEW u \in Users, KindInv', UNCHANGED <<server, history>>,
           \A v \in Users : v # u => Untouched(v),
           \A L, O \in SUBSET ({Item} \union Edits) : DrawnInv(L, O) => DrawnBy(u, L, O)',
           UserInv(u)'
    PROVE  IInv'
  <1>1. Ages /\ \A v : Quiet(v)
    BY Unwritten DEF IInv
  <1>2. PartsInv'
    <2>1. PICK L, O \in SUBSET ({Item} \union Edits) : Split(L, O)
      BY DEF IInv, PartsInv
    <2>2. L \union {} = L /\ O \union {} = O /\ {} \intersect {} \intersect Edits = {} /\ Item \notin {}
          /\ {} \union {} \subseteq {Item} \union ((1..Len(author')) \ (1..Len(author)))
      OBVIOUS
    <2>3. \A n \in Names : Drawn(server'[n], L \union {}, O \union {})
      BY <2>1, <2>2 DEF Split, DrawnInv
    <2>4. \A v \in Users : Untouched(v) \/ DrawnBy(v, L \union {}, O \union {})'
      BY <2>1, <2>2 DEF Split
    <2>5. QED
      BY <1>1, <2>1, <2>2, <2>3, <2>4, PartsStep DEF IInv
  <1>3. ServerInv' /\ AcknowledgedEditsSurvive'
    BY DEF history, IInv, ServerInv, Homed, AcknowledgedEditsSurvive
  <1>4. QED
    BY <1>1, <1>2, <1>3, Acting

LEMMA Turning ==
    ASSUME IInv, NEW u \in Users, UNCHANGED <<server, store, loads, stale, flow, history>>, AtRest(u),
           NEW q \in Pages, page' = [page EXCEPT ![u] = q],
           q.mode \in {"new", "edit"} => q.name \in Names, q.mode = "build" => q.tab = "design",
           HomedBy(u, q.draft), HomedBy(u, q.json), q.base \subseteq Parts(q.draft), q.base \subseteq Parts(Shown(q)),
           q.mode = "edit" /\ ~q.aged => \A e \in Edits : Own(u, e) /\ home[e] = q.name => e \in Parts(Shown(q)),
           \A L, O \in SUBSET ({Item} \union Edits) : DrawnInv(L, O) => Drawn(q.draft, L, O) /\ Drawn(q.json, L, O)
    PROVE  IInv'
  <1>1. KindInv /\ UserInv(u)
    BY DEF IInv
  <1>2. page'[u] = q /\ (\A v \in Users : v # u => page'[v] = page[v]) /\ page' \in [Users -> Pages]
    BY <1>1 DEF KindInv
  <1>3. /\ server' = server /\ store' = store /\ loads' = loads /\ stale' = stale /\ flow' = flow /\ author' = author
        /\ home' = home /\ excused' = excused /\ removed' = removed /\ flow[u].step = "idle"
    BY DEF history, AtRest
  <1>4. KindInv'
    BY <1>1, <1>2, <1>3 DEF KindInv
  <1>5. \A v \in Users : v # u => Untouched(v)
    BY <1>2, <1>3 DEF Untouched
  <1>6. ASSUME NEW L \in SUBSET ({Item} \union Edits), NEW O \in SUBSET ({Item} \union Edits), DrawnInv(L, O)
        PROVE  DrawnBy(u, L, O)'
    BY <1>2, <1>3, <1>6 DEF DrawnInv, DrawnBy
  <1>7. Private(u)'
    <2>1. /\ \A n \in Names : Homed(store[u][n])
          /\ \A i \in DOMAIN loads[u] : \A n \in Names : Homed(loads[u][i].snap[n])
      BY <1>1 DEF UserInv, Private
    <2>2. /\ \A n \in Names : Homed(store[u][n])'
          /\ \A i \in DOMAIN loads'[u] : \A n \in Names : Homed(loads[u][i].snap[n])'
      BY <1>3, <2>1 DEF Homed
    <2>3. HomedBy(u, page[u].draft)' /\ HomedBy(u, page[u].json)'
      BY <1>2, <1>3 DEF HomedBy
    <2>4. QED
      BY <1>3, <2>2, <2>3 DEF Private
  <1>8. Aware(u)'
    BY <1>1, <1>3 DEF UserInv, Aware, Knows, Own
  <1>9. Keeping(u)'
    BY <1>2, <1>3 DEF Keeping, Own
  <1>10. UserInv(u)'
    BY <1>1, <1>3, <1>7, <1>8, <1>9 DEF UserInv, Resolved, Exists
  <1>11. QED
    BY <1>3, <1>4, <1>5, <1>6, <1>10, PageStep DEF history

(* What a browser takes up is what its store has of an artifact.           *)
LEMMA TakenUp ==
    ASSUME IInv, NEW u \in Users, AtRest(u), NEW n \in Names, store[u][n] # Absent
    PROVE  LET q == Edited(n, store[u][n], stale[u])
           IN /\ q \in Pages /\ q.mode = "edit" /\ q.name \in Names
              /\ HomedBy(u, q.draft) /\ HomedBy(u, q.json) /\ q.base \subseteq Parts(q.draft) /\ q.base \subseteq Parts(Shown(q))
              /\ q.mode = "edit" /\ ~q.aged => \A e \in Edits : Own(u, e) /\ home[e] = q.name => e \in Parts(Shown(q))
              /\ \A L, O \in SUBSET ({Item} \union Edits) :
                    DrawnInv(L, O) => Drawn(q.draft, L, O) /\ Drawn(q.json, L, O)
  <1> DEFINE c == store[u][n]
             q == Edited(n, c, stale[u])
  <1>1. c \in Content /\ stale[u] \in BOOLEAN
    BY KindsOf DEF IInv
  <1>2. /\ q \in Pages /\ q.mode = "edit" /\ q.name = n /\ q.draft = c /\ q.json = Empty /\ q.base = Parts(c)
        /\ q.aged = stale[u] /\ Shown(q) = c
    <2>1. ASSUME NEW x \in Content, NEW aged \in BOOLEAN
          PROVE  LET p == Edited(n, x, aged)
                 IN /\ p \in Pages /\ p.mode = "edit" /\ p.name = n /\ p.draft = x /\ p.json = Empty
                    /\ p.base = Parts(x) /\ p.aged = aged /\ Shown(p) = x
      BY PartsOf DEF Edited, Page, Pages, Shown
    <2>2. QED
      BY <1>1, <2>1
  <1> HIDE DEF q
  <1>3. UserInv(u) /\ flow[u].step # "reload"
    BY DEF IInv, AtRest
  <1>4. HomedBy(u, c) /\ HomedBy(u, Empty)
    BY <1>3, PartsOf DEF UserInv, Private, Homed, HomedBy
  <1>5. ~stale[u] => \A e \in Edits : Own(u, e) /\ home[e] = n => e \in Parts(c)
    BY <1>3 DEF UserInv, Aware, Knows
  <1>6. \A L, O \in SUBSET ({Item} \union Edits) : DrawnInv(L, O) => Drawn(c, L, O) /\ Drawn(Empty, L, O)
    BY DEF DrawnInv, DrawnBy, Drawn, Empty
  <1>7. /\ q \in Pages /\ q.mode = "edit" /\ q.name \in Names
        /\ HomedBy(u, q.draft) /\ HomedBy(u, q.json) /\ q.base \subseteq Parts(q.draft) /\ q.base \subseteq Parts(Shown(q))
    BY <1>2, <1>4
  <1>8. q.mode = "edit" /\ ~q.aged => \A e \in Edits : Own(u, e) /\ home[e] = q.name => e \in Parts(Shown(q))
    BY <1>2, <1>5
  <1>9. \A L, O \in SUBSET ({Item} \union Edits) : DrawnInv(L, O) => Drawn(q.draft, L, O) /\ Drawn(q.json, L, O)
    BY <1>2, <1>6
  <1>10. QED
    BY <1>7, <1>8, <1>9 DEF q

LEMMA OpenExistingStep == ASSUME IInv, NEW u \in Users, NEW n \in Names, OpenExisting(u, n) PROVE IInv'
  <1> DEFINE q == Edited(n, store[u][n], stale[u])
  <1>1. AtRest(u) /\ store[u][n] # Absent /\ page' = [page EXCEPT ![u] = q]
        /\ UNCHANGED <<server, store, loads, stale, flow, history>>
    BY DEF OpenExisting
  <1>2. /\ q \in Pages /\ q.mode = "edit" /\ q.name \in Names
        /\ HomedBy(u, q.draft) /\ HomedBy(u, q.json) /\ q.base \subseteq Parts(q.draft) /\ q.base \subseteq Parts(Shown(q))
        /\ q.mode = "edit" /\ ~q.aged => \A e \in Edits : Own(u, e) /\ home[e] = q.name => e \in Parts(Shown(q))
        /\ \A L, O \in SUBSET ({Item} \union Edits) : DrawnInv(L, O) => Drawn(q.draft, L, O) /\ Drawn(q.json, L, O)
    BY <1>1, TakenUp
  <1> HIDE DEF q
  <1>3. QED
    BY <1>1, <1>2, Turning

LEMMA OpenNewStep == ASSUME IInv, NEW u \in Users, NEW n \in Names, OpenNew(u, n) PROVE IInv'
  <1> DEFINE named == n \notin Extensions
             q == Page("new", n, named, Empty, FALSE)
  <1>1. AtRest(u) /\ page' = [page EXCEPT ![u] = q] /\ UNCHANGED <<server, store, loads, stale, flow, history>>
    BY DEF OpenNew
  <1>2. /\ q \in Pages /\ q.mode = "new" /\ q.name = n /\ q.draft = Empty /\ q.json = Empty /\ q.base = {}
        /\ Shown(q) = Empty
    <2>1. \A b \in BOOLEAN : LET p == Page("new", n, b, Empty, FALSE)
                            IN /\ p \in Pages /\ p.mode = "new" /\ p.name = n /\ p.draft = Empty /\ p.json = Empty
                               /\ p.base = Parts(Empty) /\ Shown(p) = Empty
      BY PartsOf DEF Page, Pages, Shown
    <2>2. named \in BOOLEAN
      OBVIOUS
    <2>3. QED
      BY <2>1, <2>2, PartsOf
  <1> HIDE DEF q
  <1>3. HomedBy(u, Empty) /\ \A L, O \in SUBSET ({Item} \union Edits) : Drawn(Empty, L, O)
    BY PartsOf DEF HomedBy, Drawn, Empty
  <1>4. QED
    BY <1>1, <1>2, <1>3, Turning

LEMMA ChooseTargetStep == ASSUME IInv, NEW u \in Users, ChooseTarget(u) PROVE IInv'
  <1>1. /\ AtRest(u) /\ page[u].mode = "new" /\ page[u] \in Pages /\ page[u].name \in Names
        /\ UNCHANGED <<server, store, loads, stale, flow, history>>
    BY KindsOf DEF ChooseTarget, IInv, KindInv
  <1>2. CASE store[u][page[u].name] = Absent
    <2> DEFINE q == [page[u] EXCEPT !.named = TRUE]
    <2>1. page' = [page EXCEPT ![u] = q]
      BY <1>2 DEF ChooseTarget
    <2>2. /\ q \in Pages /\ q.mode = "new" /\ q.name = page[u].name /\ q.draft = page[u].draft
          /\ q.json = page[u].json /\ q.base = page[u].base /\ Shown(q) = Shown(page[u])
      BY <1>1 DEF Pages, Shown
    <2> HIDE DEF q
    <2>3. Private(u) /\ Keeping(u)
      BY DEF IInv, UserInv
    <2>4. QED
      BY <1>1, <2>1, <2>2, <2>3, Turning DEF Private, Keeping, DrawnInv, DrawnBy
  <1>3. CASE store[u][page[u].name] # Absent
    <2> DEFINE q == Edited(page[u].name, store[u][page[u].name], stale[u])
    <2>1. page' = [page EXCEPT ![u] = q]
      BY <1>3 DEF ChooseTarget
    <2>2. /\ q \in Pages /\ q.mode = "edit" /\ q.name \in Names
          /\ HomedBy(u, q.draft) /\ HomedBy(u, q.json) /\ q.base \subseteq Parts(q.draft) /\ q.base \subseteq Parts(Shown(q))
          /\ q.mode = "edit" /\ ~q.aged => \A e \in Edits : Own(u, e) /\ home[e] = q.name => e \in Parts(Shown(q))
          /\ \A L, O \in SUBSET ({Item} \union Edits) : DrawnInv(L, O) => Drawn(q.draft, L, O) /\ Drawn(q.json, L, O)
      BY <1>1, <1>3, TakenUp
    <2> HIDE DEF q
    <2>3. QED
      BY <1>1, <2>1, <2>2, Turning
  <1>4. QED
    BY <1>2, <1>3

LEMMA SwitchTabStep == ASSUME IInv, NEW u \in Users, SwitchTab(u) PROVE IInv'
  <1> DEFINE p == page[u]
  <1>1. /\ AtRest(u) /\ p.mode \in {"new", "edit"} /\ p \in Pages /\ p.name \in Names
        /\ UNCHANGED <<server, store, loads, stale, flow, history>>
    BY KindsOf DEF SwitchTab, IInv, KindInv
  <1>2. Private(u) /\ Keeping(u)
    BY DEF IInv, UserInv
  <1>3. /\ HomedBy(u, p.draft) /\ HomedBy(u, p.json) /\ HomedBy(u, Empty)
        /\ p.base \subseteq Parts(p.draft) /\ p.base \subseteq Parts(Shown(p))
        /\ p.mode = "edit" /\ ~p.aged => \A e \in Edits : Own(u, e) /\ home[e] = p.name => e \in Parts(Shown(p))
    BY <1>2, PartsOf DEF Private, Keeping, HomedBy
  <1>4. \A L, O \in SUBSET ({Item} \union Edits) :
           DrawnInv(L, O) => Drawn(p.draft, L, O) /\ Drawn(p.json, L, O) /\ Drawn(Empty, L, O)
    BY DEF DrawnInv, DrawnBy, Drawn, Empty
  <1>5. \/ p.tab = "design" /\ page' = [page EXCEPT ![u] = ToJson(p)]
        \/ p.tab # "design" /\ \E parses \in BOOLEAN : page' = [page EXCEPT ![u] = ToDesign(p, parses)]
    BY DEF SwitchTab
  <1> HIDE DEF p
  <1>6. CASE p.tab = "design" /\ page' = [page EXCEPT ![u] = ToJson(p)]
    <2> DEFINE q == ToJson(p)
    <2>1. /\ q \in Pages /\ q.mode = p.mode /\ q.name = p.name /\ q.base = p.base /\ q.aged = p.aged
          /\ q.draft = p.draft /\ q.json = p.draft /\ Shown(q) = p.draft /\ Shown(p) = p.draft
      BY <1>1, <1>6, Tabs
    <2>2. page' = [page EXCEPT ![u] = q]
      BY <1>6
    <2> HIDE DEF q
    <2>3. QED
      BY <1>1, <1>3, <1>4, <2>1, <2>2, Turning
  <1>7. CASE p.tab # "design" /\ \E parses \in BOOLEAN : page' = [page EXCEPT ![u] = ToDesign(p, parses)]
    <2>1. PICK parses \in BOOLEAN : page' = [page EXCEPT ![u] = ToDesign(p, parses)]
      BY <1>7
    <2> DEFINE q == ToDesign(p, parses)
    <2>2. /\ q \in Pages /\ q.mode = p.mode /\ q.name = p.name /\ q.base = p.base
          /\ q.aged <=> (p.aged \/ ~parses)
          /\ q.draft = (IF parses THEN p.json ELSE p.draft) /\ q.json = Empty /\ Shown(q) = q.draft
          /\ Shown(p) = p.json
      BY <1>1, <1>7, Tabs
    <2>3. page' = [page EXCEPT ![u] = q]
      BY <2>1
    <2> HIDE DEF q
    <2>4. HomedBy(u, q.draft) /\ HomedBy(u, q.json) /\ q.base \subseteq Parts(q.draft) /\ q.base \subseteq Parts(Shown(q))
      BY <1>3, <2>2
    <2>5. q.mode = "edit" /\ ~q.aged => \A e \in Edits : Own(u, e) /\ home[e] = q.name => e \in Parts(Shown(q))
      BY <1>3, <2>2
    <2>6. \A L, O \in SUBSET ({Item} \union Edits) : DrawnInv(L, O) => Drawn(q.draft, L, O) /\ Drawn(q.json, L, O)
      BY <1>4, <2>2
    <2>7. q.mode # "build" /\ q.name \in Names
      BY <1>1, <2>2
    <2>8. QED
      BY <1>1, <2>2, <2>3, <2>4, <2>5, <2>6, <2>7, Turning
  <1>8. QED
    BY <1>5, <1>6, <1>7

(* What the server answers now has all acknowledged edits.                 *)
LEMMA ServerKnown == ASSUME AcknowledgedEditsSurvive, NEW u PROVE Knows(u, server)
  BY DEF AcknowledgedEditsSurvive, Knows, Own

LEMMA Leaving ==
    ASSUME IInv, NEW u \in Users, UNCHANGED <<server, store, stale, history>>, Load(u),
           flow[u].step \in {"idle", "follow"}, flow' = flow \/ flow' = [flow EXCEPT ![u] = Step("idle")],
           flow'[u].step = "idle", page' = [page EXCEPT ![u] = Listing]
    PROVE  IInv'
  <1>1. KindInv /\ UserInv(u) /\ AcknowledgedEditsSurvive /\ ServerInv
    BY DEF IInv
  <1>2. /\ server' = server /\ store' = store /\ stale' = stale /\ author' = author
        /\ home' = home /\ excused' = excused /\ removed' = removed
    BY DEF history
  <1>3. page'[u] = Listing /\ (\A v \in Users : v # u => page'[v] = page[v]) /\ page' \in [Users -> Pages]
    BY <1>1, ListingKind DEF KindInv
  <1>4. /\ loads' \in [Users -> Seq(Answer)] /\ \A v \in Users : v # u => loads'[v] = loads[v]
        /\ \A i \in DOMAIN loads'[u] : \/ i \in DOMAIN loads[u] /\ loads'[u][i] = loads[u][i]
                                       \/ loads'[u][i].snap = server
    <2>1. server' \in Artifacts
      BY <1>1, <1>2 DEF KindInv
    <2>2. QED
      BY <1>1, <1>2, <2>1, Loading
  <1>5. /\ flow' \in [Users -> Flows] /\ \A v \in Users : v # u => flow'[v] = flow[v]
        /\ flow'[u].todo = <<"Menu">> => flow[u].todo = <<"Menu">>
    BY <1>1, Steps DEF KindInv
  <1>6. KindInv'
    BY <1>1, <1>2, <1>3, <1>4, <1>5, ListingKind DEF KindInv
  <1>7. \A v \in Users : v # u => Untouched(v)
    BY <1>2, <1>3, <1>4, <1>5 DEF Untouched
  <1>8. ASSUME NEW L \in SUBSET ({Item} \union Edits), NEW O \in SUBSET ({Item} \union Edits), DrawnInv(L, O)
        PROVE  DrawnBy(u, L, O)'
    <2>1. Drawn(Empty, L, O) /\ \A n \in Names : Drawn(server[n], L, O)
      BY <1>8 DEF Drawn, Empty, DrawnInv
    <2>2. /\ \A n \in Names : Drawn(store[u][n], L, O)
          /\ \A i \in DOMAIN loads[u] : \A n \in Names : Drawn(loads[u][i].snap[n], L, O)
      BY <1>8 DEF DrawnInv, DrawnBy
    <2>3. \A i \in DOMAIN loads'[u] : \A n \in Names : Drawn(loads'[u][i].snap[n], L, O)
      BY <1>4, <2>1, <2>2
    <2>4. QED
      BY <1>2, <1>3, <2>1, <2>2, <2>3, ListingKind DEF DrawnBy
  <1>9. Private(u)'
    <2>1. /\ \A n \in Names : Homed(store[u][n]) /\ Homed(server[n])
          /\ \A i \in DOMAIN loads[u] : \A n \in Names : Homed(loads[u][i].snap[n])
      BY <1>1 DEF UserInv, Private, ServerInv
    <2>2. \A i \in DOMAIN loads'[u] : \A n \in Names : Homed(loads'[u][i].snap[n])
      BY <1>4, <2>1
    <2>3. /\ \A n \in Names : Homed(store[u][n])'
          /\ \A i \in DOMAIN loads'[u] : \A n \in Names : Homed(loads[u][i].snap[n])'
      BY <1>2, <2>1, <2>2 DEF Homed
    <2>4. HomedBy(u, page[u].draft)' /\ HomedBy(u, page[u].json)'
      BY <1>3, ListingKind, PartsOf DEF HomedBy
    <2>5. QED
      BY <2>3, <2>4 DEF Private
  <1>10. Aware(u)'
    <2>1. /\ ~stale[u] => Knows(u, store[u])
          /\ \A i \in DOMAIN loads[u] : ~loads[u][i].late => Knows(u, loads[u][i].snap)
      BY <1>1 DEF UserInv, Aware
    <2>2. \A i \in DOMAIN loads'[u] : ~loads'[u][i].late => Knows(u, loads'[u][i].snap)
      BY <1>1, <1>4, <2>1, ServerKnown
    <2>3. QED
      BY <1>2, <2>1, <2>2 DEF Aware, Knows, Own
  <1>11. Keeping(u)'
    BY <1>3, ListingKind, PartsOf DEF Keeping
  <1>12. UserInv(u)'
    BY <1>1, <1>2, <1>5, <1>9, <1>10, <1>11 DEF UserInv, Resolved, Exists
  <1>13. QED
    BY <1>2, <1>6, <1>7, <1>8, <1>12, PageStep DEF history

LEMMA VisitListStep == ASSUME IInv, NEW u \in Users, VisitList(u) PROVE IInv'
  BY Leaving DEF VisitList, AtRest

LEMMA AnnounceStep == ASSUME IInv, NEW u \in Users, Announce(u) PROVE IInv'
  <1>1. flow'[u].step = "idle"
    BY Steps DEF Announce, IInv, KindInv
  <1>2. QED
    BY <1>1, Leaving DEF Announce

(* An answer arrives; those it overtook are late from then on.             *)
LEMMA OvertakenAnswers ==
    ASSUME NEW s \in Seq(Answer), NEW i \in 1..Len(s)
    PROVE  LET t == Overtaken(s, i)
           IN /\ t \in Seq(Answer) /\ DOMAIN t = 1..(Len(s) - 1) /\ Len(t) = Len(s) - 1
              /\ \A j \in DOMAIN t : \/ j < i /\ t[j].late /\ t[j].snap = s[j].snap /\ j \in DOMAIN s
                                     \/ ~(j < i) /\ t[j] = s[j + 1] /\ j + 1 \in DOMAIN s
              /\ i # Len(s) => t # <<>> /\ t[Len(t)] = s[Len(s)]
  <1> DEFINE t == Overtaken(s, i)
             k == Len(s) - 1
  <1>1. Len(s) \in Nat /\ k \in Nat /\ DOMAIN s = 1..Len(s) /\ \A j \in 1..Len(s) : s[j] \in Answer
    OBVIOUS
  <1>2. t = [j \in 1..k |-> IF j < i THEN [s[j] EXCEPT !.late = TRUE] ELSE s[j + 1]]
    BY DEF Overtaken
  <1> HIDE DEF t
  <1>3. \A j \in 1..k : j \in 1..Len(s) /\ j + 1 \in 1..Len(s)
    BY <1>1
  <1> HIDE DEF k
  <1>4. \A a \in Answer : LET b == [a EXCEPT !.late = TRUE] IN b \in Answer /\ b.late /\ b.snap = a.snap
    BY DEF Answer
  <1>5. ASSUME NEW j \in 1..k
        PROVE  /\ t[j] \in Answer
               /\ \/ j < i /\ t[j].late /\ t[j].snap = s[j].snap
                  \/ ~(j < i) /\ t[j] = s[j + 1]
    <2>1. s[j] \in Answer /\ s[j + 1] \in Answer
      BY <1>1, <1>3
    <2>2. CASE j < i
      BY <1>2, <1>4, <2>1, <2>2
    <2>3. CASE ~(j < i)
      BY <1>2, <2>1, <2>3
    <2>4. QED
      BY <2>2, <2>3
  <1>6. DOMAIN t = 1..k /\ t \in [1..k -> Answer]
    BY <1>2, <1>5
  <1>7. t \in Seq(Answer) /\ Len(t) = k
    BY <1>1, <1>6
  <1>8. i # Len(s) => k \in 1..k /\ ~(k < i) /\ k + 1 = Len(s)
    <2>1. \A m \in Nat : \A j \in 1..m : j # m => m - 1 \in 1..(m - 1) /\ ~(m - 1 < j) /\ (m - 1) + 1 = m
      OBVIOUS
    <2>2. Len(s) \in Nat
      BY <1>1
    <2>3. QED
      BY <2>1, <2>2 DEF k
  <1>9. i # Len(s) => t # <<>> /\ t[Len(t)] = s[Len(s)]
    <2>1. Len(<<>>) = 0 /\ (k \in 1..k => k # 0)
      BY <1>1
    <2>2. i # Len(s) => t[k] = s[k + 1]
      BY <1>2, <1>8
    <2>3. QED
      BY <1>7, <1>8, <2>1, <2>2
  <1>10. QED
    BY <1>1, <1>3, <1>5, <1>6, <1>7, <1>9 DEF t, k

LEMMA ArriveStep == ASSUME IInv, NEW u \in Users, Arrive(u) PROVE IInv'
  <1>1. KindInv /\ UserInv(u)
    BY DEF IInv
  <1>2. PICK i \in DOMAIN loads[u] :
           /\ store' = [store EXCEPT ![u] = loads[u][i].snap]
           /\ stale' = [stale EXCEPT ![u] = loads[u][i].late]
           /\ loads' = [loads EXCEPT ![u] = Overtaken(loads[u], i)]
           /\ flow' = IF i = Len(loads[u]) /\ flow[u].step = "reload"
                      THEN [flow EXCEPT ![u] = [step |-> "follow", todo |-> flow[u].todo]] ELSE flow
           /\ UNCHANGED <<server, page, history>>
    BY DEF Arrive
  <1> DEFINE t == Overtaken(loads[u], i)
             last == i = Len(loads[u]) /\ flow[u].step = "reload"
             after == [step |-> "follow", todo |-> flow[u].todo]
  <1>3. /\ server' = server /\ page' = page /\ author' = author
        /\ home' = home /\ excused' = excused /\ removed' = removed
    BY <1>2 DEF history
  <1>4. loads[u] \in Seq(Answer) /\ i \in 1..Len(loads[u]) /\ i \in DOMAIN loads[u] /\ loads[u][i] \in Answer
    BY <1>1, <1>2, Lengths DEF KindInv
  <1>5. /\ t \in Seq(Answer) /\ DOMAIN t = 1..(Len(loads[u]) - 1)
        /\ \A j \in DOMAIN t : \/ j < i /\ t[j].late /\ t[j].snap = loads[u][j].snap /\ j \in DOMAIN loads[u]
                               \/ ~(j < i) /\ t[j] = loads[u][j + 1] /\ j + 1 \in DOMAIN loads[u]
        /\ i # Len(loads[u]) => t # <<>> /\ t[Len(t)] = loads[u][Len(loads[u])]
    BY <1>4, OvertakenAnswers
  <1> HIDE DEF t
  <1>6. loads'[u] = t /\ loads' \in [Users -> Seq(Answer)] /\ \A v \in Users : v # u => loads'[v] = loads[v]
    BY <1>1, <1>2, <1>5 DEF t, KindInv
  <1>7. /\ store'[u] = loads[u][i].snap /\ store' \in [Users -> Artifacts] /\ \A v \in Users : v # u => store'[v] = store[v]
        /\ stale'[u] = loads[u][i].late /\ stale' \in [Users -> BOOLEAN] /\ \A v \in Users : v # u => stale'[v] = stale[v]
    BY <1>1, <1>2, <1>4 DEF KindInv, Answer
  <1>8. /\ flow' \in [Users -> Flows] /\ \A v \in Users : v # u => flow'[v] = flow[v]
        /\ flow'[u].todo = flow[u].todo
        /\ flow'[u].step = (IF last THEN "follow" ELSE flow[u].step)
    <2>1. flow \in [Users -> Flows] /\ flow[u] \in Flows
      BY <1>1 DEF KindInv
    <2>2. after \in Flows /\ after.step = "follow" /\ after.todo = flow[u].todo
      BY <2>1 DEF Flows
    <2>3. flow' = IF last THEN [flow EXCEPT ![u] = after] ELSE flow
      BY <1>2
    <2> HIDE DEF last, after
    <2>4. QED
      BY <2>1, <2>2, <2>3
  <1> HIDE DEF last, after
  <1>9. KindInv'
    BY <1>1, <1>3, <1>6, <1>7, <1>8 DEF KindInv
  <1>10. \A v \in Users : v # u => Untouched(v)
    BY <1>3, <1>6, <1>7, <1>8 DEF Untouched
  <1>11. \A j \in DOMAIN t : \E k \in DOMAIN loads[u] : t[j].snap = loads[u][k].snap
    BY <1>5
  <1>12. ASSUME NEW L \in SUBSET ({Item} \union Edits), NEW O \in SUBSET ({Item} \union Edits), DrawnInv(L, O)
         PROVE  DrawnBy(u, L, O)'
    <2>1. /\ \A k \in DOMAIN loads[u] : \A n \in Names : Drawn(loads[u][k].snap[n], L, O)
          /\ Drawn(page[u].draft, L, O) /\ Drawn(page[u].json, L, O)
      BY <1>12 DEF DrawnInv, DrawnBy
    <2>2. \A j \in DOMAIN t : \A n \in Names : Drawn(t[j].snap[n], L, O)
      BY <1>11, <2>1
    <2>3. QED
      BY <1>3, <1>4, <1>6, <1>7, <2>1, <2>2 DEF DrawnBy
  <1>13. Private(u)'
    <2>1. /\ \A k \in DOMAIN loads[u] : \A n \in Names : Homed(loads[u][k].snap[n])
          /\ HomedBy(u, page[u].draft) /\ HomedBy(u, page[u].json)
          /\ flow[u].step \in {"reload", "follow"} => Homed(Shown(page[u]))
      BY <1>1 DEF UserInv, Private
    <2>2. \A n \in Names : Homed(loads[u][i].snap[n])
      BY <1>4, <2>1
    <2>3. \A j \in DOMAIN t : \A n \in Names : Homed(t[j].snap[n])
      BY <1>11, <2>1
    <2>4. \A n \in Names : Homed(store[u][n])'
      BY <1>3, <1>7, <2>2 DEF Homed
    <2>5. \A j \in DOMAIN loads'[u] : \A n \in Names : Homed(loads[u][j].snap[n])'
      BY <1>3, <1>6, <2>3 DEF Homed
    <2>6. HomedBy(u, page[u].draft)' /\ HomedBy(u, page[u].json)'
      BY <1>3, <2>1 DEF HomedBy
    <2>7. flow'[u].step \in {"reload", "follow"} => Homed(Shown(page[u]))'
      BY <1>3, <1>8, <2>1 DEF Homed, last
    <2>8. QED
      BY <2>4, <2>5, <2>6, <2>7 DEF Private
  <1>14. Aware(u)'
    <2>1. \A rows : Knows(u, rows) => \A e \in Edits : Own(u, e)' => e \in Parts(rows[home'[e]])
      BY <1>3 DEF Knows, Own
    <2>2. CASE flow[u].step = "reload" /\ i # Len(loads[u])
      <3>1. flow'[u].step = "reload" /\ loads'[u] # <<>> /\ loads'[u][Len(loads'[u])] = loads[u][Len(loads[u])]
        BY <1>5, <1>6, <1>8, <2>2 DEF last
      <3>2. Knows(u, loads[u][Len(loads[u])].snap)
        BY <1>1, <2>2 DEF UserInv, Aware
      <3>3. QED
        BY <3>1, <3>2, <2>1 DEF Aware, Knows
    <2>3. CASE flow[u].step = "reload" /\ i = Len(loads[u])
      <3>1. flow'[u].step = "follow" /\ Knows(u, loads[u][i].snap)
        BY <1>1, <1>8, <2>3 DEF UserInv, Aware, last
      <3>2. \A j \in DOMAIN t : t[j].late
        <4>1. Len(loads[u]) \in Nat /\ \A j \in 1..(Len(loads[u]) - 1) : j < Len(loads[u])
          BY <1>4
        <4>2. QED
          BY <1>5, <2>3, <4>1
      <3>3. QED
        BY <1>6, <1>7, <2>1, <3>1, <3>2 DEF Aware, Knows
    <2>4. CASE flow[u].step # "reload"
      <3>1. flow'[u].step # "reload" /\ \A k \in DOMAIN loads[u] : ~loads[u][k].late => Knows(u, loads[u][k].snap)
        BY <1>1, <1>8, <2>4 DEF UserInv, Aware, last
      <3>2. \A j \in DOMAIN t : ~t[j].late => Knows(u, t[j].snap)
        BY <1>5, <3>1
      <3>3. ~loads[u][i].late => Knows(u, loads[u][i].snap)
        BY <1>4, <3>1
      <3>4. QED
        BY <1>6, <1>7, <2>1, <3>1, <3>2, <3>3 DEF Aware, Knows
    <2>5. QED
      BY <2>2, <2>3, <2>4
  <1>15. Keeping(u)'
    BY <1>1, <1>3 DEF UserInv, Keeping, Own
  <1>16. UserInv(u)'
    BY <1>1, <1>3, <1>8, <1>13, <1>14, <1>15 DEF UserInv, Resolved, Exists
  <1>17. QED
    BY <1>3, <1>9, <1>10, <1>12, <1>16, PageStep DEF history

-----------------------------------------------------------------------------
(* Artifacts are written.                                                  *)

Grown ==
    /\ author' \in Seq(Users \union {"somebody"}) /\ Len(author) <= Len(author') /\ Len(author') <= MaxSaves
    /\ \A e \in 1..Len(author) : author'[e] = author[e]

(* What the writer owes the artifact it replaces, and what a write leaves. *)
Owed(u, n, content, seen, kept, aged) ==
    \A e \in Edits : home[e] = n /\ e \in Parts(server[n]) /\ Own(author[e], e) /\ e \in kept
                    /\ (e \in seen \/ (author[e] = u /\ ~aged)) => e \in Parts(content)
Settled(n, content) ==
    /\ server' \in Artifacts /\ home' \in [Edits -> Names \union {""}] /\ excused' \subseteq Edits
    /\ server'[n] = content /\ \A m \in Names : m # n => server'[m] = server[m]
    /\ \A e \in Edits : home'[e] = IF home[e] = "" /\ e \in Parts(content) THEN n ELSE home[e]

(* What is replaced is kept or excused; what is new is at home.            *)
LEMMA Writing ==
    ASSUME IInv, NEW u \in Users, NEW n \in Names, NEW content \in Content, NEW seen, NEW kept, NEW aged \in BOOLEAN,
           Write(u, n, content, seen, kept, aged), Grown, removed' = removed,
           Parts(content) \intersect Edits \subseteq 1..Len(author'),
           Owed(u, n, content, seen, kept, aged)
    PROVE  Ages /\ ServerInv' /\ AcknowledgedEditsSurvive' /\ Settled(n, content)
  <1> DEFINE lost == {e \in Edits : home[e] = n /\ e \in Parts(server[n]) \ Parts(content)}
             gone == {e \in lost : e \notin kept \/ (e \notin seen /\ (author'[e] # u \/ aged))}
  <1>1. KindInv /\ HomeInv /\ ServerInv /\ AcknowledgedEditsSurvive
    BY DEF IInv
  <1>2. server' = [server EXCEPT ![n] = content] /\ excused' = excused \union gone
    BY DEF Write
  <1>3. gone \subseteq Edits /\ \A e \in gone : e \in Parts(server[n])
    OBVIOUS
  <1>4. /\ home' \in [Edits -> Names \union {""}]
        /\ \A e \in Edits : home'[e] = IF home[e] = "" /\ e \in Parts(content) THEN n ELSE home[e]
    <2>1. home' = [e \in Edits |-> IF home[e] = "" /\ e \in Parts(content) THEN n ELSE home[e]]
      BY DEF Write, Acknowledge
    <2>2. home \in [Edits -> Names \union {""}]
      BY <1>1 DEF KindInv
    <2>3. QED
      BY <2>1, <2>2
  <1>5. server' \in Artifacts /\ server'[n] = content /\ \A m \in Names : m # n => server'[m] = server[m]
    BY <1>1, <1>2 DEF KindInv, Artifacts
  <1>6. \A e \in Edits : home[e] # "" => e \in 1..Len(author) /\ author'[e] = author[e] /\ home'[e] = home[e]
    BY <1>1, <1>4 DEF HomeInv, Grown
  <1>7. 1..Len(author) \subseteq 1..Len(author')
    <2>1. Len(author) \in Nat /\ \A S : \A s \in Seq(S) : Len(s) \in Nat
      BY <1>1, Lengths
    <2>2. Len(author') \in Nat /\ Len(author) <= Len(author')
      BY <2>1 DEF Grown
    <2>3. QED
      BY <2>1, <2>2
  <1>8. n \in Names /\ content # Absent /\ n # ""
    BY PartsOf DEF Names
  <1>9. Ages
    <2>1. Resolved => Resolved'
      BY <1>5, <1>8 DEF Resolved, Exists, Names
    <2>2. \A e \in Edits : home'[e] # "" => e \in 1..Len(author')
      BY <1>4, <1>6, <1>7
    <2>3. QED
      BY <1>2, <1>6, <2>1, <2>2 DEF Ages, Grown
  <1>10. ServerInv'
    <2>1. ASSUME NEW m \in Names, NEW e \in Edits \intersect Parts(server'[m]) PROVE home'[e] # ""
      <3>1. CASE m = n
        BY <1>4, <1>5, <1>8, <2>1, <3>1
      <3>2. CASE m # n
        BY <1>1, <1>5, <1>6, <2>1, <3>2 DEF ServerInv, Homed
      <3>3. QED
        BY <3>1, <3>2
    <2>2. QED
      BY <2>1 DEF ServerInv, Homed
  <1>11. AcknowledgedEditsSurvive'
    <2>1. ASSUME NEW e \in Edits, home'[e] # "", e \notin excused' PROVE e \in Parts(server'[home'[e]])
      <3>1. CASE home[e] = ""
        BY <1>4, <1>5, <2>1, <3>1
      <3>2. CASE home[e] # "" /\ home[e] # n
        <4>1. home'[e] = home[e] /\ home[e] \in Names /\ e \notin excused
          BY <1>1, <1>2, <1>6, <2>1, <3>2 DEF KindInv
        <4>2. QED
          BY <1>1, <1>5, <3>2, <4>1 DEF AcknowledgedEditsSurvive
      <3>3. CASE home[e] # "" /\ home[e] = n
        <4>1. e \in 1..Len(author) /\ author'[e] = author[e] /\ home'[e] = n /\ e \notin excused /\ e \notin gone
          BY <1>2, <1>6, <2>1, <3>3
        <4>2. e \in Parts(server[n])
          BY <1>1, <3>3, <4>1 DEF AcknowledgedEditsSurvive
        <4>3. Own(author[e], e)
          BY <3>3, <4>1 DEF Own
        <4>4. e \in Parts(content)
          BY <3>3, <4>1, <4>2, <4>3 DEF Owed
        <4>5. QED
          BY <1>5, <4>1, <4>4
      <3>4. QED
        BY <3>1, <3>2, <3>3
    <2>2. QED
      BY <2>1 DEF AcknowledgedEditsSurvive
  <1>12. excused' \subseteq Edits
    BY <1>1, <1>2, <1>3 DEF KindInv
  <1>13. QED
    BY <1>4, <1>5, <1>9, <1>10, <1>11, <1>12 DEF Settled

LEMMA Outdating ==
    ASSUME KindInv, NEW u \in Users, NEW next \in Flows, Outdate(u, next)
    PROVE  /\ flow' \in [Users -> Flows] /\ flow'[u] = next
           /\ \A v \in Users : v # u => \/ flow'[v] = flow[v]
                                        \/ flow[v].step = "snapshot" /\ flow'[v] = Step("outdated")
  <1>1. flow \in [Users -> Flows] /\ Step("outdated") \in Flows
    BY Steps DEF KindInv
  <1>2. QED
    BY <1>1 DEF Outdate

(* A write that the writer's store is loaded after.                        *)
LEMMA Reloading ==
    ASSUME IInv, NEW u \in Users, Ages, ServerInv', AcknowledgedEditsSurvive', \A v \in Users : v # u => Quiet(v),
           server' \in Artifacts, home' \in [Edits -> Names \union {""}], excused' \subseteq Edits, removed' = removed,
           Load(u), UNCHANGED <<store, stale>>,
           NEW todo \in Todos, Outdate(u, [step |-> "reload", todo |-> todo]), todo = <<"Menu">> => Resolved',
           NEW q \in Pages, page' = [page EXCEPT ![u] = q],
           q.mode = page[u].mode, q.name = page[u].name, q.base = page[u].base, q.aged = page[u].aged,
           q.mode = "build" => q.tab = "design",
           q.draft \in {page[u].draft, Shown(q)}, q.json \in {page[u].json, Shown(q)},
           \A e \in Edits \intersect Parts(Shown(q)) : home'[e] # "",
           q.base \subseteq Parts(Shown(q)),
           q.mode = "edit" /\ ~q.aged => \A e \in Edits : Own(u, e)' /\ home'[e] = q.name => e \in Parts(Shown(q)),
           NEW L \in SUBSET ({Item} \union Edits), NEW O \in SUBSET ({Item} \union Edits), Split(L, O),
           NEW A, NEW B, A \union B \subseteq {Item} \union ((1..Len(author')) \ (1..Len(author))),
           A \intersect B \intersect Edits = {}, Item \in A => Resolved',
           \A n \in Names : Drawn(server'[n], L \union A, O \union B), Drawn(Shown(q), L \union A, O \union B)
    PROVE  IInv'
  <1> DEFINE LA == L \union A
             OB == O \union B
  <1>1. KindInv /\ UserInv(u) /\ HomeInv
    BY DEF IInv
  <1>2. page'[u] = q /\ (\A v \in Users : v # u => page'[v] = page[v]) /\ page' \in [Users -> Pages]
    BY <1>1 DEF KindInv
  <1>3. store' = store /\ stale' = stale
    OBVIOUS
  <1>4. /\ loads' \in [Users -> Seq(Answer)] /\ loads'[u] # <<>>
        /\ \A v \in Users : v # u => loads'[v] = loads[v]
        /\ loads'[u][Len(loads'[u])].snap = server'
        /\ \A i \in DOMAIN loads'[u] : \/ i \in DOMAIN loads[u] /\ loads'[u][i] = loads[u][i]
                                       \/ loads'[u][i].snap = server'
    BY <1>1, Loading
  <1>5. /\ flow' \in [Users -> Flows] /\ flow'[u].step = "reload" /\ flow'[u].todo = todo
        /\ \A v \in Users : v # u => \/ flow'[v] = flow[v]
                                     \/ flow[v].step = "snapshot" /\ flow'[v] = Step("outdated")
    <2> DEFINE next == [step |-> "reload", todo |-> todo]
    <2>1. next \in Flows /\ next.step = "reload" /\ next.todo = todo
      BY DEF Flows
    <2> HIDE DEF next
    <2>2. Outdate(u, next)
      BY DEF next
    <2>3. QED
      BY <1>1, <2>1, <2>2, Outdating
  <1>6. KindInv'
    <2>1. \A v \in Users : page'[v].mode \in {"new", "edit"} => page'[v].name \in Names
      BY <1>1, <1>2 DEF KindInv
    <2>2. \A v \in Users : page'[v].mode = "build" => page'[v].tab = "design"
      BY <1>1, <1>2 DEF KindInv
    <2>3. QED
      BY <1>1, <1>2, <1>3, <1>4, <1>5, <2>1, <2>2 DEF KindInv, Ages
  <1>7. \A v \in Users : v # u => Untouched(v)
    BY <1>2, <1>3, <1>4, <1>5 DEF Untouched
  <1>8. PartsInv'
    <2>1. \A c : Drawn(c, L, O) => Drawn(c, LA, OB)
      BY DEF Drawn
    <2>2. /\ \A n \in Names : Drawn(store[u][n], L, O)
          /\ \A i \in DOMAIN loads[u] : \A n \in Names : Drawn(loads[u][i].snap[n], L, O)
          /\ Drawn(page[u].draft, L, O) /\ Drawn(page[u].json, L, O)
      BY DEF Split, DrawnInv, DrawnBy
    <2>3. \A i \in DOMAIN loads'[u] : \A n \in Names : Drawn(loads'[u][i].snap[n], LA, OB)
      BY <1>4, <2>1, <2>2
    <2>4. Drawn(q.draft, LA, OB) /\ Drawn(q.json, LA, OB)
      BY <2>1, <2>2
    <2>5. DrawnBy(u, LA, OB)'
      BY <1>2, <1>3, <2>1, <2>2, <2>3, <2>4 DEF DrawnBy
    <2>6. \A v \in Users : Untouched(v) \/ DrawnBy(v, LA, OB)'
      BY <1>7, <2>5
    <2>7. QED
      BY <1>1, <2>6, PartsStep
  <1>9. Private(u)'
    <2>1. /\ \A n \in Names : Homed(store[u][n]) /\ store[u][n] \in Content \union {Absent}
          /\ \A i \in DOMAIN loads[u] : \A n \in Names :
                Homed(loads[u][i].snap[n]) /\ loads[u][i].snap[n] \in Content \union {Absent}
          /\ HomedBy(u, page[u].draft) /\ HomedBy(u, page[u].json)
          /\ page[u].draft \in Content /\ page[u].json \in Content
      BY <1>1, KindsOf DEF UserInv, Private
    <2>2. \A n \in Names : Homed(store[u][n])'
      BY <1>1, <1>3, <2>1, HomedStill DEF Homed
    <2>3. ASSUME NEW i \in DOMAIN loads'[u], NEW n \in Names
          PROVE  \A e \in Edits \intersect Parts(loads'[u][i].snap[n]) : home'[e] # ""
      <3>1. CASE i \in DOMAIN loads[u] /\ loads'[u][i] = loads[u][i]
        BY <1>1, <2>1, <3>1, HomedStill
      <3>2. CASE loads'[u][i].snap = server'
        BY <3>2 DEF ServerInv, Homed
      <3>3. QED
        BY <1>4, <2>3, <3>1, <3>2
    <2>4. \A c \in {page[u].draft, page[u].json, Shown(q)} : \A e \in Edits \intersect Parts(c) :
             home'[e] # "" \/ (e \in 1..Len(author') /\ author'[e] = u)
      <3>1. \A c \in Content \union {Absent} : HomedBy(u, c) => \A e \in Edits \intersect Parts(c) :
               home'[e] # "" \/ (e \in 1..Len(author') /\ author'[e] = u)
        BY <1>1, HomedStill
      <3>2. \A c \in {page[u].draft, page[u].json} : \A e \in Edits \intersect Parts(c) :
               home'[e] # "" \/ (e \in 1..Len(author') /\ author'[e] = u)
        BY <2>1, <3>1
      <3>3. \A e \in Edits \intersect Parts(Shown(q)) :
               home'[e] # "" \/ (e \in 1..Len(author') /\ author'[e] = u)
        OBVIOUS
      <3>4. QED
        BY <3>2, <3>3
    <2>5. HomedBy(u, page[u].draft)' /\ HomedBy(u, page[u].json)'
      BY <1>2, <2>4 DEF HomedBy
    <2>6. Homed(Shown(page[u]))'
      BY <1>2 DEF Homed
    <2>7. \A i \in DOMAIN loads'[u] : \A n \in Names : Homed(loads[u][i].snap[n])'
      BY <2>3 DEF Homed
    <2>8. QED
      BY <2>2, <2>5, <2>6, <2>7 DEF Private
  <1>10. Aware(u)'
    <2>1. Knows(u, server)'
      BY DEF AcknowledgedEditsSurvive, Knows, Own
    <2>2. QED
      BY <1>4, <1>5, <2>1 DEF Aware, Knows
  <1>11. Keeping(u)'
    <2>1. q.base \subseteq Parts(q.draft)
      BY <1>1 DEF UserInv, Keeping
    <2>2. QED
      BY <1>2, <2>1 DEF Keeping
  <1>12. UserInv(u)'
    BY <1>5, <1>9, <1>10, <1>11 DEF UserInv
  <1>13. QED
    BY <1>6, <1>7, <1>8, <1>12, Acting

(* A page saves what it shows, with the edits of F beside.                 *)
LEMMA PageSave ==
    ASSUME IInv, NEW u \in Users, page[u].mode \in {"new", "edit"}, Grown,
           NEW content \in Content, NEW F, F \subseteq (1..Len(author')) \ (1..Len(author)), \A e \in F : author'[e] = u,
           Parts(Shown(page[u])) \subseteq Parts(content), Parts(content) \subseteq Parts(Shown(page[u])) \union F,
           NEW A \in SUBSET F, NEW B \in SUBSET F, A \intersect B = {},
           content.list \subseteq Shown(page[u]).list \union A, content.other \subseteq Shown(page[u]).other \union B,
           WritePage(u, content), Load(u), UNCHANGED <<store, stale, removed>>,
           NEW todo \in Todos, todo # <<"Menu">>, Outdate(u, [step |-> "reload", todo |-> todo]),
           NEW q \in Pages, page' = [page EXCEPT ![u] = q], Shown(q) = content,
           q.mode = page[u].mode, q.name = page[u].name, q.base = page[u].base, q.aged = page[u].aged,
           q.draft \in {page[u].draft, content}, q.json \in {page[u].json, content}
    PROVE  IInv'
  <1> DEFINE p == page[u]
             kept == IF page[u].mode = "new" THEN {} ELSE Edits
  <1>1. KindInv /\ HomeInv /\ Private(u) /\ Keeping(u)
    BY DEF IInv, UserInv
  <1>2. p \in Pages /\ Shown(p) \in Content /\ p.aged \in BOOLEAN /\ p.name \in Names /\ HomedBy(u, Shown(p))
    <2>1. p \in Pages /\ p.name \in Names
      BY <1>1, KindsOf DEF KindInv
    <2>2. Shown(p) \in Content /\ (Shown(p) = p.draft \/ Shown(p) = p.json)
      BY <2>1, Tabs
    <2>3. QED
      BY <1>1, <2>1, <2>2 DEF Pages, Private
  <1>3. Write(u, p.name, content, p.base, kept, p.aged)
    BY DEF WritePage
  <1>4. 1..Len(author) \subseteq 1..Len(author')
    <2>1. Len(author) \in Nat /\ \A S : \A s \in Seq(S) : Len(s) \in Nat
      BY <1>1, Lengths
    <2>2. Len(author') \in Nat /\ Len(author) <= Len(author')
      BY <2>1 DEF Grown
    <2>3. QED
      BY <2>1, <2>2
  <1>5. \A e \in Edits \intersect Parts(content) :
           home[e] # "" \/ (e \in 1..Len(author') /\ author'[e] = u)
    BY <1>2, <1>4 DEF HomedBy, Grown
  <1>6. Parts(content) \intersect Edits \subseteq 1..Len(author')
    BY <1>1, <1>4, <1>5 DEF HomeInv
  <1>7. Owed(u, p.name, content, p.base, kept, p.aged)
    <2>1. kept # {} => p.mode = "edit"
      OBVIOUS
    <2>2. p.base \subseteq Parts(content)
      BY <1>1 DEF Keeping
    <2>3. p.mode = "edit" /\ ~p.aged => \A e \in Edits : Own(u, e) /\ home[e] = p.name => e \in Parts(content)
      BY <1>1 DEF Keeping
    <2> HIDE DEF p, kept
    <2>4. QED
      BY <2>1, <2>2, <2>3 DEF Owed
  <1> HIDE DEF kept
  <1>8. /\ Ages /\ ServerInv' /\ AcknowledgedEditsSurvive'
        /\ server' \in Artifacts /\ home' \in [Edits -> Names \union {""}] /\ excused' \subseteq Edits
        /\ server'[p.name] = content /\ \A m \in Names : m # p.name => server'[m] = server[m]
        /\ \A e \in Edits : home'[e] = IF home[e] = "" /\ e \in Parts(content) THEN p.name ELSE home[e]
    <2>1. removed' = removed
      OBVIOUS
    <2> HIDE DEF p
    <2>2. Ages /\ ServerInv' /\ AcknowledgedEditsSurvive' /\ Settled(p.name, content)
      BY <1>2, <1>3, <1>6, <1>7, <2>1, Writing
    <2>3. QED
      BY <2>2 DEF Settled
  <1>9. \A v \in Users : v # u => Quiet(v)
    BY <1>5, <1>8 DEF Quiet
  <1>10. \A e \in Edits \intersect Parts(content) : home'[e] # ""
    BY <1>2, <1>8 DEF Names
  <1>11. ASSUME p.mode = "edit", ~p.aged, NEW e \in Edits, Own(u, e)', home'[e] = p.name
         PROVE  e \in Parts(content)
    <2>1. CASE home[e] = ""
      BY <1>2, <1>8, <1>11, <2>1 DEF Names
    <2>2. CASE home[e] # ""
      <3>1. Own(u, e) /\ home[e] = p.name
        BY <1>1, <1>8, <1>11, <2>2, OwnBefore
      <3>2. QED
        BY <1>1, <1>11, <3>1 DEF Keeping
    <2>3. QED
      BY <2>1, <2>2
  <1>12. p.base \subseteq Parts(content)
    BY <1>1 DEF Keeping
  <1>13. PICK L \in SUBSET ({Item} \union Edits), O \in SUBSET ({Item} \union Edits) : Split(L, O)
    <2>1. PartsInv
      BY DEF IInv
    <2>2. QED
      BY <2>1 DEF PartsInv
  <1>14. Item \notin A /\ A \intersect B \intersect Edits = {}
         /\ A \union B \subseteq {Item} \union ((1..Len(author')) \ (1..Len(author)))
    <2> DEFINE fresh == (1..Len(author')) \ (1..Len(author))
    <2>1. Item \notin fresh
      BY DEF Item
    <2>2. A \subseteq fresh /\ B \subseteq fresh
      OBVIOUS
    <2> HIDE DEF fresh
    <2>3. Item \notin A /\ A \union B \subseteq {Item} \union fresh
      BY <2>1, <2>2
    <2>4. A \intersect B \intersect Edits = {}
      OBVIOUS
    <2>5. QED
      BY <2>3, <2>4, Zenon DEF fresh
  <1>15. Drawn(content, L \union A, O \union B)
    <2>1. Drawn(p.draft, L, O) /\ Drawn(p.json, L, O)
      BY <1>13 DEF Split, DrawnInv, DrawnBy
    <2>2. Shown(p) = p.draft \/ Shown(p) = p.json
      BY <1>2, Tabs
    <2>3. Drawn(Shown(p), L, O)
      BY <2>1, <2>2
    <2>4. QED
      BY <2>3 DEF Drawn
  <1>16. \A n \in Names : Drawn(server'[n], L \union A, O \union B)
    <2>1. \A n \in Names : Drawn(server[n], L, O)
      BY <1>13 DEF Split, DrawnInv
    <2>2. QED
      BY <1>8, <1>15, <2>1 DEF Drawn
  <1>17. /\ q.mode = "build" => q.tab = "design"
         /\ q.draft \in {page[u].draft, Shown(q)} /\ q.json \in {page[u].json, Shown(q)}
         /\ \A e \in Edits \intersect Parts(Shown(q)) : home'[e] # ""
         /\ q.base \subseteq Parts(Shown(q)) /\ Drawn(Shown(q), L \union A, O \union B)
         /\ UNCHANGED <<store, stale>> /\ removed' = removed
    BY <1>10, <1>12, <1>15
  <1>18. q.mode = "edit" /\ ~q.aged => \A e \in Edits : Own(u, e)' /\ home'[e] = q.name => e \in Parts(Shown(q))
    BY <1>11
  <1>19. (todo = <<"Menu">> => Resolved') /\ (Item \in A => Resolved')
    BY <1>14
  <1> HIDE DEF p
  <1>20. QED
    BY <1>8, <1>9, <1>13, <1>14, <1>16, <1>17, <1>18, <1>19, Reloading

LEMMA FollowUpKinds ==
    ASSUME NEW p, NEW content PROVE FollowUps(p, content) \subseteq Todos \ {<<"Menu">>}
  <1>1. {<<>>, <<"TableForm">>, <<"TableForm", "Menu">>, <<"FormExt">>} \subseteq Todos \ {<<"Menu">>}
    BY DEF Todos
  <1>2. QED
    BY <1>1 DEF FollowUps

LEMMA SaveStep == ASSUME IInv, NEW u \in Users, Save(u) PROVE IInv'
  <1> DEFINE p == page[u]
             e == Len(author) + 1
  <1>1. /\ p.mode \in {"new", "edit"} /\ Len(author) < MaxSaves /\ author' = Append(author, u)
        /\ Load(u) /\ UNCHANGED <<store, stale, removed>>
    BY DEF Save, MaySave
  <1>2. PICK content \in Revised(p) :
           /\ WritePage(u, content) /\ Show(u, content)
           /\ \E todo \in FollowUps(p, content) : Outdate(u, [step |-> "reload", todo |-> todo])
    BY DEF Save
  <1>3. PICK todo \in FollowUps(p, content) : Outdate(u, [step |-> "reload", todo |-> todo])
    BY <1>2
  <1>4. todo \in Todos /\ todo # <<"Menu">>
    BY FollowUpKinds
  <1>5. p \in Pages /\ KindInv
    BY KindsOf DEF IInv
  <1>6. /\ Len(author) + 1 \in Edits /\ {e} \subseteq (1..Len(author')) \ (1..Len(author)) /\ author'[e] = u /\ Grown
    BY <1>1, <1>5, Grows DEF Grown
  <1>7. /\ content \in Content /\ Parts(Shown(p)) \subseteq Parts(content)
        /\ Parts(content) \subseteq Parts(Shown(p)) \union {e}
        /\ \E A, B \in SUBSET {e} :
              A \intersect B = {} /\ content.list \subseteq Shown(p).list \union A
                                  /\ content.other \subseteq Shown(p).other \union B
    BY <1>5, <1>6, RevisedParts
  <1>8. PICK A \in SUBSET {e}, B \in SUBSET {e} :
              A \intersect B = {} /\ content.list \subseteq Shown(p).list \union A
                                  /\ content.other \subseteq Shown(p).other \union B
    BY <1>7
  <1> DEFINE q == Showing(p, content)
  <1>9. /\ q \in Pages /\ q.mode = p.mode /\ q.name = p.name /\ q.base = p.base /\ q.aged = p.aged /\ Shown(q) = content
        /\ q.draft \in {p.draft, content} /\ q.json \in {p.json, content}
    <2>1. p \in Pages /\ content \in Content
      BY <1>5, <1>7
    <2> HIDE DEF p, e
    <2>2. QED
      BY <2>1, ShowingTab
  <1>10. page' = [page EXCEPT ![u] = q]
    BY <1>2 DEF Show
  <1> HIDE DEF q, e
  <1> DEFINE F == {e}
  <1>11. F \subseteq (1..Len(author')) \ (1..Len(author)) /\ (\A f \in F : author'[f] = u) /\ Grown
    BY <1>6
  <1>12. /\ content \in Content /\ Parts(Shown(page[u])) \subseteq Parts(content)
         /\ Parts(content) \subseteq Parts(Shown(page[u])) \union F
         /\ A \in SUBSET F /\ B \in SUBSET F /\ A \intersect B = {}
         /\ content.list \subseteq Shown(page[u]).list \union A
         /\ content.other \subseteq Shown(page[u]).other \union B
    BY <1>7, <1>8
  <1>13. /\ page[u].mode \in {"new", "edit"} /\ WritePage(u, content) /\ Load(u)
         /\ UNCHANGED <<store, stale, removed>>
         /\ todo \in Todos /\ todo # <<"Menu">> /\ Outdate(u, [step |-> "reload", todo |-> todo])
    BY <1>1, <1>2, <1>3, <1>4
  <1>14. /\ q \in Pages /\ page' = [page EXCEPT ![u] = q] /\ Shown(q) = content
         /\ q.mode = page[u].mode /\ q.name = page[u].name /\ q.base = page[u].base /\ q.aged = page[u].aged
         /\ q.draft \in {page[u].draft, content} /\ q.json \in {page[u].json, content}
    BY <1>9, <1>10
  <1> HIDE DEF p, F
  <1>15. QED
    BY <1>11, <1>12, <1>13, <1>14, PageSave

(* A save ends without having written.                                     *)
LEMMA Stopping ==
    ASSUME IInv, NEW u \in Users, flow[u].step # "reload", flow' = [flow EXCEPT ![u] = Step("idle")],
           UNCHANGED <<server, store, loads, stale, page, history>>
    PROVE  IInv'
  <1>1. KindInv /\ UserInv(u)
    BY DEF IInv
  <1>2. /\ server' = server /\ store' = store /\ loads' = loads /\ stale' = stale /\ page' = page /\ author' = author
        /\ home' = home /\ excused' = excused /\ removed' = removed
    BY DEF history
  <1>3. /\ flow' \in [Users -> Flows] /\ flow'[u] = Step("idle") /\ \A v \in Users : v # u => flow'[v] = flow[v]
    BY <1>1, Steps DEF KindInv
  <1>4. KindInv'
    BY <1>1, <1>2, <1>3 DEF KindInv
  <1>5. \A v \in Users : v # u => Untouched(v)
    BY <1>2, <1>3 DEF Untouched
  <1>6. \A L, O \in SUBSET ({Item} \union Edits) : DrawnInv(L, O) => DrawnBy(u, L, O)'
    BY <1>2 DEF DrawnInv, DrawnBy
  <1>7. Private(u)'
    <2>1. /\ \A n \in Names : Homed(store[u][n])
          /\ \A i \in DOMAIN loads[u] : \A n \in Names : Homed(loads[u][i].snap[n])
          /\ HomedBy(u, page[u].draft) /\ HomedBy(u, page[u].json)
      BY <1>1 DEF UserInv, Private
    <2>2. /\ \A n \in Names : Homed(store[u][n])'
          /\ \A i \in DOMAIN loads'[u] : \A n \in Names : Homed(loads[u][i].snap[n])'
      BY <1>2, <2>1 DEF Homed
    <2>3. HomedBy(u, page[u].draft)' /\ HomedBy(u, page[u].json)'
      BY <1>2, <2>1 DEF HomedBy
    <2>4. flow'[u].step = "idle"
      BY <1>3, Steps
    <2>5. QED
      BY <2>2, <2>3, <2>4 DEF Private
  <1>8. Aware(u)'
    BY <1>1, <1>2, <1>3, Steps DEF UserInv, Aware, Knows, Own
  <1>9. Keeping(u)'
    BY <1>1, <1>2 DEF UserInv, Keeping, Own
  <1>10. UserInv(u)'
    BY <1>3, <1>7, <1>8, <1>9, Steps DEF UserInv
  <1>11. QED
    BY <1>2, <1>4, <1>5, <1>6, <1>10, PageStep DEF history

LEMMA ApplyChangeSetStep == ASSUME IInv, NEW u \in Users, ApplyChangeSet(u) PROVE IInv'
  <1>1. CASE /\ flow[u].step = "snapshot" /\ page[u].mode # "build" /\ UNCHANGED author
             /\ WritePage(u, Shown(page[u])) /\ Outdate(u, Step("reload")) /\ Load(u)
             /\ UNCHANGED <<store, stale, page, removed>>
    <2> DEFINE p == page[u]
    <2>1. /\ p \in Pages /\ Shown(p) \in Content /\ KindInv /\ author' = author /\ page' = [page EXCEPT ![u] = p]
      <3>1. p \in Pages /\ Shown(p) \in Content /\ KindInv
        BY KindsOf DEF IInv
      <3>2. QED
        BY <1>1, <3>1 DEF KindInv
    <2>2. Grown
      <3>1. Len(author) <= Len(author)
        BY <2>1, Lengths
      <3>2. QED
        BY <2>1, <3>1 DEF Grown, KindInv
    <2>3. p.mode \in {"new", "edit"}
      BY <1>1, <2>1 DEF IInv, UserInv, Pages
    <2>4. Outdate(u, [step |-> "reload", todo |-> <<>>]) /\ <<>> \in Todos /\ <<>> # <<"Menu">>
      BY <1>1, Steps DEF Step, Todos
    <2>5. {} \in SUBSET {} /\ {} \intersect {} = {} /\ {} \subseteq (1..Len(author')) \ (1..Len(author))
          /\ \A f \in {} : author'[f] = u
      OBVIOUS
    <2>6. Parts(Shown(p)) \subseteq Parts(Shown(p)) /\ Parts(Shown(p)) \subseteq Parts(Shown(p)) \union {}
          /\ Shown(p).list \subseteq Shown(p).list \union {} /\ Shown(p).other \subseteq Shown(p).other \union {}
      OBVIOUS
    <2>7. UNCHANGED <<store, stale, removed>> /\ Load(u) /\ WritePage(u, Shown(p))
      BY <1>1
    <2>8. p.draft \in {p.draft, Shown(p)} /\ p.json \in {p.json, Shown(p)}
      OBVIOUS
    <2> HIDE DEF p
    <2>9. QED
      BY <2>1, <2>2, <2>3, <2>4, <2>5, <2>6, <2>7, <2>8, PageSave DEF p
  <1>2. CASE /\ flow[u].step = "outdated" /\ flow' = [flow EXCEPT ![u] = Step("idle")]
             /\ UNCHANGED <<server, store, loads, stale, page, history>>
    BY <1>2, Stopping
  <1>3. QED
    BY <1>1, <1>2 DEF ApplyChangeSet

LEMMA TodoParts ==
    ASSUME NEW todo \in Todos, todo # <<>>
    PROVE  /\ Head(todo) \in {"TableForm", "Menu", "FormExt"} /\ Tail(todo) \in Todos
           /\ Tail(todo) = <<"Menu">> => Head(todo) = "TableForm"
           /\ Head(todo) = "Menu" => todo = <<"Menu">>
  <1>1. Head(<<"TableForm">>) = "TableForm" /\ Head(<<"TableForm", "Menu">>) = "TableForm"
        /\ Head(<<"Menu">>) = "Menu" /\ Head(<<"FormExt">>) = "FormExt"
    OBVIOUS
  <1>2. Tail(<<"TableForm">>) = <<>> /\ Tail(<<"TableForm", "Menu">>) = <<"Menu">>
        /\ Tail(<<"Menu">>) = <<>> /\ Tail(<<"FormExt">>) = <<>>
    OBVIOUS
  <1>3. <<>> # <<"Menu">>
    BY Steps
  <1>4. todo \in {<<"TableForm">>, <<"TableForm", "Menu">>, <<"Menu">>, <<"FormExt">>}
    BY DEF Todos
  <1>5. <<>> \in Todos /\ <<"Menu">> \in Todos
    BY DEF Todos
  <1>6. QED
    BY <1>1, <1>2, <1>3, <1>4, <1>5, Zenon

(* A follow-up save extends the list it has seen, and brings what is saved *)
(* already.                                                                *)
LEMMA FollowParts ==
    ASSUME IInv, NEW u \in Users, flow[u].step = "follow", NEW n \in {"TableForm", "Menu", "FormExt"},
           NEW L \in SUBSET ({Item} \union Edits), NEW O \in SUBSET ({Item} \union Edits), Split(L, O)
    PROVE  LET content == Follow(u, n)
               kept == IF n = "TableForm" THEN {} ELSE Edits \ server[n].other
               A == IF n = "Menu" THEN {Item} ELSE {}
           IN /\ content \in Content /\ \A e \in Edits \intersect Parts(content) : home[e] # ""
              /\ Owed(u, n, content, Parts(store[u][n]), kept, stale[u])
              /\ Drawn(content, L \union A, O \union {})
  <1> DEFINE p == page[u]
             rows == store[u]
             content == Follow(u, n)
             extra == IF n = "FormExt" THEN Shown(p).list ELSE IF n = "TableForm" THEN {} ELSE {Item}
             had == IF n = "TableForm" \/ rows[n] = Absent THEN {} ELSE rows[n].list
             A == IF n = "Menu" THEN {Item} ELSE {}
             kept == IF n = "TableForm" THEN {} ELSE Edits \ server[n].other
  <1>1. content = [list |-> had \union extra, other |-> {}]
    BY DEF Follow
  <1>2. /\ n \in Names /\ KindInv /\ UserInv(u) /\ HomeInv
        /\ p \in Pages /\ Shown(p) \in Content
        /\ rows[n] \in Content \union {Absent} /\ server[n] \in Content \union {Absent}
    BY KindsOf DEF IInv, Names
  <1>3. Homed(rows[n]) /\ Homed(Shown(p)) /\ (~stale[u] => Knows(u, rows))
    BY <1>2 DEF UserInv, Private, Aware
  <1>4. had \subseteq Parts(rows[n]) /\ had \subseteq {Item} \union Edits
    BY <1>2, PartsOf
  <1>5. extra \subseteq {Item} \union Parts(Shown(p)) /\ extra \subseteq {Item} \union Edits
    BY <1>2, PartsOf
  <1>6. content \in Content /\ content.list = had \union extra /\ content.other = {} /\ Parts(content) = had \union extra
    <2> HIDE DEF had, extra, content
    <2>1. content \in Content /\ content.list = had \union extra /\ content.other = {}
      BY <1>1, <1>4, <1>5 DEF Content
    <2>2. QED
      BY <2>1, PartsOf
  <1>7. \A e \in Edits \intersect Parts(content) : home[e] # ""
    <2> HIDE DEF had, extra, content, p, rows
    <2>1. Item \notin Edits
      BY PartsOf
    <2>2. QED
      BY <1>3, <1>4, <1>5, <1>6, <2>1 DEF Homed
  <1>8. /\ Drawn(rows[n], L, O) /\ Drawn(server[n], L, O) /\ Drawn(Shown(p), L, O)
    <2>1. Drawn(rows[n], L, O) /\ Drawn(server[n], L, O) /\ Drawn(p.draft, L, O) /\ Drawn(p.json, L, O)
      BY <1>2 DEF Split, DrawnInv, DrawnBy
    <2>2. Shown(p) = p.draft \/ Shown(p) = p.json
      BY <1>2, Tabs
    <2>3. QED
      BY <2>1, <2>2
  <1>9. Drawn(content, L \union A, O \union {})
    <2>1. had \subseteq L
      BY <1>8 DEF Drawn
    <2>2. extra \subseteq L \union A
      BY <1>8 DEF Drawn
    <2>3. QED
      BY <1>6, <2>1, <2>2 DEF Drawn
  <1>10. Owed(u, n, content, Parts(rows[n]), kept, stale[u])
    <2>1. ASSUME NEW e \in Edits, home[e] = n, e \in Parts(server[n]), Own(author[e], e), e \in kept,
                 e \in Parts(rows[n]) \/ (author[e] = u /\ ~stale[u])
          PROVE  e \in Parts(content)
      <3>1. n # "TableForm" /\ e \notin server[n].other
        BY <2>1
      <3>2. e \in server[n].list
        BY <1>2, <2>1, <3>1, PartsOf
      <3>3. e \in L /\ e \notin O
        BY <1>8, <3>2 DEF Drawn, Split
      <3>4. e \in Parts(rows[n])
        BY <1>3, <2>1 DEF Knows
      <3>5. rows[n] # Absent /\ e \in rows[n].list
        <4>1. rows[n] # Absent
          BY <3>4, PartsOf
        <4>2. e \in rows[n].list \/ e \in rows[n].other
          BY <1>2, <3>4, PartsOf
        <4>3. QED
          BY <1>8, <3>3, <4>1, <4>2 DEF Drawn
      <3>6. QED
        BY <1>6, <3>1, <3>5
    <2> HIDE DEF had, extra, content, p, rows, kept
    <2>2. QED
      BY <2>1 DEF Owed
  <1>11. QED
    BY <1>6, <1>7, <1>9, <1>10

LEMMA SaveNextStep == ASSUME IInv, NEW u \in Users, SaveNext(u) PROVE IInv'
  <1> DEFINE n == Head(flow[u].todo)
             rest == Tail(flow[u].todo)
             content == Follow(u, n)
             kept == IF n = "TableForm" THEN {} ELSE Edits \ server[n].other
  <1>1. /\ flow[u].step = "follow" /\ flow[u].todo # <<>> /\ UNCHANGED <<store, stale, page, author, removed>>
        /\ \/ /\ Write(u, n, content, Parts(store[u][n]), kept, stale[u])
              /\ Outdate(u, [step |-> "reload", todo |-> rest])
              /\ Load(u)
           \/ /\ flow' = [flow EXCEPT ![u] = Step("idle")]
              /\ UNCHANGED <<server, loads, home, excused>>
    BY DEF SaveNext
  <1> HIDE DEF content, kept
  <1>2. CASE /\ Write(u, n, content, Parts(store[u][n]), kept, stale[u])
             /\ Outdate(u, [step |-> "reload", todo |-> rest]) /\ Load(u)
    <2> DEFINE p == page[u]
               A == IF n = "Menu" THEN {Item} ELSE {}
    <2>1. /\ KindInv /\ HomeInv /\ UserInv(u) /\ p \in Pages /\ page \in [Users -> Pages] /\ stale[u] \in BOOLEAN
          /\ flow[u].todo \in Todos /\ Shown(p) \in Content
      BY KindsOf DEF IInv, KindInv, Flows
    <2>2. /\ n \in {"TableForm", "Menu", "FormExt"} /\ n \in Names /\ rest \in Todos
          /\ rest = <<"Menu">> => n = "TableForm"
          /\ n = "Menu" => flow[u].todo = <<"Menu">>
      BY <1>1, <2>1, TodoParts DEF Names
    <2>3. /\ store' = store /\ stale' = stale /\ author' = author /\ removed' = removed /\ page' = [page EXCEPT ![u] = p]
      BY <1>1, <2>1
    <2> HIDE DEF n, rest
    <2>4. PICK L \in SUBSET ({Item} \union Edits), O \in SUBSET ({Item} \union Edits) : Split(L, O)
      BY DEF IInv, PartsInv
    <2>5. /\ content \in Content /\ \A e \in Edits \intersect Parts(content) : home[e] # ""
          /\ Owed(u, n, content, Parts(store[u][n]), kept, stale[u])
          /\ Drawn(content, L \union A, O \union {})
      BY <1>1, <2>2, <2>4, FollowParts DEF content, kept
    <2>6. Grown
      <3>1. Len(author) <= Len(author)
        BY <2>1, Lengths
      <3>2. QED
        BY <2>1, <2>3, <3>1 DEF Grown, KindInv
    <2>7. Parts(content) \intersect Edits \subseteq 1..Len(author')
      BY <2>1, <2>3, <2>5 DEF HomeInv
    <2>8. Ages /\ ServerInv' /\ AcknowledgedEditsSurvive' /\ Settled(n, content)
      BY <1>2, <2>1, <2>2, <2>3, <2>5, <2>6, <2>7, Writing
    <2>9. \A e \in Edits : home'[e] = home[e]
      BY <2>5, <2>8 DEF Settled
    <2>10. \A v \in Users : v # u => Quiet(v)
      BY <2>9 DEF Quiet
    <2>11. \A m \in Names : Drawn(server'[m], L \union A, O \union {})
      <3>1. \A m \in Names : Drawn(server[m], L, O)
        BY <2>4 DEF Split, DrawnInv
      <3>2. QED
        BY <2>5, <2>8, <3>1 DEF Drawn, Settled
    <2>12. Drawn(Shown(p), L \union A, O \union {})
      <3>1. Drawn(p.draft, L, O) /\ Drawn(p.json, L, O)
        BY <2>4 DEF Split, DrawnInv, DrawnBy
      <3>2. Shown(p) = p.draft \/ Shown(p) = p.json
        BY <2>1, Tabs
      <3>3. QED
        BY <3>1, <3>2 DEF Drawn
    <2>13. A \union {} \subseteq {Item} \union ((1..Len(author')) \ (1..Len(author))) /\ A \intersect {} \intersect Edits = {}
      OBVIOUS
    <2>14. rest = <<"Menu">> => Resolved'
      <3>1. rest = <<"Menu">> => server'["TableForm"] # Absent
        BY <2>2, <2>5, <2>8, PartsOf DEF Settled
      <3>2. QED
        BY <3>1 DEF Resolved, Exists
    <2>15. Item \in A => Resolved'
      BY <2>1, <2>2, <2>8 DEF UserInv, Ages
    <2>16. /\ \A e \in Edits \intersect Parts(Shown(p)) : home'[e] # ""
           /\ p.base \subseteq Parts(Shown(p))
      BY <1>1, <2>1, <2>9 DEF UserInv, Private, Keeping, Homed
    <2>17. p.mode = "edit" /\ ~p.aged => \A e \in Edits : Own(u, e)' /\ home'[e] = p.name => e \in Parts(Shown(p))
      <3>1. \A e \in Edits : Own(u, e)' => Own(u, e)
        BY <2>1, <2>8, <2>9, OwnBefore DEF Own
      <3>2. QED
        BY <2>1, <2>9, <3>1 DEF UserInv, Keeping
    <2>18. p.mode = "build" => p.tab = "design"
      BY <2>1 DEF KindInv
    <2>19. p.draft \in {page[u].draft, Shown(p)} /\ p.json \in {page[u].json, Shown(p)} /\ UNCHANGED <<store, stale>>
           /\ p.mode = page[u].mode /\ p.name = page[u].name /\ p.base = page[u].base /\ p.aged = page[u].aged
      BY <2>3
    <2>20. server' \in Artifacts /\ home' \in [Edits -> Names \union {""}] /\ excused' \subseteq Edits
      BY <2>8 DEF Settled
    <2> HIDE DEF p, A
    <2>21. QED
      BY <1>2, <2>1, <2>2, <2>3, <2>4, <2>8, <2>10, <2>11, <2>12, <2>13, <2>14, <2>15, <2>16, <2>17, <2>18, <2>19,
         <2>20, Reloading
  <1>3. CASE flow' = [flow EXCEPT ![u] = Step("idle")] /\ UNCHANGED <<server, loads, home, excused>>
    <2>1. UNCHANGED <<server, store, loads, stale, page, history>> /\ flow[u].step # "reload"
      BY <1>1, <1>3 DEF history
    <2>2. QED
      BY <1>3, <2>1, Stopping
  <1>4. QED
    BY <1>1, <1>2, <1>3

LEMMA BuiltParts ==
    ASSUME NEW draft \in Content
    PROVE  LET new == Built(draft)
           IN /\ DOMAIN new = {"Table", "TableForm", "Menu"} /\ new["Table"] = draft /\ new["TableForm"] = Empty
              /\ \A n \in DOMAIN new : new[n] \in Content
              /\ new["Menu"].list = {Item} /\ new["Menu"].other = {} /\ Parts(new["Menu"]) = {Item}
  <1> DEFINE menu == [list |-> {Item}, other |-> {}]
  <1>1. menu \in Content /\ menu.list = {Item} /\ menu.other = {}
    BY DEF Content
  <1>2. Parts(menu) = {Item}
    BY <1>1, PartsOf
  <1> HIDE DEF menu
  <1>3. Built(draft) = [n \in {"Table", "TableForm", "Menu"} |->
                           IF n = "Table" THEN draft ELSE IF n = "Menu" THEN menu ELSE Empty]
    BY DEF Built, menu
  <1>4. QED
    BY <1>1, <1>2, <1>3, PartsOf

LEMMA ApplyBuildStep == ASSUME IInv, NEW u \in Users, ApplyBuild(u) PROVE IInv'
  <1> DEFINE p == page[u]
             new == Built(p.draft)
  <1>1. /\ flow[u].step = "snapshot" /\ p.mode = "build"
        /\ server' = [n \in Names |-> IF n \in DOMAIN new THEN new[n] ELSE server[n]]
        /\ excused' = excused \union {e \in Edits : home[e] \in DOMAIN new}
        /\ home' = [e \in Edits |-> IF home[e] = "" /\ e \in Parts(p.draft) THEN "Table" ELSE home[e]]
        /\ Outdate(u, Step("reload")) /\ Load(u)
        /\ store' = store /\ stale' = stale /\ page' = page /\ author' = author /\ removed' = removed
    BY DEF ApplyBuild, Acknowledge
  <1>2. /\ KindInv /\ HomeInv /\ ServerInv /\ AcknowledgedEditsSurvive /\ UserInv(u)
        /\ p \in Pages /\ p.draft \in Content /\ page' = [page EXCEPT ![u] = p] /\ p.tab = "design"
    <2>1. KindInv /\ HomeInv /\ ServerInv /\ AcknowledgedEditsSurvive /\ UserInv(u)
      BY DEF IInv
    <2>2. page \in [Users -> Pages] /\ p \in Pages /\ p.draft \in Content
      BY <2>1, KindsOf DEF KindInv
    <2>3. QED
      BY <1>1, <2>1, <2>2 DEF KindInv
  <1>3. Shown(p) = p.draft
    BY <1>2, Tabs
  <1>4. /\ DOMAIN new = {"Table", "TableForm", "Menu"} /\ new["Table"] = p.draft /\ new["TableForm"] = Empty
        /\ \A n \in DOMAIN new : new[n] \in Content
        /\ new["Menu"].list = {Item} /\ new["Menu"].other = {} /\ Parts(new["Menu"]) = {Item}
    BY <1>2, BuiltParts
  <1> HIDE DEF p, new
  <1>5. /\ server' \in Artifacts /\ server'["Table"] = p.draft /\ server'["TableForm"] = Empty
        /\ server'["Menu"] = new["Menu"]
        /\ \A n \in Names : n \notin {"Table", "TableForm", "Menu"} => server'[n] = server[n]
    <2>1. \A n \in Names : server[n] \in Content \union {Absent}
      BY <1>2, KindsOf
    <2>2. server' = [n \in Names |-> IF n \in {"Table", "TableForm", "Menu"} THEN new[n] ELSE server[n]]
      BY <1>1, <1>4
    <2>3. \A n \in Names : server'[n] = IF n \in {"Table", "TableForm", "Menu"} THEN new[n] ELSE server[n]
      BY <2>2
    <2>4. {"Table", "TableForm", "Menu"} \subseteq Names /\ \A n \in {"Table", "TableForm", "Menu"} : new[n] \in Content
      BY <1>4 DEF Names
    <2>5. \A n \in Names : server'[n] \in Content \union {Absent}
      BY <2>1, <2>3, <2>4
    <2>6. server' \in Artifacts
      BY <2>2, <2>3, <2>5 DEF Artifacts
    <2>7. QED
      BY <1>4, <2>3, <2>4, <2>6
  <1>6. /\ home' \in [Edits -> Names \union {""}]
        /\ \A e \in Edits : home'[e] = IF home[e] = "" /\ e \in Parts(p.draft) THEN "Table" ELSE home[e]
    BY <1>1, <1>2 DEF KindInv, Names
  <1>7. Resolved'
    BY <1>5, PartsOf DEF Resolved, Exists
  <1>8. \A e \in Edits \intersect Parts(p.draft) : home[e] # "" \/ (e \in 1..Len(author) /\ author[e] = u)
    <2>1. HomedBy(u, p.draft)
      BY <1>2 DEF UserInv, Private, p
    <2>2. QED
      BY <2>1 DEF HomedBy
  <1>9. Ages
    <2>1. Len(author) <= Len(author)
      BY <1>2, Lengths
    <2>2. \A e \in Edits : home'[e] # "" => e \in 1..Len(author)
      BY <1>2, <1>6, <1>8 DEF HomeInv
    <2>3. QED
      BY <1>1, <1>2, <1>6, <1>7, <2>1, <2>2 DEF Ages, KindInv
  <1>10. \A v \in Users : v # u => Quiet(v)
    BY <1>1, <1>6, <1>8 DEF Quiet
  <1>11. ServerInv'
    <2>1. ASSUME NEW n \in Names, NEW e \in Edits \intersect Parts(server'[n]) PROVE home'[e] # ""
      <3>1. CASE n = "Table"
        BY <1>5, <1>6, <2>1, <3>1
      <3>2. CASE n \in {"TableForm", "Menu"}
        BY <1>4, <1>5, <2>1, <3>2, PartsOf
      <3>3. CASE n \notin {"Table", "TableForm", "Menu"}
        BY <1>2, <1>5, <1>6, <2>1, <3>3 DEF ServerInv, Homed
      <3>4. QED
        BY <3>1, <3>2, <3>3
    <2>2. QED
      BY <2>1 DEF ServerInv, Homed
  <1>12. AcknowledgedEditsSurvive'
    <2>1. ASSUME NEW e \in Edits, home'[e] # "", e \notin excused' PROVE e \in Parts(server'[home'[e]])
      <3>1. CASE home[e] = ""
        BY <1>5, <1>6, <2>1, <3>1
      <3>2. CASE home[e] # ""
        <4>1. home'[e] = home[e] /\ home[e] \in Names /\ e \notin excused /\ home[e] \notin {"Table", "TableForm", "Menu"}
          BY <1>1, <1>2, <1>4, <1>6, <2>1, <3>2 DEF KindInv
        <4>2. QED
          BY <1>2, <1>5, <3>2, <4>1 DEF AcknowledgedEditsSurvive
      <3>3. QED
        BY <3>1, <3>2
    <2>2. QED
      BY <2>1 DEF AcknowledgedEditsSurvive
  <1>13. excused' \subseteq Edits
    BY <1>1, <1>2 DEF KindInv
  <1>14. PICK L \in SUBSET ({Item} \union Edits), O \in SUBSET ({Item} \union Edits) : Split(L, O)
    BY DEF IInv, PartsInv
  <1>15. \A n \in Names : Drawn(server'[n], L \union {Item}, O \union {})
    <2>1. Drawn(p.draft, L, O) /\ \A n \in Names : Drawn(server[n], L, O)
      BY <1>14 DEF Split, DrawnInv, DrawnBy, p
    <2>2. Drawn(Empty, L, O) /\ Drawn(new["Menu"], L \union {Item}, O \union {})
      BY <1>4 DEF Drawn, Empty
    <2>3. QED
      BY <1>5, <2>1, <2>2 DEF Drawn
  <1>16. Drawn(Shown(p), L \union {Item}, O \union {})
    BY <1>3, <1>14 DEF Split, DrawnInv, DrawnBy, Drawn, p
  <1>17. {Item} \union {} \subseteq {Item} \union ((1..Len(author')) \ (1..Len(author)))
         /\ {Item} \intersect {} \intersect Edits = {}
    OBVIOUS
  <1>18. Outdate(u, [step |-> "reload", todo |-> <<>>]) /\ <<>> \in Todos /\ <<>> # <<"Menu">>
    BY <1>1, Steps DEF Step, Todos
  <1>19. /\ p.draft \in {page[u].draft, Shown(p)} /\ p.json \in {page[u].json, Shown(p)} /\ UNCHANGED <<store, stale>>
         /\ p.mode = page[u].mode /\ p.name = page[u].name /\ p.base = page[u].base /\ p.aged = page[u].aged
         /\ p.mode # "edit" /\ (p.mode = "build" => p.tab = "design")
    BY <1>1, <1>2 DEF p
  <1>20. (\A e \in Edits \intersect Parts(Shown(p)) : home'[e] # "") /\ p.base \subseteq Parts(Shown(p))
    BY <1>2, <1>3, <1>6 DEF UserInv, Keeping, p
  <1>21. QED
    BY <1>1, <1>2, <1>5, <1>6, <1>7, <1>9, <1>10, <1>11, <1>12, <1>13, <1>14, <1>15, <1>16, <1>17, <1>18, <1>19,
       <1>20, Reloading
-----------------------------------------------------------------------------
(* What is to be saved is put into a page first.                           *)

LEMMA Drafting ==
    ASSUME IInv, NEW u \in Users, AtRest(u), Len(author) < MaxSaves, author' = Append(author, u),
           UNCHANGED <<server, store, loads, stale, home, excused, removed>>,
           flow' = [flow EXCEPT ![u] = Step("snapshot")], NEW q \in Pages, page' = [page EXCEPT ![u] = q],
           q.mode \in {"new", "edit"} => q.name \in Names, q.mode = "build" => q.tab = "design", q.mode # "list",
           \A e \in Edits \intersect (Parts(q.draft) \union Parts(q.json)) :
              home[e] # "" \/ (e \in 1..Len(author') /\ author'[e] = u),
           q.base \subseteq Parts(q.draft), q.base \subseteq Parts(Shown(q)),
           q.mode = "edit" /\ ~q.aged => \A e \in Edits : Own(u, e) /\ home[e] = q.name => e \in Parts(Shown(q)),
           NEW L \in SUBSET ({Item} \union Edits), NEW O \in SUBSET ({Item} \union Edits), Split(L, O),
           NEW A \in SUBSET {Len(author) + 1}, NEW B \in SUBSET {Len(author) + 1}, A \intersect B = {},
           Drawn(q.draft, L \union A, O \union B), Drawn(q.json, L \union A, O \union B)
    PROVE  IInv'
  <1> DEFINE LA == L \union A
             OB == O \union B
  <1>1. KindInv /\ HomeInv /\ UserInv(u) /\ ServerInv /\ AcknowledgedEditsSurvive
    BY DEF IInv
  <1>2. page'[u] = q /\ (\A v \in Users : v # u => page'[v] = page[v]) /\ page' \in [Users -> Pages]
    BY <1>1 DEF KindInv
  <1>3. /\ flow' \in [Users -> Flows] /\ flow'[u] = Step("snapshot") /\ (\A v \in Users : v # u => flow'[v] = flow[v])
        /\ flow[u].step = "idle"
    BY <1>1, Steps DEF KindInv, AtRest
  <1>4. /\ server' = server /\ store' = store /\ loads' = loads /\ stale' = stale
        /\ home' = home /\ excused' = excused /\ removed' = removed
    OBVIOUS
  <1>5. /\ author' \in Seq(Users \union {"somebody"}) /\ Len(author) <= Len(author') /\ Len(author') <= MaxSaves
        /\ 1..Len(author') = (1..Len(author)) \union {Len(author) + 1} /\ Len(author) + 1 \notin 1..Len(author)
        /\ Len(author) + 1 \in Edits /\ \A e \in 1..Len(author) : author'[e] = author[e]
    BY <1>1, Grows
  <1>6. Ages /\ \A v : Quiet(v)
    <2>1. Resolved => Resolved'
      BY <1>4 DEF Resolved, Exists
    <2>2. \A e \in Edits : home[e] # "" => e \in 1..Len(author')
      BY <1>1, <1>5 DEF HomeInv
    <2>3. QED
      BY <1>4, <1>5, <2>1, <2>2 DEF Ages, Quiet
  <1>7. KindInv'
    <2>1. \A v \in Users : /\ page'[v].mode \in {"new", "edit"} => page'[v].name \in Names
                           /\ page'[v].mode = "build" => page'[v].tab = "design"
      BY <1>1, <1>2 DEF KindInv
    <2>2. QED
      BY <1>1, <1>2, <1>3, <1>4, <1>5, <2>1 DEF KindInv
  <1>8. \A v \in Users : v # u => Untouched(v)
    BY <1>2, <1>3, <1>4 DEF Untouched
  <1>9. PartsInv'
    <2>1. \A c : Drawn(c, L, O) => Drawn(c, LA, OB)
      BY DEF Drawn
    <2>2. \A n \in Names : Drawn(server'[n], LA, OB)
      BY <1>4, <2>1 DEF Split, DrawnInv
    <2>3. DrawnBy(u, LA, OB)'
      BY <1>2, <1>4, <2>1 DEF Split, DrawnInv, DrawnBy
    <2>4. \A v \in Users : Untouched(v) \/ DrawnBy(v, LA, OB)'
      BY <1>8, <2>3
    <2>5. A \union B \subseteq {Item} \union ((1..Len(author')) \ (1..Len(author)))
      BY <1>5
    <2>6. A \intersect B \intersect Edits = {} /\ Item \notin A
      BY <1>5, PartsOf
    <2>7. QED
      BY <1>1, <1>6, <2>2, <2>4, <2>5, <2>6, PartsStep
  <1>10. ServerInv' /\ AcknowledgedEditsSurvive'
    BY <1>1, <1>4 DEF ServerInv, Homed, AcknowledgedEditsSurvive
  <1>11. Private(u)'
    <2>1. /\ \A n \in Names : Homed(store[u][n])
          /\ \A i \in DOMAIN loads[u] : \A n \in Names : Homed(loads[u][i].snap[n])
      BY <1>1 DEF UserInv, Private
    <2>2. /\ \A n \in Names : Homed(store[u][n])'
          /\ \A i \in DOMAIN loads'[u] : \A n \in Names : Homed(loads[u][i].snap[n])'
      BY <1>4, <2>1 DEF Homed
    <2>3. HomedBy(u, page[u].draft)' /\ HomedBy(u, page[u].json)'
      BY <1>2, <1>4 DEF HomedBy
    <2>4. flow'[u].step = "snapshot"
      BY <1>3, Steps
    <2>5. QED
      BY <2>2, <2>3, <2>4 DEF Private
  <1>12. Aware(u)'
    <2>1. /\ ~stale[u] => Knows(u, store[u])
          /\ \A i \in DOMAIN loads[u] : ~loads[u][i].late => Knows(u, loads[u][i].snap)
      BY <1>1, <1>3 DEF UserInv, Aware
    <2>2. flow'[u].step = "snapshot"
      BY <1>3, Steps
    <2>3. QED
      BY <1>1, <1>4, <1>6, <2>1, <2>2, KnowsStill DEF Aware, Knows
  <1>13. Keeping(u)'
    <2>1. \A e \in Edits : Own(u, e)' => Own(u, e)
      BY <1>1, <1>6, OwnBefore
    <2>2. QED
      BY <1>2, <1>4, <2>1 DEF Keeping
  <1>14. UserInv(u)'
    BY <1>2, <1>3, <1>11, <1>12, <1>13, Steps DEF UserInv
  <1>15. QED
    BY <1>6, <1>7, <1>8, <1>9, <1>10, <1>14, Acting

LEMMA TakeSnapshotStep == ASSUME IInv, NEW u \in Users, TakeSnapshot(u) PROVE IInv'
  <1> DEFINE p == page[u]
             e == Len(author) + 1
  <1>1. /\ AtRest(u) /\ p.mode \in {"new", "edit"} /\ Len(author) < MaxSaves /\ author' = Append(author, u)
        /\ flow' = [flow EXCEPT ![u] = Step("snapshot")]
        /\ UNCHANGED <<server, store, loads, stale, home, excused, removed>>
    BY DEF TakeSnapshot, MaySave
  <1>2. PICK content \in Revised(p) : Show(u, content)
    BY DEF TakeSnapshot
  <1>3. KindInv /\ HomeInv /\ UserInv(u) /\ p \in Pages /\ p.name \in Names
    BY <1>1, KindsOf DEF IInv, KindInv
  <1>4. /\ Len(author) + 1 \in Edits /\ author'[e] = u /\ 1..Len(author') = (1..Len(author)) \union {e}
        /\ \A f \in 1..Len(author) : author'[f] = author[f]
    BY <1>1, <1>3, Grows
  <1>5. /\ content \in Content /\ Parts(Shown(p)) \subseteq Parts(content)
        /\ Parts(content) \subseteq Parts(Shown(p)) \union {e}
        /\ \E A, B \in SUBSET {e} :
              A \intersect B = {} /\ content.list \subseteq Shown(p).list \union A
                                  /\ content.other \subseteq Shown(p).other \union B
    BY <1>3, <1>4, RevisedParts
  <1>6. PICK A \in SUBSET {e}, B \in SUBSET {e} :
              A \intersect B = {} /\ content.list \subseteq Shown(p).list \union A
                                  /\ content.other \subseteq Shown(p).other \union B
    BY <1>5
  <1>7. PICK L \in SUBSET ({Item} \union Edits), O \in SUBSET ({Item} \union Edits) : Split(L, O)
    BY DEF IInv, PartsInv
  <1> DEFINE q == Showing(p, content)
  <1>8. /\ q \in Pages /\ q.mode = p.mode /\ q.name = p.name /\ q.base = p.base /\ q.aged = p.aged /\ Shown(q) = content
        /\ q.draft \in {p.draft, content} /\ q.json \in {p.json, content}
    <2>1. p \in Pages /\ content \in Content
      BY <1>3, <1>5
    <2> HIDE DEF p, e
    <2>2. QED
      BY <2>1, ShowingTab
  <1>9. page' = [page EXCEPT ![u] = q]
    BY <1>2 DEF Show
  <1>10. Shown(p) = p.draft \/ Shown(p) = p.json
    BY <1>3, Tabs
  <1>11. HomedBy(u, p.draft) /\ HomedBy(u, p.json) /\ Keeping(u)
    BY <1>3 DEF UserInv, Private
  <1> HIDE DEF q, e
  <1>12. \A f \in Edits \intersect (Parts(q.draft) \union Parts(q.json)) :
            home[f] # "" \/ (f \in 1..Len(author') /\ author'[f] = u)
    <2>1. \A f \in Edits \intersect (Parts(p.draft) \union Parts(p.json)) :
             home[f] # "" \/ (f \in 1..Len(author') /\ author'[f] = u)
      BY <1>4, <1>11 DEF HomedBy
    <2>2. Parts(content) \subseteq Parts(p.draft) \union Parts(p.json) \union {e}
      BY <1>5, <1>10
    <2>3. \A f \in Edits \intersect Parts(content) : home[f] # "" \/ (f \in 1..Len(author') /\ author'[f] = u)
      BY <1>4, <2>1, <2>2
    <2>4. QED
      BY <1>8, <2>1, <2>3
  <1>13. q.base \subseteq Parts(q.draft) /\ q.base \subseteq Parts(Shown(q))
    BY <1>5, <1>8, <1>11 DEF Keeping
  <1>14. q.mode = "edit" /\ ~q.aged => \A f \in Edits : Own(u, f) /\ home[f] = q.name => f \in Parts(Shown(q))
    BY <1>5, <1>8, <1>11 DEF Keeping
  <1>15. Drawn(q.draft, L \union A, O \union B) /\ Drawn(q.json, L \union A, O \union B)
    <2>1. Drawn(p.draft, L, O) /\ Drawn(p.json, L, O)
      BY <1>7 DEF Split, DrawnInv, DrawnBy
    <2>2. Drawn(Shown(p), L, O)
      BY <1>10, <2>1
    <2>3. Drawn(content, L \union A, O \union B) /\ Drawn(p.draft, L \union A, O \union B)
          /\ Drawn(p.json, L \union A, O \union B)
      BY <1>6, <2>1, <2>2 DEF Drawn
    <2>4. QED
      BY <1>8, <2>3
  <1>16. q.mode # "list" /\ q.mode # "build" /\ q.name \in Names
    BY <1>1, <1>3, <1>8
  <1>17. A \in SUBSET {Len(author) + 1} /\ B \in SUBSET {Len(author) + 1} /\ A \intersect B = {}
    BY <1>6 DEF e
  <1> HIDE DEF p
  <1>18. QED
    BY <1>1, <1>7, <1>8, <1>9, <1>12, <1>13, <1>14, <1>15, <1>16, <1>17, Drafting

LEMMA ReviewStep == ASSUME IInv, NEW u \in Users, Review(u) PROVE IInv'
  <1>1. /\ AtRest(u) /\ Len(author) < MaxSaves /\ author' = Append(author, u)
        /\ page' = [page EXCEPT ![u] = Page("build", "", FALSE, [list |-> {Len(author')}, other |-> {}], FALSE)]
        /\ flow' = [flow EXCEPT ![u] = Step("snapshot")]
        /\ UNCHANGED <<server, store, loads, stale, home, excused, removed>>
    BY DEF Review
  <1>2. KindInv
    BY DEF IInv
  <1>3. /\ Len(author') = Len(author) + 1 /\ Len(author) + 1 \in Edits /\ author'[Len(author) + 1] = u
        /\ Len(author) + 1 \in 1..Len(author')
    BY <1>1, <1>2, Grows
  <1>4. PICK e \in Edits : e = Len(author) + 1
    BY <1>3
  <1> DEFINE copy == [list |-> {e}, other |-> {}]
             q == Page("build", "", FALSE, copy, FALSE)
  <1>5. page' = [page EXCEPT ![u] = q]
    BY <1>1, <1>3, <1>4
  <1>6. copy \in Content /\ Parts(copy) = {e} /\ copy.list = {e} /\ copy.other = {}
    <2>1. copy \in Content /\ copy.list = {e} /\ copy.other = {}
      BY DEF Content
    <2> HIDE DEF copy
    <2>2. QED
      BY <2>1, PartsOf
  <1> HIDE DEF copy
  <1>7. /\ q \in Pages /\ q.mode = "build" /\ q.tab = "design" /\ q.draft = copy /\ q.json = Empty
        /\ q.base = Parts(copy) /\ Shown(q) = copy
    BY <1>6, PartsOf DEF Page, Pages, Shown
  <1> HIDE DEF q
  <1>8. PICK L \in SUBSET ({Item} \union Edits), O \in SUBSET ({Item} \union Edits) : Split(L, O)
    BY DEF IInv, PartsInv
  <1>9. \A f \in Edits \intersect (Parts(q.draft) \union Parts(q.json)) :
           home[f] # "" \/ (f \in 1..Len(author') /\ author'[f] = u)
    BY <1>3, <1>4, <1>6, <1>7, PartsOf
  <1>10. Drawn(q.draft, L \union {e}, O \union {}) /\ Drawn(q.json, L \union {e}, O \union {})
    BY <1>6, <1>7 DEF Drawn, Empty
  <1>11. {e} \in SUBSET {Len(author) + 1} /\ {} \in SUBSET {Len(author) + 1} /\ {e} \intersect {} = {}
    BY <1>4
  <1>12. q.base \subseteq Parts(q.draft) /\ q.base \subseteq Parts(Shown(q))
    BY <1>7
  <1>13. /\ q.mode \in {"new", "edit"} => q.name \in Names
         /\ q.mode = "build" => q.tab = "design"
         /\ q.mode # "list"
         /\ q.mode = "edit" /\ ~q.aged => \A f \in Edits : Own(u, f) /\ home[f] = q.name => f \in Parts(Shown(q))
    BY <1>7
  <1>14. PICK A, B : A = {e} /\ B = {}
    OBVIOUS
  <1>15. /\ A \in SUBSET {Len(author) + 1} /\ B \in SUBSET {Len(author) + 1} /\ A \intersect B = {}
         /\ Drawn(q.draft, L \union A, O \union B) /\ Drawn(q.json, L \union A, O \union B)
    BY <1>10, <1>11, <1>14
  <1>16. q \in Pages
    BY <1>7
  <1>17. /\ AtRest(u) /\ Len(author) < MaxSaves /\ author' = Append(author, u)
         /\ flow' = [flow EXCEPT ![u] = Step("snapshot")]
         /\ UNCHANGED <<server, store, loads, stale, home, excused, removed>>
    BY <1>1
  <1>18. QED
    BY <1>5, <1>8, <1>9, <1>12, <1>13, <1>15, <1>16, <1>17, Drafting

-----------------------------------------------------------------------------
(* Artifacts are deleted, and others save.                                 *)

LEMMA RemoveStep == ASSUME IInv, NEW u \in Users, NEW n \in Names, Remove(u, n) PROVE IInv'
  <1>1. /\ AtRest(u) /\ page[u].mode = "list" /\ Len(author) < MaxSaves /\ author' = Append(author, u)
        /\ server' = [server EXCEPT ![n] = Absent]
        /\ excused' = excused \union {e \in Edits : home[e] = n} /\ removed' = removed \union {n}
        /\ Outdate(u, Step("idle")) /\ Load(u)
        /\ store' = store /\ stale' = stale /\ page' = page /\ home' = home
    BY DEF Remove
  <1>2. KindInv /\ HomeInv /\ UserInv(u) /\ ServerInv /\ AcknowledgedEditsSurvive
    BY DEF IInv
  <1>3. /\ author' \in Seq(Users \union {"somebody"}) /\ Len(author) <= Len(author') /\ Len(author') <= MaxSaves
        /\ 1..Len(author') = (1..Len(author)) \union {Len(author) + 1}
        /\ \A e \in 1..Len(author) : author'[e] = author[e]
    BY <1>1, <1>2, Grows
  <1>4. server' \in Artifacts /\ server'[n] = Absent /\ \A m \in Names : m # n => server'[m] = server[m]
    BY <1>1, <1>2 DEF KindInv, Artifacts
  <1>5. /\ loads' \in [Users -> Seq(Answer)] /\ \A v \in Users : v # u => loads'[v] = loads[v]
        /\ \A i \in DOMAIN loads'[u] : \/ i \in DOMAIN loads[u] /\ loads'[u][i] = loads[u][i]
                                       \/ loads'[u][i].snap = server'
    BY <1>1, <1>2, <1>4, Loading
  <1>6. /\ flow' \in [Users -> Flows] /\ flow'[u] = Step("idle") /\ flow[u].step = "idle"
        /\ \A v \in Users : v # u => \/ flow'[v] = flow[v]
                                     \/ flow[v].step = "snapshot" /\ flow'[v] = Step("outdated")
    BY <1>1, <1>2, Steps, Outdating DEF AtRest
  <1>7. KindInv'
    BY <1>1, <1>2, <1>3, <1>4, <1>5, <1>6 DEF KindInv
  <1>8. Ages /\ \A v : Quiet(v)
    <2>1. Resolved => Resolved'
      BY <1>1, <1>4 DEF Resolved, Exists, Names
    <2>2. \A e \in Edits : home[e] # "" => e \in 1..Len(author')
      BY <1>2, <1>3 DEF HomeInv
    <2>3. QED
      BY <1>1, <1>3, <2>1, <2>2 DEF Ages, Quiet
  <1>9. \A v \in Users : v # u => Untouched(v)
    BY <1>1, <1>5, <1>6 DEF Untouched
  <1>10. PartsInv'
    <2>1. PICK L \in SUBSET ({Item} \union Edits), O \in SUBSET ({Item} \union Edits) : Split(L, O)
      BY DEF IInv, PartsInv
    <2>2. PICK A, B : A = {} /\ B = {Item}
      OBVIOUS
    <2>3. /\ A \union B \subseteq {Item} \union ((1..Len(author')) \ (1..Len(author)))
          /\ A \intersect B \intersect Edits = {} /\ (Item \in A => Resolved')
      BY <2>2
    <2>4. \A c : Drawn(c, L, O) => Drawn(c, L \union A, O \union B)
      BY DEF Drawn
    <2>5. Drawn(Absent, L \union A, O \union B)
      BY <2>2, PartsOf DEF Drawn
    <2>6. \A m \in Names : Drawn(server'[m], L \union A, O \union B)
      BY <1>4, <2>1, <2>4, <2>5 DEF Split, DrawnInv
    <2>7. \A i \in DOMAIN loads'[u] : \A m \in Names : Drawn(loads'[u][i].snap[m], L \union A, O \union B)
      BY <1>5, <2>1, <2>4, <2>6 DEF Split, DrawnInv, DrawnBy
    <2>8. DrawnBy(u, L \union A, O \union B)'
      BY <1>1, <2>1, <2>4, <2>7 DEF Split, DrawnInv, DrawnBy
    <2>9. \A v \in Users : Untouched(v) \/ DrawnBy(v, L \union A, O \union B)'
      BY <1>9, <2>8
    <2>10. QED
      BY <1>2, <1>8, <2>1, <2>3, <2>6, <2>9, PartsStep
  <1>11. ServerInv'
    BY <1>1, <1>2, <1>4, PartsOf DEF ServerInv, Homed
  <1>12. AcknowledgedEditsSurvive'
    <2>1. ASSUME NEW e \in Edits, home[e] # "", e \notin excused' PROVE e \in Parts(server'[home[e]])
      <3>1. home[e] \in Names /\ home[e] # n /\ e \notin excused
        BY <1>1, <1>2, <2>1 DEF KindInv
      <3>2. QED
        BY <1>2, <1>4, <2>1, <3>1 DEF AcknowledgedEditsSurvive
    <2>2. QED
      BY <1>1, <2>1 DEF AcknowledgedEditsSurvive
  <1>13. Private(u)'
    <2>1. /\ \A m \in Names : Homed(store[u][m])
          /\ \A i \in DOMAIN loads[u] : \A m \in Names : Homed(loads[u][i].snap[m])
          /\ HomedBy(u, page[u].draft) /\ HomedBy(u, page[u].json)
      BY <1>2 DEF UserInv, Private
    <2>2. \A i \in DOMAIN loads'[u] : \A m \in Names : \A e \in Edits \intersect Parts(loads'[u][i].snap[m]) : home[e] # ""
      <3>1. \A m \in Names : \A e \in Edits \intersect Parts(server'[m]) : home[e] # ""
        BY <1>1, <1>11 DEF Homed, ServerInv
      <3>2. \A i \in DOMAIN loads[u] : \A m \in Names : \A e \in Edits \intersect Parts(loads[u][i].snap[m]) : home[e] # ""
        BY <2>1 DEF Homed
      <3>3. QED
        BY <1>5, <3>1, <3>2
    <2>3. /\ \A m \in Names : Homed(store[u][m])'
          /\ \A i \in DOMAIN loads'[u] : \A m \in Names : Homed(loads[u][i].snap[m])'
      BY <1>1, <2>1, <2>2 DEF Homed
    <2>4. HomedBy(u, page[u].draft)' /\ HomedBy(u, page[u].json)'
      <3>1. 1..Len(author) \subseteq 1..Len(author') /\ \A e \in 1..Len(author) : author'[e] = author[e]
        BY <1>3
      <3>2. QED
        BY <1>1, <2>1, <3>1 DEF HomedBy
    <2>5. flow'[u].step = "idle"
      BY <1>6, Steps
    <2>6. QED
      BY <2>3, <2>4, <2>5 DEF Private
  <1>14. Aware(u)'
    <2>1. /\ ~stale[u] => Knows(u, store[u])
          /\ \A i \in DOMAIN loads[u] : ~loads[u][i].late => Knows(u, loads[u][i].snap)
      BY <1>2, <1>6 DEF UserInv, Aware
    <2>2. \A rows : Knows(u, rows) => \A e \in Edits : Own(u, e)' => e \in Parts(rows[home'[e]])
      BY <1>2, <1>8, KnowsStill
    <2>3. \A e \in Edits : Own(u, e)' => e \in Parts(server'[home'[e]])
      BY <1>12 DEF AcknowledgedEditsSurvive, Own
    <2>4. ~stale'[u] => \A e \in Edits : Own(u, e)' => e \in Parts(store'[u][home'[e]])
      BY <1>1, <2>1, <2>2
    <2>5. \A i \in DOMAIN loads'[u] : ~loads'[u][i].late =>
             \A e \in Edits : Own(u, e)' => e \in Parts(loads'[u][i].snap[home'[e]])
      BY <1>5, <2>1, <2>2, <2>3
    <2>6. flow'[u].step = "idle"
      BY <1>6, Steps
    <2>7. QED
      BY <2>4, <2>5, <2>6 DEF Aware, Knows
  <1>15. Keeping(u)'
    BY <1>1, <1>2 DEF UserInv, Keeping
  <1>16. UserInv(u)'
    BY <1>6, <1>13, <1>14, <1>15, Steps DEF UserInv
  <1>17. QED
    BY <1>7, <1>8, <1>9, <1>10, <1>11, <1>12, <1>16, Acting

LEMMA OthersSaveStep == ASSUME IInv, NEW n \in Names, OthersSave(n) PROVE IInv'
  <1> DEFINE c == IF Exists(n) THEN server[n] ELSE Empty
  <1>1. /\ Len(author) < MaxSaves /\ author' = Append(author, "somebody")
        /\ \E d \in WithEdit(c, Len(author')) : server' = [server EXCEPT ![n] = d]
        /\ home' = [home EXCEPT ![Len(author')] = n]
        /\ flow' = [v \in Users |-> IF flow[v].step = "snapshot" THEN Step("outdated") ELSE flow[v]]
        /\ store' = store /\ loads' = loads /\ stale' = stale /\ page' = page /\ excused' = excused /\ removed' = removed
    BY DEF OthersSave
  <1>2. KindInv /\ HomeInv /\ ServerInv /\ AcknowledgedEditsSurvive
    BY DEF IInv
  <1>3. "somebody" \in Users \union {"somebody"}
    OBVIOUS
  <1>4. /\ Len(author) + 1 \in Edits /\ Len(author) + 1 \notin 1..Len(author)
        /\ author' \in Seq(Users \union {"somebody"}) /\ Len(author') = Len(author) + 1
        /\ Len(author) <= Len(author') /\ Len(author') <= MaxSaves
        /\ 1..Len(author') = (1..Len(author)) \union {Len(author) + 1}
        /\ author'[Len(author) + 1] = "somebody" /\ \A f \in 1..Len(author) : author'[f] = author[f]
    BY <1>1, <1>2, <1>3, Grows
  <1>5. PICK e \in Edits : e = Len(author) + 1
    BY <1>4
  <1>6. e \notin 1..Len(author) /\ 1..Len(author') = (1..Len(author)) \union {e} /\ author'[e] = "somebody" /\ home[e] = ""
    BY <1>2, <1>4, <1>5 DEF HomeInv
  <1>7. c \in Content /\ (server[n] = Absent \/ server[n] = c) /\ (server[n] = Absent => c = Empty)
    BY <1>2, KindsOf, PartsOf DEF Exists
  <1> HIDE DEF c
  <1>8. PICK d \in WithEdit(c, e) : server' = [server EXCEPT ![n] = d]
    BY <1>1, <1>4, <1>5
  <1>9. /\ d \in Content /\ Parts(d) = Parts(c) \union {e}
        /\ \E A, B \in SUBSET {e} : A \intersect B = {} /\ d.list \subseteq c.list \union A /\ d.other \subseteq c.other \union B
    <2>1. \/ d = [list |-> c.list \union {e}, other |-> c.other]
          \/ d = [list |-> c.list, other |-> c.other \union {e}]
      BY DEF WithEdit
    <2>2. /\ d \in Content
          /\ \/ d.list = c.list \union {e} /\ d.other = c.other
             \/ d.list = c.list /\ d.other = c.other \union {e}
      BY <1>7, <2>1 DEF Content
    <2>3. Parts(d) = Parts(c) \union {e}
      BY <1>7, <2>2, PartsOf
    <2>4. CASE d.list = c.list \union {e} /\ d.other = c.other
      <3>1. {e} \in SUBSET {e} /\ {} \in SUBSET {e} /\ {e} \intersect {} = {}
        OBVIOUS
      <3>2. QED
        BY <2>2, <2>3, <2>4, <3>1
    <2>5. CASE d.list = c.list /\ d.other = c.other \union {e}
      <3>1. {e} \in SUBSET {e} /\ {} \in SUBSET {e} /\ {} \intersect {e} = {}
        OBVIOUS
      <3>2. QED
        BY <2>2, <2>3, <2>5, <3>1
    <2>6. QED
      BY <2>2, <2>4, <2>5
  <1>10. PICK A \in SUBSET {e}, B \in SUBSET {e} :
            A \intersect B = {} /\ d.list \subseteq c.list \union A /\ d.other \subseteq c.other \union B
    BY <1>9
  <1>11. server' \in Artifacts /\ server'[n] = d /\ \A m \in Names : m # n => server'[m] = server[m]
    BY <1>2, <1>8, <1>9 DEF KindInv, Artifacts
  <1>12. home' \in [Edits -> Names \union {""}] /\ home'[e] = n /\ \A f \in Edits : f # e => home'[f] = home[f]
    BY <1>1, <1>2, <1>4, <1>5 DEF KindInv
  <1>13. /\ flow' \in [Users -> Flows]
         /\ \A v \in Users : flow'[v] = flow[v] \/ (flow[v].step = "snapshot" /\ flow'[v] = Step("outdated"))
    BY <1>1, <1>2, Steps DEF KindInv
  <1>14. KindInv'
    BY <1>1, <1>2, <1>4, <1>11, <1>12, <1>13 DEF KindInv
  <1>15. \A v \in Users : Untouched(v)
    BY <1>1, <1>13 DEF Untouched
  <1>16. Ages
    <2>1. Resolved => Resolved'
      BY <1>1, <1>9, <1>11, PartsOf DEF Resolved, Exists, Names
    <2>2. \A f \in Edits : home'[f] # "" => f \in 1..Len(author')
      BY <1>2, <1>6, <1>12 DEF HomeInv
    <2>3. \A f \in Edits : home[f] # "" => home'[f] = home[f]
      BY <1>6, <1>12
    <2>4. QED
      BY <1>1, <1>4, <2>1, <2>2, <2>3 DEF Ages
  <1>17. \A v \in Users : Quiet(v)
    BY <1>6, <1>12, UsersAssumption DEF Quiet
  <1>18. ServerInv'
    <2>1. ASSUME NEW m \in Names, NEW f \in Edits \intersect Parts(server'[m]) PROVE home'[f] # ""
      <3>1. CASE f = e
        BY <1>12, <3>1 DEF Names
      <3>2. CASE f # e /\ m = n
        <4>1. f \in Parts(c)
          BY <1>9, <1>11, <2>1, <3>2
        <4>2. f \in Parts(server[n])
          BY <1>7, <4>1, PartsOf
        <4>3. QED
          BY <1>2, <1>12, <2>1, <3>2, <4>2 DEF ServerInv, Homed
      <3>3. CASE f # e /\ m # n
        BY <1>2, <1>11, <1>12, <2>1, <3>3 DEF ServerInv, Homed
      <3>4. QED
        BY <3>1, <3>2, <3>3
    <2>2. QED
      BY <2>1 DEF ServerInv, Homed
  <1>19. AcknowledgedEditsSurvive'
    <2>1. Parts(server[n]) \subseteq Parts(d)
      BY <1>7, <1>9, PartsOf
    <2>2. ASSUME NEW f \in Edits, home'[f] # "", f \notin excused' PROVE f \in Parts(server'[home'[f]])
      <3>1. CASE f = e
        BY <1>9, <1>11, <1>12, <3>1
      <3>2. CASE f # e
        <4>1. home'[f] = home[f] /\ home[f] \in Names /\ f \in Parts(server[home[f]])
          BY <1>1, <1>2, <1>12, <2>2, <3>2 DEF AcknowledgedEditsSurvive, KindInv
        <4>2. QED
          BY <1>11, <2>1, <4>1
      <3>3. QED
        BY <3>1, <3>2
    <2>3. QED
      BY <2>2 DEF AcknowledgedEditsSurvive
  <1>20. PartsInv'
    <2>1. PICK L \in SUBSET ({Item} \union Edits), O \in SUBSET ({Item} \union Edits) : Split(L, O)
      BY DEF IInv, PartsInv
    <2>2. /\ A \union B \subseteq {Item} \union ((1..Len(author')) \ (1..Len(author)))
          /\ A \intersect B \intersect Edits = {} /\ Item \notin A
      BY <1>6, <1>10, PartsOf
    <2>3. Drawn(c, L, O)
      BY <1>7, <2>1 DEF Split, DrawnInv, Drawn, Empty
    <2>4. \A m \in Names : Drawn(server'[m], L \union A, O \union B)
      BY <1>10, <1>11, <2>1, <2>3 DEF Split, DrawnInv, Drawn
    <2>5. \A v \in Users : Untouched(v) \/ DrawnBy(v, L \union A, O \union B)'
      BY <1>15
    <2>6. QED
      BY <1>2, <1>16, <2>1, <2>2, <2>4, <2>5, PartsStep
  <1>21. QED
    BY <1>14, <1>15, <1>16, <1>17, <1>18, <1>19, <1>20, Acting

-----------------------------------------------------------------------------
LEMMA InvStep == IInv /\ [Next]_vars => IInv'
  <1> SUFFICES ASSUME IInv, [Next]_vars PROVE IInv'
    OBVIOUS
  <1>1. CASE \E n \in Names : OthersSave(n)
    BY <1>1, OthersSaveStep
  <1>2. CASE \E u \in Users : Arrive(u) \/ VisitList(u) \/ ChooseTarget(u) \/ SwitchTab(u)
    BY <1>2, ArriveStep, VisitListStep, ChooseTargetStep, SwitchTabStep
  <1>3. CASE \E u \in Users : Save(u) \/ TakeSnapshot(u) \/ ApplyChangeSet(u) \/ Review(u)
    BY <1>3, SaveStep, TakeSnapshotStep, ApplyChangeSetStep, ReviewStep
  <1>4. CASE \E u \in Users : ApplyBuild(u) \/ SaveNext(u) \/ Announce(u)
    BY <1>4, ApplyBuildStep, SaveNextStep, AnnounceStep
  <1>5. CASE \E u \in Users, n \in Names : OpenExisting(u, n) \/ OpenNew(u, n) \/ Remove(u, n)
    BY <1>5, OpenExistingStep, OpenNewStep, RemoveStep
  <1>6. CASE UNCHANGED vars
    <2>1. /\ server' = server /\ store' = store /\ loads' = loads /\ stale' = stale /\ page' = page /\ flow' = flow
          /\ author' = author /\ home' = home /\ excused' = excused /\ removed' = removed
      BY <1>6 DEF vars, history
    <2>2. UNCHANGED <<server, history>> /\ \A v \in Users : Untouched(v)
      BY <2>1 DEF history, Untouched
    <2>3. Ages /\ \A v : Quiet(v)
      BY <2>2, Unwritten DEF IInv
    <2>4. KindInv' /\ ServerInv' /\ AcknowledgedEditsSurvive'
      BY <2>1 DEF IInv, KindInv, ServerInv, Homed, AcknowledgedEditsSurvive
    <2>5. PartsInv'
      BY <2>1 DEF IInv, PartsInv, Split, DrawnInv, DrawnBy, Resolved, Exists
    <2>6. QED
      BY <2>2, <2>3, <2>4, <2>5, Acting
  <1>7. QED
    BY <1>1, <1>2, <1>3, <1>4, <1>5, <1>6 DEF Next

(* What is true of the designers' work in every state: the stored          *)
(* artifacts and what the browsers have of them are well formed; what was  *)
(* never saved is only in its author's page; each list is extended by      *)
(* additions only, apart from the rest; a browser whose answers were not   *)
(* overtaken knows its designer's acknowledged edits, and an open page has *)
(* kept what it took up (stores/designer.ts, DesignerEditPage.vue).        *)
THEOREM EditorInvariance == Spec => []IInv
  <1>1. Init => IInv
    BY InitialInv
  <1>2. IInv /\ [Next]_vars => IInv'
    BY InvStep
  <1>3. QED
    BY <1>1, <1>2, PTL DEF Spec

(* The artifacts stay well formed, and no menu lists an item whose form    *)
(* was never stored, wherever the saves that follow a new table stop.      *)
THEOREM EditorStoreStaysSound == Spec => []StoreIsSound
  <1>1. IInv => StoreIsSound
    BY InvImplies
  <1>2. QED
    BY <1>1, EditorInvariance, PTL

(* Nobody's acknowledged edit is lost but by a deletion or one of the      *)
(* replacements the editor knows of: saves of several browsers, of others  *)
(* beside them and follow-up saves built from the store in any order.      *)
THEOREM EditsSurvive == Spec => []AcknowledgedEditsSurvive
  <1>1. IInv => AcknowledgedEditsSurvive
    BY InvImplies
  <1>2. QED
    BY <1>1, EditorInvariance, PTL

(* No page drops what it has seen: what the browser knew of an artifact    *)
(* when its page was opened, or its target chosen, is in what it saves.    *)
THEOREM SeenIsKept == Spec => NothingSeenIsDropped
  <1>1. ASSUME IInv, [Next]_vars, NEW u \in Users,
               page[u].mode \in {"new", "edit"}, flow[u].step \in {"idle", "snapshot"}, flow'[u].step = "reload"
        PROVE  page[u].base \intersect Parts(server[page[u].name]) \subseteq Parts(server'[page[u].name])
    <2> DEFINE p == page[u]
    <2>1. KindInv /\ KindInv' /\ UserInv(u) /\ p \in Pages /\ p.name \in Names
      BY <1>1, InvStep, KindsOf DEF IInv, KindInv
    <2>2. p.base \subseteq Parts(Shown(p))
      BY <2>1 DEF UserInv, Keeping
    <2>3. ASSUME NEW content, Parts(Shown(p)) \subseteq Parts(content), server' = [server EXCEPT ![p.name] = content]
          PROVE  p.base \subseteq Parts(server'[p.name])
      <3>1. server'[p.name] = content
        BY <2>1, <2>3 DEF KindInv, Artifacts
      <3>2. QED
        BY <2>2, <2>3, <3>1
    <2>4. CASE Save(u)
      <3>1. PICK content \in Revised(p) : WritePage(u, content)
        BY <2>4 DEF Save
      <3>2. Len(author) + 1 \in Edits
        BY <2>1, <2>4, Grows DEF Save, MaySave
      <3>3. Parts(Shown(p)) \subseteq Parts(content)
        BY <2>1, <3>2, RevisedParts
      <3>4. server' = [server EXCEPT ![p.name] = content]
        BY <3>1 DEF WritePage, Write
      <3>5. QED
        BY <2>3, <3>3, <3>4
    <2>5. CASE ApplyChangeSet(u)
      <3>1. WritePage(u, Shown(p))
        BY <1>1, <2>5 DEF ApplyChangeSet
      <3>2. server' = [server EXCEPT ![p.name] = Shown(p)]
        BY <3>1 DEF WritePage, Write
      <3>3. QED
        BY <2>3, <3>2
    <2>6. CASE ~Save(u) /\ ~ApplyChangeSet(u)
      <3>1. flow[u] \in Flows /\ flow \in [Users -> Flows] /\ flow[u].step # "reload"
        BY <1>1, <2>1 DEF KindInv
      <3>2. \A step \in {"idle", "snapshot", "outdated"} : Step(step).step # "reload"
        BY Steps
      <3>3. flow'[u] # flow[u] /\ flow'[u] \notin {Step("idle"), Step("snapshot"), Step("outdated")}
        BY <1>1, <3>1, <3>2
      <3>4. CASE \E n \in Names : OthersSave(n)
        BY <3>1, <3>3, <3>4 DEF OthersSave
      <3>5. CASE \E v \in Users : v # u /\ (Arrive(v) \/ TakeSnapshot(v) \/ Review(v) \/ Announce(v))
        BY <3>1, <3>3, <3>5 DEF Arrive, TakeSnapshot, Review, Announce
      <3>6. CASE \E v \in Users : v # u /\ (Save(v) \/ ApplyChangeSet(v) \/ ApplyBuild(v) \/ SaveNext(v)
                                            \/ \E n \in Names : Remove(v, n))
        BY <3>1, <3>3, <3>6 DEF Save, ApplyChangeSet, ApplyBuild, SaveNext, Remove, Outdate
      <3>7. CASE Arrive(u) \/ TakeSnapshot(u) \/ Review(u) \/ Announce(u)
        BY <1>1, <3>1, <3>3, <3>7 DEF Arrive, TakeSnapshot, Review, Announce
      <3>8. CASE ApplyBuild(u) \/ SaveNext(u)
        BY <1>1, <3>8 DEF ApplyBuild, SaveNext
      <3>9. CASE \E n \in Names : Remove(u, n)
        BY <3>1, <3>3, <3>9 DEF Remove, Outdate
      <3>10. CASE \E v \in Users : \/ VisitList(v) \/ ChooseTarget(v) \/ SwitchTab(v)
                                   \/ \E n \in Names : OpenExisting(v, n) \/ OpenNew(v, n)
        BY <3>3, <3>10 DEF VisitList, ChooseTarget, SwitchTab, OpenExisting, OpenNew
      <3>11. CASE UNCHANGED vars
        BY <3>3, <3>11 DEF vars
      <3>12. QED
        BY <1>1, <2>6, <3>4, <3>5, <3>6, <3>7, <3>8, <3>9, <3>10, <3>11 DEF Next
    <2>7. QED
      BY <2>4, <2>5, <2>6
  <1>2. IInv /\ [Next]_vars =>
           [\A u \in Users :
               (page[u].mode \in {"new", "edit"} /\ flow[u].step \in {"idle", "snapshot"} /\ flow'[u].step = "reload")
               => page[u].base \intersect Parts(server[page[u].name]) \subseteq Parts(server'[page[u].name])]_vars
    BY <1>1
  <1>3. QED
    BY <1>2, EditorInvariance, PTL DEF Spec, NothingSeenIsDropped
=============================================================================
