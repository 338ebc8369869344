-------------------------------- MODULE Editor --------------------------------
(***************************************************************************)
(* The Designer in the browser: the store every page reads                 *)
(* (stores/designer.ts), the list of artifacts (DesignerPage.vue), the     *)
(* editor (DesignerEditPage.vue) and the simple builder.  Several          *)
(* designers work at once; a page edits a copy of what its browser loaded  *)
(* last and saves it with an unconditional PUT, then saves the artifacts   *)
(* that make the new one usable, one after the other, built from the       *)
(* store.  Beside the browsers of Users somebody else saves as well.       *)
(*                                                                         *)
(* An artifact's content is the set of edits it holds, in two parts: the   *)
(* list that the follow-up saves extend (fields, items, list fields) and   *)
(* everything else (labels, overrides, groups, actions).                   *)
(***************************************************************************)
EXTENDS Naturals, Sequences

CONSTANTS
    Users,     \* designers, each with a browser
    MaxSaves,  \* bound on page saves and deletions
    MaxLoads   \* bound on store loads of one browser in flight

ASSUME ConstantsAssumption == MaxSaves \in Nat /\ MaxLoads \in Nat \ {0}
ASSUME UsersAssumption == "somebody" \notin Users

(* A table of the app with its automatic form and the menu extension, or   *)
(* new menu, it is put in; an extension of another table with the          *)
(* extension of that table's form; a script.                               *)
Names      == {"Table", "TableForm", "Menu", "TableExt", "FormExt", "Script"}
Extensions == {"Menu", "TableExt", "FormExt"}
Creatable  == Extensions \union {"Table", "Script"}
Edits      == 1..MaxSaves
Item       == 0  \* the menu item that opens the new table's form
Content    == [list : SUBSET ({Item} \union Edits), other : SUBSET Edits]
Empty      == [list |-> {}, other |-> {}]
Absent     == [list |-> {}, other |-> {Item}]  \* not a Content

VARIABLES
    server,    \* the stored artifacts
    store,     \* what each browser loaded last: artifacts and catalog
    loads,     \* answers to load() on their way to each browser
    stale,     \* the browser's store is older than one it has had
    page,      \* the open page of each browser
    flow,      \* the save each browser is carrying out
    author,    \* who made each save; its number is that of the edit it brings
    home,      \* the artifact an acknowledged edit was saved in
    excused,   \* history: edits replaced in one of the ways the code allows
    removed    \* history: artifacts that were deleted

history == <<author, home, excused, removed>>
vars == <<server, store, loads, stale, page, flow, history>>

Exists(n)   == server[n] # Absent
Parts(c)    == IF c = Absent THEN {} ELSE c.list \union c.other
Page(mode, name, named, copy, aged) ==
    [mode |-> mode, name |-> name, named |-> named, tab |-> "design",
     draft |-> copy, json |-> Empty, base |-> Parts(copy), aged |-> aged]
Listing     == Page("list", "", FALSE, Empty, FALSE)
Step(step)  == [step |-> step, todo |-> <<>>]

Init ==
    /\ server = [n \in Names |-> Absent]
    /\ store = [u \in Users |-> server] /\ loads = [u \in Users |-> <<>>]
    /\ stale = [u \in Users |-> FALSE]
    /\ page = [u \in Users |-> Listing] /\ flow = [u \in Users |-> Step("idle")]
    /\ author = <<>> /\ home = [e \in Edits |-> ""]
    /\ excused = {} /\ removed = {}
-----------------------------------------------------------------------------
(* The store *)

(* load(): what the server answers now arrives some time later.            *)
Load(u) == loads' = [loads EXCEPT ![u] = Append(@, [snap |-> server', late |-> FALSE])]

(* Answers can overtake each other; a save waits for the answer to its own *)
(* load, the last one asked for.                                           *)
Overtaken(answers, i) ==
    [j \in 1..(Len(answers) - 1) |-> IF j < i THEN [answers[j] EXCEPT !.late = TRUE] ELSE answers[j + 1]]
Arrive(u) ==
    \E i \in DOMAIN loads[u] :
        /\ store' = [store EXCEPT ![u] = loads[u][i].snap]
        /\ stale' = [stale EXCEPT ![u] = loads[u][i].late]
        /\ loads' = [loads EXCEPT ![u] = Overtaken(loads[u], i)]
        /\ flow' = IF i = Len(loads[u]) /\ flow[u].step = "reload"
                   THEN [flow EXCEPT ![u] = [step |-> "follow", todo |-> flow[u].todo]] ELSE flow
        /\ UNCHANGED <<server, page, history>>
-----------------------------------------------------------------------------
(* Pages *)

AtRest(u) == flow[u].step = "idle"
Edited(n, copy, aged) == Page("edit", n, TRUE, copy, aged)

(* The list loads the store when it is mounted; an unsaved draft is gone.  *)
VisitList(u) ==
    /\ AtRest(u) /\ page[u].mode # "list" /\ Len(loads[u]) < MaxLoads
    /\ page' = [page EXCEPT ![u] = Listing]
    /\ UNCHANGED server /\ Load(u)
    /\ UNCHANGED <<store, stale, flow, history>>

OpenExisting(u, n) ==
    /\ AtRest(u) /\ page[u].mode = "list" /\ store[u][n] # Absent
    /\ page' = [page EXCEPT ![u] = Edited(n, store[u][n], stale[u])]
    /\ UNCHANGED <<server, store, loads, stale, flow, history>>

(* An extension has no name until its target is chosen.                    *)
OpenNew(u, n) ==
    /\ AtRest(u) /\ page[u].mode = "list" /\ n \in Creatable
    /\ page' = [page EXCEPT ![u] = Page("new", n, n \notin Extensions, Empty, FALSE)]
    /\ UNCHANGED <<server, store, loads, stale, flow, history>>

(* Mutant: the derived name is not looked up.                              *)
ChooseTargetUnseen(u) ==
    /\ AtRest(u) /\ page[u].mode = "new" /\ ~page[u].named /\ page[u].tab = "design"
    /\ page' = [page EXCEPT ![u].named = TRUE, ![u].base = Parts(store[u][page[u].name])]
    /\ UNCHANGED <<server, store, loads, stale, flow, history>>

(* The name is derived from app, model and target; when the store has that *)
(* extension, it is opened instead.                                        *)
ChooseTarget(u) ==
    /\ AtRest(u) /\ page[u].mode = "new" /\ ~page[u].named /\ page[u].tab = "design"
    /\ page' = [page EXCEPT ![u] = IF store[u][page[u].name] = Absent THEN [page[u] EXCEPT !.named = TRUE]
                                   ELSE Edited(page[u].name, store[u][page[u].name], stale[u])]
    /\ UNCHANGED <<server, store, loads, stale, flow, history>>

(* To JSON the draft is written out; back, text that does not parse is     *)
(* dropped.                                                                *)
ToJson(p) == [p EXCEPT !.tab = "json", !.json = p.draft]
ToDesign(p, parses) ==
    [p EXCEPT !.tab = "design", !.json = Empty, !.draft = IF parses THEN p.json ELSE p.draft,
              !.aged = p.aged \/ ~parses]
SwitchTab(u) ==
    /\ AtRest(u) /\ page[u].mode \in {"new", "edit"}
    /\ IF page[u].tab = "design" THEN page' = [page EXCEPT ![u] = ToJson(page[u])]
       ELSE \E parses \in BOOLEAN : page' = [page EXCEPT ![u] = ToDesign(page[u], parses)]
    /\ UNCHANGED <<server, store, loads, stale, flow, history>>
-----------------------------------------------------------------------------
(* Saving *)

(* What the open page saves: what it shows, with one more edit or as it    *)
(* is.  An edit touches nothing but the page before it is saved.           *)
Shown(p) == IF p.tab = "json" THEN p.json ELSE p.draft
WithEdit(c, e) == {[list |-> c.list \union {e}, other |-> c.other], [list |-> c.list, other |-> c.other \union {e}]}
Revised(p) == {Shown(p)} \union WithEdit(Shown(p), Len(author) + 1)
Showing(p, content) == IF p.tab = "json" THEN [p EXCEPT !.json = content] ELSE [p EXCEPT !.draft = content]
Show(u, content) == page' = [page EXCEPT ![u] = Showing(page[u], content)]

Acknowledge(n, content) ==
    home' = [e \in Edits |-> IF home[e] = "" /\ e \in Parts(content) THEN n ELSE home[e]]

(* A write of n by u.  Acknowledged edits it replaces are excused when the *)
(* writer could not have seen them, or when the code knowingly does not    *)
(* keep them.                                                              *)
Write(u, n, content, seen, kept, aged) ==
    LET lost == {e \in Edits : home[e] = n /\ e \in Parts(server[n]) \ Parts(content)} IN
    /\ server' = [server EXCEPT ![n] = content]
    /\ Acknowledge(n, content)
    /\ excused' = excused \union {e \in lost : e \notin kept \/ (e \notin seen /\ (author'[e] # u \/ aged))}

(* A snapshot taken for a script is outdated by every write.               *)
Outdate(u, next) ==
    flow' = [v \in Users |-> IF v = u THEN next
                             ELSE IF flow[v].step = "snapshot" THEN Step("outdated") ELSE flow[v]]

(* What a page saves after its own artifact: for a new table the form and  *)
(* its menu item, for a table extension the fields on the table's form.    *)
FollowUps(p, content) ==
    CASE p.name = "Table" /\ p.mode = "new" -> {<<>>, <<"TableForm">>, <<"TableForm", "Menu">>}
      [] p.name = "TableExt" /\ content.list # {} -> {<<"FormExt">>}
      [] OTHER -> {<<>>}

MaySave(u) ==
    /\ AtRest(u) /\ page[u].mode \in {"new", "edit"} /\ (page[u].named \/ page[u].tab = "json")
    /\ Len(author) < MaxSaves /\ author' = Append(author, u)

(* A page that creates keeps nothing of what it replaces.                  *)
WritePage(u, content) ==
    Write(u, page[u].name, content, page[u].base, IF page[u].mode = "new" THEN {} ELSE Edits, page[u].aged)

(* Mutant: the store is not loaded again after a save.                     *)
SaveUnloaded(u) ==
    /\ MaySave(u) /\ page[u].name # "Script"
    /\ \E content \in Revised(page[u]) :
          /\ WritePage(u, content) /\ Show(u, content)
          /\ \E todo \in FollowUps(page[u], content) : Outdate(u, [step |-> "follow", todo |-> todo])
    /\ UNCHANGED <<store, loads, stale, removed>>

(* The PUT of the page's own artifact.                                     *)
Save(u) ==
    /\ MaySave(u) /\ page[u].name # "Script"
    /\ \E content \in Revised(page[u]) :
          /\ WritePage(u, content) /\ Show(u, content)
          /\ \E todo \in FollowUps(page[u], content) : Outdate(u, [step |-> "reload", todo |-> todo])
    /\ Load(u)
    /\ UNCHANGED <<store, stale, removed>>

(* An executable is confirmed and saved as a change set of the revision    *)
(* read at that moment.                                                    *)
TakeSnapshot(u) ==
    /\ MaySave(u) /\ page[u].name = "Script"
    /\ \E content \in Revised(page[u]) : Show(u, content)
    /\ flow' = [flow EXCEPT ![u] = Step("snapshot")]
    /\ UNCHANGED <<server, store, loads, stale, home, excused, removed>>

ApplyChangeSet(u) ==
    \/ /\ flow[u].step = "snapshot" /\ page[u].mode # "build" /\ UNCHANGED author
       /\ WritePage(u, Shown(page[u]))
       /\ Outdate(u, Step("reload")) /\ Load(u)
       /\ UNCHANGED <<store, stale, page, removed>>
    \/ /\ flow[u].step = "outdated"
       /\ flow' = [flow EXCEPT ![u] = Step("idle")]
       /\ UNCHANGED <<server, store, loads, stale, page, history>>

(* The simple builder reviews a whole app - table, form and menu - and     *)
(* applies it as one change set, replacing what has those names.           *)
Review(u) ==
    /\ AtRest(u) /\ page[u].mode = "list"
    /\ Len(author) < MaxSaves /\ author' = Append(author, u)
    /\ page' = [page EXCEPT ![u] = Page("build", "", FALSE, [list |-> {Len(author')}, other |-> {}], FALSE)]
    /\ flow' = [flow EXCEPT ![u] = Step("snapshot")]
    /\ UNCHANGED <<server, store, loads, stale, home, excused, removed>>

(* Mutant: the builder leaves out the page.                                *)
BuiltWithoutPage(draft) ==
    [n \in {"Table", "Menu"} |-> IF n = "Table" THEN draft ELSE [list |-> {Item}, other |-> {}]]

Built(draft) ==
    [n \in {"Table", "TableForm", "Menu"} |->
        IF n = "Table" THEN draft ELSE IF n = "Menu" THEN [list |-> {Item}, other |-> {}] ELSE Empty]

ApplyBuild(u) ==
    /\ flow[u].step = "snapshot" /\ page[u].mode = "build"
    /\ LET new == Built(page[u].draft) IN
       /\ server' = [n \in Names |-> IF n \in DOMAIN new THEN new[n] ELSE server[n]]
       /\ excused' = excused \union {e \in Edits : home[e] \in DOMAIN new}
       /\ Acknowledge("Table", page[u].draft)
    /\ Outdate(u, Step("reload")) /\ Load(u)
    /\ UNCHANGED <<store, stale, page, author, removed>>

(* What a follow-up save keeps of the artifact in the store: its list.     *)
Follow(u, n) ==
    LET extra == IF n = "FormExt" THEN Shown(page[u]).list ELSE IF n = "TableForm" THEN {} ELSE {Item}
        had   == IF n = "TableForm" \/ store[u][n] = Absent THEN {} ELSE store[u][n].list IN
    [list |-> had \union extra, other |-> {}]

SaveNext(u) ==
    /\ flow[u].step = "follow" /\ flow[u].todo # <<>>
    /\ UNCHANGED <<store, stale, page, author, removed>>
    /\ LET n == Head(flow[u].todo) IN
       \/ /\ Write(u, n, Follow(u, n), Parts(store[u][n]),
                   IF n = "TableForm" THEN {} ELSE Edits \ server[n].other, stale[u])
          /\ Outdate(u, [step |-> "reload", todo |-> Tail(flow[u].todo)])
          /\ Load(u)
       \/ /\ flow' = [flow EXCEPT ![u] = Step("idle")]  \* refused by the server
          /\ UNCHANGED <<server, loads, home, excused>>

(* "Saved - changes are live": back to the list, which loads the store.    *)
Announce(u) ==
    /\ flow[u].step = "follow" /\ flow[u].todo = <<>>
    /\ flow' = [flow EXCEPT ![u] = Step("idle")]
    /\ page' = [page EXCEPT ![u] = Listing]
    /\ UNCHANGED server /\ Load(u)
    /\ UNCHANGED <<store, stale, history>>

Remove(u, n) ==
    /\ AtRest(u) /\ page[u].mode = "list" /\ store[u][n] # Absent
    /\ Len(author) < MaxSaves /\ author' = Append(author, u)
    /\ server' = [server EXCEPT ![n] = Absent]
    /\ excused' = excused \union {e \in Edits : home[e] = n}
    /\ removed' = removed \union {n}
    /\ Outdate(u, Step("idle")) /\ Load(u)
    /\ UNCHANGED <<store, stale, page, home>>

(* Somebody who is not modelled saves an artifact: the designers of other  *)
(* browsers, an integration, an approved proposal.                         *)
OthersSave(n) ==
    /\ Len(author) < MaxSaves /\ author' = Append(author, "somebody")
    /\ LET e == Len(author')
           c == IF Exists(n) THEN server[n] ELSE Empty IN
       /\ \E d \in WithEdit(c, e) : server' = [server EXCEPT ![n] = d]
       /\ home' = [home EXCEPT ![e] = n]
    /\ flow' = [v \in Users |-> IF flow[v].step = "snapshot" THEN Step("outdated") ELSE flow[v]]
    /\ UNCHANGED <<store, loads, stale, page, excused, removed>>

Next ==
    \/ \E n \in Names : OthersSave(n)
    \/ \E u \in Users :
        \/ Arrive(u) \/ VisitList(u) \/ ChooseTarget(u) \/ SwitchTab(u)
        \/ Save(u) \/ TakeSnapshot(u) \/ ApplyChangeSet(u) \/ Review(u) \/ ApplyBuild(u) \/ SaveNext(u) \/ Announce(u)
        \/ \E n \in Names : OpenExisting(u, n) \/ OpenNew(u, n) \/ Remove(u, n)
Spec == Init /\ [][Next]_vars
-----------------------------------------------------------------------------
TypeOK ==
    /\ server \in [Names -> Content \union {Absent}]
    /\ \A u \in Users :
          /\ store[u] \in [Names -> Content \union {Absent}]
          /\ page[u].mode \in {"list", "new", "edit", "build"} /\ page[u].draft \in Content /\ page[u].json \in Content
          /\ flow[u].step \in {"idle", "reload", "follow", "snapshot", "outdated"}
          /\ flow[u].step = "reload" => loads[u] # <<>>
    /\ home \in [Edits -> Names \union {""}]

(* A designer's acknowledged edit stays stored until it is deleted or      *)
(* replaced in one of the ways this editor allows: by somebody who had not *)
(* seen it, or whose store was overtaken or JSON text dropped; by a page   *)
(* that creates; or outside the lists that follow-up saves extend.  In     *)
(* particular nobody undoes his own work by going on working.              *)
AcknowledgedEditsSurvive ==
    \A e \in Edits : home[e] # "" /\ e \notin excused => e \in Parts(server[home[e]])

(* No page drops what it has seen: the edits of a stored artifact that the *)
(* browser knew of when the page took the artifact up, by opening it or by *)
(* choosing the target of a new extension, are in what the page saves.     *)
NothingSeenIsDropped ==
    [][\A u \in Users :
          (page[u].mode \in {"new", "edit"} /\ flow[u].step \in {"idle", "snapshot"} /\ flow'[u].step = "reload")
          => page[u].base \intersect Parts(server[page[u].name]) \subseteq Parts(server'[page[u].name])]_vars

(* However the saves that follow a new table end, no menu lists an item    *)
(* whose form was never stored.                                            *)
MenuItemsResolve ==
    Exists("Menu") /\ Item \in server["Menu"].list => Exists("TableForm") \/ "TableForm" \in removed

(* "If that extension already exists, open it instead of silently          *)
(* overwriting on save" (DesignerEditPage.vue:188).                        *)
NoSilentOverwrite ==
    [][\A u \in Users :
          (page[u].mode = "new" /\ page[u].name \in Extensions /\ flow[u].step = "idle" /\ flow'[u].step = "reload")
          => Parts(server[page[u].name]) \subseteq Parts(server'[page[u].name])]_vars

(* The store is sound: well formed, and its menus resolve.                 *)
StoreIsSound == TypeOK /\ MenuItemsResolve
=============================================================================
