--------------------------- MODULE ExtensionEditor ---------------------------
(***************************************************************************)
(* The editors of a menu extension and of a form extension in the Designer *)
(* (DesignerEditPage.vue, menuExtensionTree.ts, formExtensionLines.ts).    *)
(* The page shows what the layers below give together with what the        *)
(* extension adds, and writes every edit into the extension as a difference*)
(* from the layers below.  The two have to stay together: whoever opens    *)
(* the saved extension sees it built anew.  A menu's page and its artifact *)
(* share the objects of the extension's own items, until the JSON tab puts *)
(* a copy of the artifact in its place: the page keeps the old objects.    *)
(*                                                                         *)
(* A page edits one artifact, of the kind chosen at the start: a tree of   *)
(* menu items or a list of a form's lines.  Both are called items; a field *)
(* an item does not have is not in its domain.  Visit is a page opened     *)
(* again after a save.                                                     *)
(***************************************************************************)
EXTENDS Naturals, SequencesExt, TLC

CONSTANTS
    Base,     \* items of the layers below: id -> fields
    Below,    \* their places: "" and each id -> the ids below it
    NewIds,   \* what is drawn as ids of new items
    Labels, MaxEdits

Top == ""
Inherited == DOMAIN Base
ASSUME MenuAssumption == DOMAIN Below = Inherited \union {Top}

VARIABLES
    kind,       \* "menu" or "form"
    own,        \* the extension's items: sequence of [id, parent]
    nested,     \* items below an item of its own: id -> ids
    saved,      \* what the extension holds of each item of its own
    overrides,  \* the extension's overrides: id -> fields
    fields,     \* what the page shows of each item
    shown,      \* the page's order: a key of Below -> ids
    within,     \* the page's items below an item of the extension's own
    detached,   \* items whose object on the page is not the artifact's
    answer,     \* the layers: "waiting", "arrived" or "failed"
    edits,      \* count
    added,      \* history: items added and not removed
    arranged,   \* history: keys of Below put in order, with no addition or reset since
    astray,     \* history: detached items that were edited
    dropped     \* history: items the editor is known to drop

extension == <<own, nested, saved, overrides>>
page == <<fields, shown, within, detached>>
history == <<added, arranged, astray, dropped>>
vars == <<kind, extension, page, answer, edits, history>>

Without(f, key) == Restrict(f, DOMAIN f \ {key})
At(f, key) == IF key \in DOMAIN f THEN f[key] ELSE << >>
Own == {own[i].id : i \in DOMAIN own} \union UNION {ToSet(nested[p]) : p \in DOMAIN nested}
Listed == {own[i].id : i \in DOMAIN own}
Visible(item) == IF "visible" \in DOMAIN item THEN item.visible
                 ELSE ~("hidden" \in DOMAIN item /\ item.hidden)

Init ==
    /\ kind \in {"menu", "form"}
    /\ own = << >> /\ nested = << >> /\ saved = << >>
    /\ \E id \in Inherited : overrides \in {<< >>, id :> [hidden |-> TRUE]}
    /\ fields = << >> /\ shown = [p \in DOMAIN Below |-> << >>] /\ within = << >> /\ detached = {}
    /\ answer = "waiting" /\ edits = 0 /\ added = {} /\ arranged = {} /\ astray = {} /\ dropped = {}
-----------------------------------------------------------------------------
(* Building the page *)

applyOverride(id) == At(overrides, id) @@ Base[id]
Rebuilt == [id \in Inherited \union Own |-> IF id \in Inherited THEN applyOverride(id) ELSE saved[id]]

(* By order, which defaults to the position.                               *)
sortTree(ids, items) ==
    LET key(i) == IF "order" \in DOMAIN items[ids[i]] THEN items[ids[i]].order ELSE i - 1
        sorted == SortSeq([i \in DOMAIN ids |-> i], LAMBDA i, j : key(i) < key(j) \/ (key(i) = key(j) /\ i < j))
    IN [i \in DOMAIN ids |-> ids[sorted[i]]]

(* The items below p: those of the layers below, then the extension's.     *)
Unsorted(p) ==
    LET mine == SelectSeq(own, LAMBDA o : o.parent = p) IN Below[p] \o [i \in DOMAIN mine |-> mine[i].id]
buildMenuExtensionTree == [p \in DOMAIN Below |-> sortTree(Unsorted(p), Rebuilt)]
buildFormExtensionLines == [p \in DOMAIN Below |-> IF p = Top THEN Unsorted(Top) ELSE << >>]

(* What differs from the layers below; a page without them knows of none.  *)
Differences(item, id) == {k \in DOMAIN item : k \notin DOMAIN Base[id] \/ item[k] # Base[id][k]}
Deltas(items, ids) ==
    [id \in {id \in ids \intersect Inherited : Differences(items[id], id) # {}} |->
        Restrict(items[id], Differences(items[id], id))]

(* An edit of an item of the extension's own is one of the artifact's if   *)
(* both are one object; the lines of a form are written back as copies.    *)
Follow == saved' = [id \in Own' |-> IF id \in DOMAIN fields' \ detached' THEN fields'[id] ELSE saved[id]]

(* Drawing a line gives it a list of actions (actionsForLine()).           *)
Drawn(items) == [id \in DOMAIN items |-> items[id] @@ [actions |-> << >>]]

(* Mutant: the lines as they were before the edit are written.             *)
SyncBefore ==
    LET mine == SelectSeq(shown[Top], LAMBDA id : id \notin Inherited) IN
    /\ own' = [i \in DOMAIN mine |-> [id |-> mine[i], parent |-> Top]]
    /\ overrides' = Deltas(fields', ToSet(shown'[Top]))
    /\ UNCHANGED <<nested, within, detached>> /\ Follow

(* syncFormLineOverrides(), run by the watcher of the lines.               *)
syncFormLineOverrides ==
    LET mine == SelectSeq(shown'[Top], LAMBDA id : id \notin Inherited) IN
    /\ own' = [i \in DOMAIN mine |-> [id |-> mine[i], parent |-> Top]]
    /\ overrides' = Deltas(fields', ToSet(shown'[Top]))
    /\ UNCHANGED <<nested, within, detached>> /\ Follow

(* The answer to the page's question for the layers of its target.         *)
Arrive ==
    /\ answer = "waiting" /\ UNCHANGED <<kind, edits, added, arranged, dropped>>
    /\ \/ answer' = "failed" /\ UNCHANGED <<extension, page, astray>>
       \/ /\ answer' = "arrived" /\ astray' = {}
          /\ \/ /\ kind = "menu" /\ fields' = Rebuilt
                /\ shown' = buildMenuExtensionTree
                /\ nested' = [p \in DOMAIN nested |-> sortTree(nested[p], saved)]
                /\ within' = nested' /\ detached' = {}
                /\ UNCHANGED <<own, saved, overrides>>
             \/ /\ kind = "form" /\ fields' = Drawn(Rebuilt)
                /\ shown' = buildFormExtensionLines /\ syncFormLineOverrides

Visit ==
    /\ answer # "waiting" /\ answer' = "waiting"
    /\ shown' = [p \in DOMAIN Below |-> << >>] /\ fields' = << >> /\ within' = << >>
    /\ detached' = {} /\ astray' = {}
    /\ UNCHANGED <<kind, extension, edits, added, arranged, dropped>>

(* To the JSON tab and back, without changing its text: the artifact is    *)
(* parsed anew and the tree is not built again.  The lines of a form are   *)
(* copies in any case.                                                     *)
SwitchTabs ==
    /\ kind = "menu" /\ detached' = DOMAIN fields \ Inherited /\ detached' # detached
    /\ UNCHANGED <<kind, extension, fields, shown, within, answer, edits, history>>
-----------------------------------------------------------------------------
(* Editing a menu *)

Edit(k) == kind = k /\ edits < MaxEdits /\ edits' = edits + 1 /\ UNCHANGED <<kind, answer>>

(* updateInheritedDelta(): the override holds what differs from below.     *)
Delta(id, field, value) ==
    LET baseline == IF field = "visible" THEN {Visible(Base[id])}
                    ELSE IF field \in DOMAIN Base[id] THEN {Base[id][field]} ELSE {}
    IN IF value \in baseline THEN Without(At(overrides, id), field) ELSE (field :> value) @@ At(overrides, id)
SetOverride(f, id, override) == IF DOMAIN override = {} THEN Without(f, id) ELSE (id :> override) @@ f

UpdateField(id, field, value) ==
    /\ fields' = [fields EXCEPT ![id] = (field :> value) @@ IF field = "visible" THEN Without(@, "hidden") ELSE @]
    /\ overrides' = IF id \in Inherited THEN SetOverride(overrides, id, Delta(id, field, value)) ELSE overrides
    /\ astray' = astray \union ({id} \intersect detached)

ChangeItem(id) ==
    /\ Edit("menu") /\ id \in DOMAIN fields
    /\ \/ \E value \in Labels : UpdateField(id, "label", value)
       \/ \E value \in BOOLEAN : UpdateField(id, "visible", value)
    /\ UNCHANGED <<own, nested, shown, within, detached, added, arranged, dropped>> /\ Follow

resetInheritedDelta(id) ==
    /\ Edit("menu") /\ id \in DOMAIN fields \intersect Inherited
    /\ overrides' = Without(overrides, id)
    /\ fields' = [fields EXCEPT ![id] = Base[id]]
    /\ arranged' = {p \in arranged : id \notin ToSet(shown[p])}
    /\ UNCHANGED <<own, nested, saved, shown, within, detached, added, astray, dropped>>

newMenuItem == [label |-> "", visible |-> TRUE]

(* Below an item of its own a new one goes into that item's list, which is *)
(* the extension's unless the item is detached; elsewhere into the         *)
(* extension and into the page.                                            *)
addExtensionMenuItem(p, id) ==
    /\ Edit("menu") /\ id \notin DOMAIN fields \union Own \union added \union dropped
    /\ fields' = (id :> newMenuItem) @@ fields /\ arranged' = arranged \ {p}
    /\ \/ /\ p \in DOMAIN fields \ Inherited
          /\ within' = (p :> Append(At(within, p), id)) @@ within
          /\ \/ /\ p \notin detached /\ nested' = (p :> within'[p]) @@ nested
                /\ added' = added \union {id} /\ UNCHANGED <<detached, astray, dropped>>
             \/ /\ p \in detached /\ detached' = detached \union {id}
                /\ astray' = astray \union {p} /\ dropped' = dropped \union {id}
                /\ UNCHANGED <<nested, added>>
          /\ UNCHANGED <<own, shown>>
       \/ /\ p \in {Top} \union (Inherited \intersect DOMAIN fields)
          /\ own' = Append(own, [id |-> id, parent |-> p])
          /\ shown' = [shown EXCEPT ![p] = Append(@, id)]
          /\ added' = added \union {id} /\ UNCHANGED <<nested, within, detached, astray, dropped>>
    /\ UNCHANGED overrides /\ Follow

RECURSIVE Subtree(_, _)
Subtree(lists, id) == {id} \union UNION {Subtree(lists, x) : x \in ToSet(At(lists, id))}

(* removeExtensionItem() takes the item out of the extension and the caller*)
(* out of the page's list; below an item of the extension's own that is not*)
(* detached both are one list, and the item after it goes as well.         *)
Unlisted(lists, id) == [p \in DOMAIN lists |-> SelectSeq(lists[p], LAMBDA x : x # id)]
removeListed(id) ==
    /\ id \in Listed
    /\ own' = SelectSeq(own, LAMBDA o : o.id # id)
    /\ shown' = Unlisted(shown, id)
    /\ nested' = Restrict(nested, DOMAIN nested \ Subtree(nested, id))
    /\ within' = Restrict(within, DOMAIN within \ Subtree(within, id))
    /\ fields' = Restrict(fields, DOMAIN fields \ Subtree(within, id))
    /\ added' = added \ Subtree(nested, id) /\ UNCHANGED dropped
removeNested(id) ==
    \E p \in DOMAIN within : \E i \in DOMAIN within[p] :
       LET rest == RemoveAt(within[p], i)
           next == IF i \in DOMAIN rest /\ p \notin detached THEN {rest[i]} ELSE {}
           Gone(lists) == Subtree(lists, id) \union UNION {Subtree(lists, x) : x \in next}
           Cleared(lists) == Restrict([q \in DOMAIN lists |-> SelectSeq(lists[q], LAMBDA x : x \notin {id} \union next)],
                                       DOMAIN lists \ Gone(lists)) IN
       /\ within[p][i] = id
       /\ within' = Cleared(within) /\ nested' = Cleared(nested)
       /\ fields' = Restrict(fields, DOMAIN fields \ Gone(within))
       /\ added' = added \ Subtree(nested, id) /\ dropped' = dropped \union (Gone(nested) \ Subtree(nested, id))
       /\ UNCHANGED <<own, shown>>

removeCurrentMenuItem(id) ==
    /\ Edit("menu") /\ id \in DOMAIN fields
    /\ removeListed(id) \/ removeNested(id)
    /\ detached' = detached \intersect DOMAIN fields' /\ astray' = astray \intersect DOMAIN fields'
    /\ UNCHANGED <<overrides, arranged>> /\ Follow

(* Mutant: the items of the extension itself keep their order.             *)
OrderedInherited(ids) ==
    [id \in DOMAIN fields |-> IF id \in ToSet(ids) \intersect Inherited
        THEN ("order" :> 10 * ((CHOOSE i \in DOMAIN ids : ids[i] = id) - 1)) @@ fields[id] ELSE fields[id]]

(* Every item of a list that was moved in gets its position as its order.  *)
Ordered(ids) ==
    [id \in DOMAIN fields |-> IF id \in ToSet(ids)
        THEN ("order" :> 10 * ((CHOOSE i \in DOMAIN ids : ids[i] = id) - 1)) @@ fields[id] ELSE fields[id]]

moveExtensionMenuItem(p, i) ==
    /\ Edit("menu") /\ i + 1 \in DOMAIN shown[p]
    /\ LET ids == [shown[p] EXCEPT ![i] = shown[p][i + 1], ![i + 1] = shown[p][i]] IN
       /\ shown' = [shown EXCEPT ![p] = ids]
       /\ fields' = Ordered(ids)
       /\ LET delta == [id \in Inherited |-> IF id \in ToSet(ids) THEN Delta(id, "order", fields'[id].order)
                                            ELSE At(overrides, id)]
          IN overrides' = Restrict(delta, {id \in Inherited : delta[id] # << >>})
       /\ arranged' = IF ToSet(ids) \intersect detached = {} THEN arranged \union {p} ELSE arranged \ {p}
       /\ astray' = astray \union (ToSet(ids) \intersect detached)
    /\ UNCHANGED <<own, nested, within, detached, added, dropped>> /\ Follow
-----------------------------------------------------------------------------
(* Editing the lines of a form; the watcher writes them all back.          *)

addLine(id) ==
    /\ Edit("form") /\ id \notin Own \union added \union dropped
    /\ shown' = [shown EXCEPT ![Top] = Append(@, id)]
    /\ fields' = Drawn((id :> [label |-> ""]) @@ fields)
    /\ LET lost == IF answer = "arrived" THEN {} ELSE Own \ ToSet(shown[Top]) IN
       added' = (added \ lost) \union {id} /\ dropped' = dropped \union lost
    /\ syncFormLineOverrides /\ UNCHANGED <<arranged, astray>>

(* An inherited line is hidden, one of the extension's own goes.           *)
removeLine(id) ==
    /\ Edit("form") /\ id \in ToSet(shown[Top])
    /\ IF id \in Inherited
       THEN fields' = [fields EXCEPT ![id] = ("hidden" :> TRUE) @@ @] /\ UNCHANGED <<shown, added>>
       ELSE /\ shown' = [shown EXCEPT ![Top] = SelectSeq(@, LAMBDA x : x # id)]
            /\ fields' = Without(fields, id) /\ added' = added \ {id}
    /\ syncFormLineOverrides /\ UNCHANGED <<arranged, astray, dropped>>

changeLine(id) ==
    /\ Edit("form") /\ id \in ToSet(shown[Top])
    /\ \/ \E value \in Labels : fields' = [fields EXCEPT ![id] = ("label" :> value) @@ @]
       \/ \E value \in BOOLEAN : fields' = [fields EXCEPT ![id] = ("hidden" :> ~value) @@ @]
    /\ UNCHANGED shown /\ syncFormLineOverrides /\ UNCHANGED history

resetLine(id) ==
    /\ Edit("form") /\ id \in ToSet(shown[Top]) \intersect Inherited
    /\ fields' = Drawn([fields EXCEPT ![id] = Base[id]])
    /\ UNCHANGED shown /\ syncFormLineOverrides /\ UNCHANGED history

Next ==
    \/ Arrive \/ Visit \/ SwitchTabs
    \/ \E id \in Inherited \union NewIds :
          \/ ChangeItem(id) \/ resetInheritedDelta(id) \/ removeCurrentMenuItem(id)
          \/ removeLine(id) \/ changeLine(id) \/ resetLine(id)
    \/ \E id \in NewIds : addLine(id) \/ \E p \in {Top} \union Inherited \union NewIds : addExtensionMenuItem(p, id)
    \/ \E p \in DOMAIN Below : \E i \in 1..Len(shown[p]) : moveExtensionMenuItem(p, i)
Spec == Init /\ [][Next]_vars
-----------------------------------------------------------------------------
Looks(item) == [label |-> item.label, visible |-> Visible(item)]
Legacy(id) == "hidden" \in DOMAIN At(overrides, id)

(* Whoever opens the extension again sees what its editor saw: the same    *)
(* items in the same places, looking the same, and in the same order where *)
(* they were last put in order.  Exceptions are an override written by an  *)
(* older release with hidden, and items of a menu extension's own that were*)
(* edited, moved or added to after the JSON tab: only the page shows that. *)
RebuildShowsEdits ==
    answer = "arrived" =>
        LET again == IF kind = "menu" THEN buildMenuExtensionTree ELSE buildFormExtensionLines IN
        /\ \A p \in DOMAIN Below : ToSet(shown[p]) = ToSet(again[p]) /\ (p \in arranged => shown[p] = again[p])
        /\ \A id \in (DOMAIN fields \intersect DOMAIN Rebuilt) \ astray :
              /\ kind = "form" \/ ~Legacy(id) => Looks(fields[id]) = Looks(Rebuilt[id])
              /\ At(within, id) = At(nested, id)
        /\ DOMAIN fields \ DOMAIN Rebuilt \subseteq dropped

(* What the layers below say of a field, if anything.                      *)
Meant(item, field) ==
    IF field \in DOMAIN item THEN {item[field]}
    ELSE CASE field = "visible" -> {Visible(item)}
           [] field = "hidden" -> {FALSE}
           [] field = "actions" -> {<< >>}
           [] OTHER -> {}
Repeated(id) == {field \in DOMAIN overrides[id] : overrides[id][field] \in Meant(Base[id], field)}

(* "Only the current Layer delta is saved" (DesignerEditPage.vue:844): no  *)
(* override repeats what the layers below mean anyway.                     *)
OnlyDeltasAreSaved ==
    \A id \in DOMAIN overrides : id \in Inherited /\ overrides[id] # << >> /\ Repeated(id) = {}

(* Nearly so: what drawing a line, and showing it that is not hidden, write*)
(* into it differs from a field it does not have, and is saved as an       *)
(* override (actionsForLine() and the checkbox Visible; lists of aggregates*)
(* that were emptied again are the same).                                  *)
DeltasAreSaved ==
    \A id \in DOMAIN overrides :
        /\ id \in Inherited /\ overrides[id] # << >>
        /\ Repeated(id) \subseteq IF kind = "form" THEN {"actions", "hidden"} \ DOMAIN Base[id] ELSE {}

(* What was added stays in the extension until it is removed.  Excepted are*)
(* lines of a form extension to which one is added before the layers have  *)
(* arrived, the item after a removed one below an item of the extension's  *)
(* own, and what is added below such an item after the JSON tab: the editor*)
(* drops all three.                                                        *)
AdditionsAreKept == added \subseteq Own \union dropped

(* The last two together: what is in the extension belongs there.          *)
ExtensionIsSound == DeltasAreSaved /\ AdditionsAreKept
=============================================================================
