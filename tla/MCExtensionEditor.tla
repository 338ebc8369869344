-------------------------- MODULE MCExtensionEditor --------------------------
(* A group with one item and a second item at the root; moving the group to*)
(* the place after it gives it the order it has already.                   *)
EXTENDS ExtensionEditor

BaseItems == "group" :> [label |-> "x", order |-> 10] @@ "leaf" :> [label |-> "x", visible |-> FALSE]
             @@ "second" :> [label |-> "x"]
BelowItems == "" :> <<"second", "group">> @@ "group" :> <<"leaf">> @@ "leaf" :> << >> @@ "second" :> << >>
=============================================================================
