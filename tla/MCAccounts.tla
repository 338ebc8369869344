----------------------------- MODULE MCAccounts -----------------------------
(***************************************************************************)
(* An empty database, one of the first release with the default password   *)
(* and one with numeric roles.                                             *)
(***************************************************************************)
EXTENDS Accounts, TLC

User(p, e) == [password |-> p, enabled |-> e]
NoLegacy == [users |-> << >>, sessions |-> << >>, roles |-> {}]
GrantsV == {[open |-> TRUE, customize |-> FALSE], [open |-> TRUE, customize |-> TRUE]}
OriginsV == {
    [users |-> << >>, assigned |-> {}, legacy |-> NoLegacy],
    [users |-> << >>, assigned |-> {},
     legacy |-> [users |-> [admin |-> User("admin", TRUE), bob |-> User("one", TRUE)],
                 sessions |-> (1 :> [user |-> "admin", secret |-> "admin"])
                                 @@ (2 :> [user |-> "bob", secret |-> "one"]),
                 roles |-> {<<"admin", Admin>>, <<"bob", Admin>>, <<"bob", FrameworkUser>>}]],
    [users |-> [admin |-> User("one", TRUE), bob |-> User("two", FALSE)],
     assigned |-> {[user |-> "admin", role |-> Admin, coded |-> TRUE],
                   [user |-> "bob", role |-> Admin, coded |-> TRUE]},
     legacy |-> NoLegacy]}
=============================================================================
