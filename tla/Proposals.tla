----------------------------- MODULE Proposals -----------------------------
(***************************************************************************)
(* The workflow of AI proposals (packages/server/src/aiApi.ts) over the    *)
(* designer's workspace: an administrator issues tokens, a token's holder  *)
(* proposes a change set, and a designer approves or rejects it.  Unlike a *)
(* designer's own change set, an approval applies, stores and marks in     *)
(* three steps that no transaction holds together; the process may die     *)
(* between them, and either write may fail.  The audit log is left out.    *)
(***************************************************************************)
EXTENDS Designer

CONSTANTS
    Tokens, Proposals,   \* ids
    Scopes,              \* scopes a token is issued with
    Reviewers            \* the apps a designer may customize

ASSUME ProposalsAssumption ==
    /\ Reviewers \subseteq SUBSET Apps
    /\ Scopes \subseteq SUBSET {"inspect", "validate", "propose"}

VARIABLES
    tokens,      \* FW_AiToken
    proposals,   \* FW_AiProposal
    approving,   \* the proposal whose approval is under way
    applied,     \* history: how often a proposal has been stored
    unmarked     \* history: how often that was not marked, for a fault or a crash

inbox == <<tokens, proposals, approving, applied, unmarked>>
workspace == <<stored, runtime, physical, previews, audit, control, troubled>>

Unissued == [state |-> "unissued"]
Ended == [state |-> "ended"]
Unsent == [status |-> "unsent"]
Deleted == [status |-> "deleted"]
Nobody == "nobody"

WorkspaceInit ==
    /\ Init
    /\ tokens = [t \in Tokens |-> Unissued] /\ proposals = [p \in Proposals |-> Unsent]
    /\ approving = Nobody /\ applied = [p \in Proposals |-> 0]
    /\ unmarked = [p \in Proposals |-> 0]

affectedApps(ops) == {IF n \in Apps THEN n ELSE AppOf[n] : n \in {n \in Names : ops[n] # Keep}}
InScope(scope, p) == affectedApps(proposals[p].ops) \subseteq scope
SetStatus(p, status) == proposals' = [proposals EXCEPT ![p].status = status]
-----------------------------------------------------------------------------
(* POST ai-tokens: for apps that are loaded at that moment.                *)
CreateToken ==
    /\ pc = "idle"
    /\ \E t \in Tokens, apps \in SUBSET (Apps \intersect Present(live)) \ {{}}, scopes \in Scopes :
         /\ tokens[t] = Unissued
         /\ tokens' = [tokens EXCEPT ![t] = [state |-> "valid", apps |-> apps, scopes |-> scopes]]
    /\ UNCHANGED <<workspace, bounds, proposals, approving, applied, unmarked>>

(* A token is revoked or its date passes.                                  *)
EndToken ==
    /\ pc = "idle"
    /\ \E t \in Tokens : tokens[t].state = "valid" /\ tokens' = [tokens EXCEPT ![t] = Ended]
    /\ UNCHANGED <<workspace, bounds, proposals, approving, applied, unmarked>>

requireToken(t, scope) == tokens[t].state = "valid" /\ scope \in tokens[t].scopes

(* POST proposals: nothing is kept of a change set that does not validate. *)
Propose ==
    /\ Request
    /\ \E t \in Tokens, p \in Proposals, ops \in ChangeSets :
         /\ requireToken(t, "propose") /\ affectedApps(ops) \subseteq tokens[t].apps
         /\ proposals[p] = Unsent
         /\ \A n \in Names : ops[n] = Absent => stored[n] # Absent
         /\ PreviewErrors(Merge(stored, ops)) = {}
         /\ proposals' = [proposals EXCEPT ![p] = [status |-> "pending", ops |-> ops, base |-> stored]]
    /\ UNCHANGED <<workspace, faults, restarts, tokens, approving, applied, unmarked>>
-----------------------------------------------------------------------------
(* Mutant: the revision the proposal was made against is not compared.     *)
RevalidatesAnything(p) == proposals[p].status = "pending" /\ PreviewErrors(Merge(stored, proposals[p].ops)) = {}

(* A pending proposal against the revision that is stored still validates. *)
Revalidates(p) ==
    /\ proposals[p].status = "pending"
    /\ proposals[p].base = stored
    /\ PreviewErrors(Merge(stored, proposals[p].ops)) = {}

(* POST approve: the candidate is applied; an error ends the approval with *)
(* what has been applied in place, ...                                     *)
Approve ==
    /\ Request
    /\ \E p \in Proposals, scope \in Reviewers, fails \in Faulty("migrate") :
         LET candidate == Merge(stored, proposals[p].ops)
             registry == Registry(candidate)
             errors == Errors(candidate, registry, fails) IN
         /\ Revalidates(p) /\ InScope(scope, p)
         /\ applyWebArtifacts(candidate, registry, fails)
         /\ troubled' = (troubled \/ errors # {})
         /\ IF errors = {} THEN pc' = "approving" /\ approving' = p ELSE UNCHANGED <<pc, approving>>
         /\ Charge(fails)
    /\ UNCHANGED <<stored, previews, audit, saved, restarts, tokens, proposals, applied, unmarked>>

(* ... persisted, unless the write fails, ...                              *)
StoreProposal ==
    /\ pc = "approving"
    /\ \E storeFails \in Faulty("store") :
         /\ IF storeFails
            THEN pc' = "idle" /\ approving' = Nobody /\ UNCHANGED <<stored, applied>>
            ELSE /\ pc' = "marking" /\ UNCHANGED approving
                 /\ stored' = Merge(stored, proposals[approving].ops)
                 /\ applied' = [applied EXCEPT ![approving] = @ + 1]
         /\ troubled' = (troubled \/ storeFails)
         /\ Charge(storeFails)
    /\ UNCHANGED <<runtime, physical, previews, audit, saved, requests, restarts, tokens, proposals, unmarked>>

(* Mutant: the proposal stays pending.                                     *)
MarkNothing ==
    /\ pc = "marking" /\ pc' = "idle" /\ approving' = Nobody
    /\ UNCHANGED <<stored, runtime, physical, previews, audit, saved, troubled, bounds, tokens, proposals, applied, unmarked>>

MarkLost(p) == unmarked' = [unmarked EXCEPT ![p] = @ + 1]

(* ... and marked, by a write of its own: when it throws, the proposal has *)
(* been stored and is still pending.                                       *)
MarkApproved ==
    /\ pc = "marking" /\ pc' = "idle" /\ approving' = Nobody
    /\ \E fails \in Faulty("store") :
         /\ IF fails THEN MarkLost(approving) /\ UNCHANGED proposals
            ELSE SetStatus(approving, "approved") /\ UNCHANGED unmarked
         /\ Charge(fails)
    /\ UNCHANGED <<stored, runtime, physical, previews, audit, saved, troubled, requests, restarts, tokens, applied>>

(* POST reject, by any designer.                                           *)
Reject ==
    /\ Request
    /\ \E p \in Proposals : proposals[p].status = "pending" /\ SetStatus(p, "rejected")
    /\ UNCHANGED <<workspace, faults, restarts, tokens, approving, applied, unmarked>>

(* DELETE of a reviewed proposal.                                          *)
DeleteProposal ==
    /\ Request
    /\ \E p \in Proposals, scope \in Reviewers :
         /\ proposals[p].status \in {"approved", "rejected"} /\ InScope(scope, p)
         /\ proposals' = [proposals EXCEPT ![p] = Deleted]
    /\ UNCHANGED <<workspace, faults, restarts, tokens, approving, applied, unmarked>>

(* The designer's own requests, and a crash, which ends an approval.       *)
Designing ==
    /\ Next /\ approving' = Nobody
    /\ IF pc = "marking" THEN MarkLost(approving) ELSE UNCHANGED unmarked
    /\ UNCHANGED <<tokens, proposals, applied>>

WorkspaceNext ==
    \/ Designing \/ CreateToken \/ EndToken \/ Propose
    \/ Approve \/ StoreProposal \/ MarkApproved \/ Reject \/ DeleteProposal
-----------------------------------------------------------------------------
(* The decisions agree with the workspace: an approved proposal has been   *)
(* stored, a rejected one never, and none is stored twice - but for the    *)
(* storings after which the mark was lost to a failed write or a crash     *)
(* (aiApi.ts:157-158): such a proposal is still pending, and may be        *)
(* rejected or, back on its own revision, approved again.  Each of these   *)
(* takes a fault or a restart.  A designer's confirmed preview, marked in  *)
(* the transaction that stores it, is never applied twice.                 *)
DecidedOnce ==
    /\ \A p \in Proposals :
        /\ proposals[p].status = "approved" => applied[p] = unmarked[p] + 1
        /\ proposals[p].status = "rejected" => applied[p] = unmarked[p]
        /\ applied[p] <= unmarked[p] + 1
        /\ unmarked[p] <= faults + restarts
    /\ \A p \in Previews : audit[p] <= 1

(* What is confirmed or approved is what was shown: storing a preview or a *)
(* proposal turns exactly the workspace it was validated against into what *)
(* was reviewed, however often the workspace changed in between (the       *)
(* comparison of revisions, designer.ts:621 and changeSet.ts:45).          *)
Onto(base, ops) == stored = base /\ stored' = Merge(base, ops)
ShownIsApplied ==
    [][ /\ \A p \in Previews : audit'[p] > audit[p] => Onto(previews[p].base, previews[p].ops)
        /\ \A p \in Proposals : applied'[p] > applied[p] => Onto(proposals[p].base, proposals[p].ops)
      ]_<<vars, inbox>>
=============================================================================
