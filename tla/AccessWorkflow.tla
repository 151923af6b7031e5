---------------------------- MODULE AccessWorkflow ----------------------------
(***************************************************************************)
(* What the group access workflow of apps/api/services/group_membership    *)
(* promises to the people who use it, without handlers, transactions or    *)
(* crashes: a request is decided once, by an owner of its group or by its  *)
(* requester or its age; owners vote on what is pending; approval and      *)
(* grant are one step, and nothing else grants.                            *)
(***************************************************************************)
EXTENDS Naturals, Sequences

CONSTANTS
    People,
    Groups,
    Nobody          \* who decided a request that nobody has decided

VARIABLES
    ledger,         \* the requests, in the order they were made
    votes,          \* who has voted what on which request
    granted,        \* requests whose membership is in force
    owners          \* who owns each group

Pending(r) == r \in DOMAIN ledger /\ ledger[r].status = "pending"

Vote(r, p, decision) == [request |-> r, approver |-> p, decision |-> decision]
Request(g, p, status, by) ==
    [group |-> g, requester |-> p, status |-> status, decidedBy |-> by]
Decide(r, status, by) ==
    [ledger EXCEPT ![r] = Request(ledger[r].group, ledger[r].requester, status, by)]

\* Owners come and go, and a group may be owned by the members of another.
Reorganized == owners' \in [Groups -> SUBSET People]

Init ==
    /\ ledger = <<>>
    /\ votes = {}
    /\ granted = {}
    /\ owners \in [Groups -> SUBSET People]

\* A requester has one pending request per group.
Submit(g, p) ==
    /\ \A r \in DOMAIN ledger :
          Pending(r) => ~(ledger[r].group = g /\ ledger[r].requester = p)
    /\ ledger' = Append(ledger, Request(g, p, "pending", Nobody))
    /\ UNCHANGED <<votes, granted, owners>>

Support(r, p) ==
    /\ Pending(r)
    /\ p \in owners[ledger[r].group]
    /\ votes' = votes \union {Vote(r, p, "approved")}
    /\ UNCHANGED <<ledger, granted, owners>>

\* The new member may make the group's members owners of another group.
Approve(r, p) ==
    /\ Pending(r)
    /\ Vote(r, p, "approved") \in votes
    /\ ledger' = Decide(r, "approved", p)
    /\ granted' = granted \union {r}
    /\ Reorganized
    /\ UNCHANGED votes

Deny(r, p) ==
    /\ Pending(r)
    /\ p \in owners[ledger[r].group]
    /\ votes' = votes \union {Vote(r, p, "denied")}
    /\ ledger' = Decide(r, "denied", p)
    /\ UNCHANGED <<granted, owners>>

\* The requester cancels, or the request has waited too long.
Close(r, status) ==
    /\ Pending(r)
    /\ ledger' = Decide(r, status, ledger[r].decidedBy)
    /\ UNCHANGED <<votes, granted, owners>>

\* Memberships end, and everything about groups that is no request changes.
Revoke(rs) ==
    /\ UNCHANGED <<ledger, votes>>
    /\ granted' = granted \ rs
    /\ Reorganized

Next ==
    \/ \E rs \in SUBSET granted : Revoke(rs)
    \/ \E g \in Groups, p \in People : Submit(g, p)
    \/ \E r \in DOMAIN ledger, p \in People :
          Support(r, p) \/ Approve(r, p) \/ Deny(r, p)
    \/ \E r \in DOMAIN ledger, status \in {"cancelled", "expired"} : Close(r, status)

workflow == <<ledger, votes, granted, owners>>
Spec == Init /\ [][Next]_workflow

\* A membership in force was approved by somebody who voted for it.
Accounted ==
    \A r \in granted :
        /\ r \in DOMAIN ledger
        /\ ledger[r].status = "approved"
        /\ Vote(r, ledger[r].decidedBy, "approved") \in votes

\* What is decided stays decided, and a membership that ended stays ended.
Settled ==
    [][\A r \in DOMAIN ledger : ~Pending(r) =>
          /\ ledger'[r] = ledger[r]
          /\ r \notin granted => r \notin granted']_workflow
===============================================================================
