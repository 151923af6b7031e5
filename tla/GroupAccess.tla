----------------------------- MODULE GroupAccess -----------------------------
(***************************************************************************)
(* The group access workflow of apps/api/services/group_membership: access *)
(* requests, the approvals of a group's owners, the memberships they grant *)
(* and the jobs that expire memberships and stale requests.                *)
(*                                                                         *)
(* Every operation is a request handler of the API (or a maintenance job)  *)
(* that reads rows, decides, and writes them back: nothing it read is      *)
(* locked, so another handler may commit between any two of its steps.  A  *)
(* handler is an element of Handlers; job[h] holds its local variables and *)
(* the place it has reached.  One step is one database transaction or one  *)
(* read whose result is used later.                                        *)
(*                                                                         *)
(* The audit rows the handlers append are left out: nothing reads them.    *)
(***************************************************************************)
EXTENDS Naturals, Sequences, FiniteSets

CONSTANTS
    Identities,     \* people with an identity row
    Groups,         \* identity_groups rows
    Targets,        \* the groups people ask to join
    None,           \* NULL
    Handlers,       \* API workers that run one operation at a time
    Ops,            \* the operations a run exercises, a subset of AllOps
    InitGroups,     \* the group tables a behaviour may start from
    InitMembers,    \* <<group, identity>> pairs that are members at the start
    GroupUpdates,   \* arguments of update_group, None for "leave alone"
    Linked,         \* identities whose attributes carry a provider id
    Expiries,       \* values of expires_at that callers send
    StaleDays,      \* the days argument of process_stale_requests
    Crashes,        \* TRUE if a handler may die between two of its steps
    MaxOps,         \* bound: operations begun in a behaviour
    MaxClock        \* bound: days that pass in a behaviour

AllOps == {"create", "approve", "deny", "cancel", "add", "remove",
           "update", "sweep", "stale"}

Modes == {"any", "all", "threshold", "unset"}
Statuses == {"pending", "approved", "denied", "expired", "cancelled"}
Decisions == {"approved", "denied"}

GroupRow ==
    [owner: Identities \union {None}, ownerGroup: Groups \union {None},
     mode: Modes, threshold: Nat, synced: BOOLEAN]

GroupUpdate ==
    [owner: Identities \union {None}, ownerGroup: Groups \union {None},
     mode: Modes \union {None}, threshold: Nat \union {None},
     synced: BOOLEAN \union {None}]

Expiry == Nat \union {None}

MembershipRow ==
    [id: Nat \ {0}, group: Groups, identity: Identities, via: Nat,
     expires: Expiry, linked: BOOLEAN, synced: BOOLEAN]

RequestRow ==
    [group: Groups, requester: Identities, status: Statuses, expires: Expiry,
     created: Nat, decidedBy: Identities \union {None}]

ApprovalRow == [request: Nat, approver: Identities, decision: Decisions]

(***************************************************************************)
(* Where a handler stands.  The label names the step it takes next.        *)
(***************************************************************************)
Places == {"idle", "create_pending", "create_insert",
           "approve_owner", "approve_record", "approve_count",
           "approve_finalize", "approve_sync", "approve_next",
           "deny_owner", "deny_write", "cancel_write",
           "add_insert", "add_sync", "remove_sync", "remove_delete",
           "sweep_sync", "sweep_delete", "stale_write"}

\* row is the request or membership the step is about; todo the requests a bulk
\* call still has to approve, or a job to expire; expired the memberships the
\* sweep selected and has not reached.
Job ==
    [pc: Places, actor: Identities \union {None}, group: Groups \union {None},
     identity: Identities \union {None}, expires: Expiry, linked: BOOLEAN,
     row: Nat, todo: SUBSET Nat, expired: SUBSET MembershipRow]

ASSUME ConstantsAssumption ==
    /\ None \notin Identities /\ None \notin Groups /\ None \notin Nat
    /\ Ops \subseteq AllOps /\ Targets \subseteq Groups
    /\ InitGroups \subseteq [Groups -> GroupRow]
    /\ GroupUpdates \subseteq GroupUpdate
    /\ InitMembers \in Seq(Groups \X Identities)
    /\ Linked \subseteq Identities
    /\ Expiries \subseteq Expiry
    /\ StaleDays \in Nat /\ MaxOps \in Nat /\ MaxClock \in Nat
    /\ Crashes \in BOOLEAN

VARIABLES
    groups,         \* identity_groups
    memberships,    \* identity_group_memberships
    lastId,         \* the serial of identity_group_memberships
    requests,       \* group_access_requests, in order of id
    approvals,      \* group_access_approvals, in order of id
    job,            \* the handlers
    clock,          \* days passed
    begun           \* operations begun, for MaxOps

vars == <<groups, memberships, lastId, requests, approvals, job, clock, begun>>
tables == <<groups, memberships, lastId, requests, approvals>>

Idle ==
    [pc |-> "idle", actor |-> None, group |-> None, identity |-> None,
     expires |-> None, linked |-> FALSE, row |-> 0, todo |-> {}, expired |-> {}]

Init ==
    /\ groups \in InitGroups
    /\ memberships =
         {[id |-> k, group |-> InitMembers[k][1], identity |-> InitMembers[k][2],
           via |-> 0, expires |-> None, linked |-> FALSE, synced |-> FALSE]
            : k \in DOMAIN InitMembers}
    /\ lastId = Len(InitMembers)
    /\ requests = <<>>
    /\ approvals = <<>>
    /\ job = [h \in Handlers |-> Idle]
    /\ clock = 0
    /\ begun = 0

-----------------------------------------------------------------------------
(***************************************************************************)
(* Queries                                                                 *)
(***************************************************************************)
RowsOf(g, i) == {m \in memberships : m.group = g /\ m.identity = i}
IsMember(g, i) == \E m \in memberships : m.group = g /\ m.identity = i
MembersOf(g) == {m \in memberships : m.group = g}

HasPending(g, i) ==
    \E r \in DOMAIN requests :
        /\ requests[r].group = g
        /\ requests[r].requester = i
        /\ requests[r].status = "pending"

is_group_owner(i, g) ==
    \/ groups[g].owner = i
    \/ groups[g].ownerGroup # None /\ IsMember(groups[g].ownerGroup, i)

\* Rows, not people: an owner who also sits in the owning group counts twice,
\* and a group that nobody owns counts one.
count_group_owners(g) ==
    LET direct == IF groups[g].owner # None THEN 1 ELSE 0
        viaGroup == IF groups[g].ownerGroup # None
                    THEN Cardinality(MembersOf(groups[g].ownerGroup)) ELSE 0
    IN  IF direct + viaGroup = 0 THEN 1 ELSE direct + viaGroup

ApprovalsOf(r) ==
    {k \in DOMAIN approvals :
        approvals[k].request = r /\ approvals[k].decision = "approved"}

\* Slip: a single vote has to be exceeded.
check_approval_any_slip(r) ==
    LET g == requests[r].group
        votes == Cardinality(ApprovalsOf(r))
    IN  \/ groups[g].mode = "any" /\ votes > 1
        \/ groups[g].mode = "all" /\ votes >= count_group_owners(g)
        \/ groups[g].mode = "threshold" /\ votes >= groups[g].threshold

\* A mode that is none of the three names (a NULL column) never completes.
check_approval_complete(r) ==
    LET g == requests[r].group
        votes == Cardinality(ApprovalsOf(r))
    IN  \/ groups[g].mode = "any" /\ votes >= 1
        \/ groups[g].mode = "all" /\ votes >= count_group_owners(g)
        \/ /\ groups[g].mode = "threshold"
           /\ votes >= IF groups[g].threshold = 0 THEN 1 ELSE groups[g].threshold

Lapsed(m) == m.expires # None /\ m.expires < clock

-----------------------------------------------------------------------------
(***************************************************************************)
(* Handler bookkeeping                                                     *)
(***************************************************************************)
At(h, place) == job[h].pc = place
Goto(h, place) == job' = [job EXCEPT ![h].pc = place]
Finish(h) == job' = [job EXCEPT ![h] = Idle]

Begin(h, op, j) ==
    /\ op \in Ops
    /\ At(h, "idle")
    /\ begun < MaxOps
    /\ begun' = begun + 1
    /\ job' = [job EXCEPT ![h] = j]
    /\ UNCHANGED clock

Step(h, place) == At(h, place) /\ UNCHANGED <<clock, begun>>

InsertMembership(g, i, via, expires, linked) ==
    /\ lastId' = lastId + 1
    /\ memberships' = memberships \union
         {[id |-> lastId + 1, group |-> g, identity |-> i, via |-> via,
           expires |-> expires, linked |-> linked, synced |-> FALSE]}

\* Slip: the delete goes by the pair of the row instead of its id.
DeleteMembership_slip(id) ==
    memberships' = {m \in memberships :
        \A n \in memberships : n.id = id =>
            ~(m.group = n.group /\ m.identity = n.identity)}

DeleteMembership(id) == memberships' = {m \in memberships : m.id # id}

\* The provider call itself is still to be written in the source; what the
\* function changes is the flag of the first row it finds for the pair.
sync_membership_to_provider(g, i) ==
    \/ RowsOf(g, i) = {} /\ UNCHANGED memberships
    \/ \E m \in RowsOf(g, i) :
          memberships' = IF groups[g].synced /\ m.linked
                         THEN (memberships \ {m}) \union {[m EXCEPT !.synced = TRUE]}
                         ELSE memberships

-----------------------------------------------------------------------------
(***************************************************************************)
(* create_access_request: two checks, then the insert.                     *)
(***************************************************************************)
CreateCheckMember(h) ==
    \E g \in Targets, i \in Identities, e \in Expiries :
        /\ ~IsMember(g, i)
        /\ Begin(h, "create", [Idle EXCEPT !.pc = "create_pending", !.group = g,
                                           !.identity = i, !.expires = e])
        /\ UNCHANGED tables

\* Slip: the query for a pending request forgets the requester's own rows.
CreateCheckPending_slip(h) ==
    /\ Step(h, "create_pending")
    /\ Goto(h, "create_insert")
    /\ UNCHANGED tables

CreateCheckPending(h) ==
    /\ Step(h, "create_pending")
    /\ IF HasPending(job[h].group, job[h].identity)
       THEN Finish(h) ELSE Goto(h, "create_insert")
    /\ UNCHANGED tables

CreateInsert(h) ==
    /\ Step(h, "create_insert")
    /\ requests' = Append(requests,
         [group |-> job[h].group, requester |-> job[h].identity,
          status |-> "pending", expires |-> job[h].expires,
          created |-> clock, decidedBy |-> None])
    /\ Finish(h)
    /\ UNCHANGED <<groups, memberships, lastId, approvals>>

(***************************************************************************)
(* approve_request, alone or as one round of bulk_approve_requests.  A bulk *)
(* call goes on with the next id whatever became of the last one; an id    *)
(* that occurs twice is two calls of the same actor.                       *)
(***************************************************************************)
\* Slip: approve_request starts on a request whatever its status.
ApproveRead_slip(h) ==
    \E a \in Identities, r \in DOMAIN requests :
    \E rest \in SUBSET (DOMAIN requests \ {r}) :
        /\ Begin(h, "approve", [Idle EXCEPT !.pc = "approve_owner", !.actor = a,
                                            !.row = r, !.todo = rest])
        /\ UNCHANGED tables

ApproveRead(h) ==
    \E a \in Identities, r \in DOMAIN requests :
    \E rest \in SUBSET (DOMAIN requests \ {r}) :
        /\ requests[r].status = "pending"
        /\ Begin(h, "approve", [Idle EXCEPT !.pc = "approve_owner", !.actor = a,
                                            !.row = r, !.todo = rest])
        /\ UNCHANGED tables

ApproveNext(h) ==
    /\ Step(h, "approve_next")
    /\ \/ job[h].todo = {} /\ Finish(h)
       \/ \E r \in job[h].todo :
             job' = [job EXCEPT
                 ![h].row = r,
                 ![h].todo = @ \ {r},
                 ![h].pc = IF requests[r].status = "pending"
                           THEN "approve_owner" ELSE "approve_next"]
    /\ UNCHANGED tables

ApproveAuthorize(h) ==
    /\ Step(h, "approve_owner")
    /\ IF is_group_owner(job[h].actor, requests[job[h].row].group)
       THEN Goto(h, "approve_record") ELSE Goto(h, "approve_next")
    /\ UNCHANGED tables

ApproveRecord(h) ==
    /\ Step(h, "approve_record")
    /\ approvals' = Append(approvals,
         [request |-> job[h].row, approver |-> job[h].actor,
          decision |-> "approved"])
    /\ Goto(h, "approve_count")
    /\ UNCHANGED <<groups, memberships, lastId, requests>>

\* Slip: a bulk call takes the votes for granted.
ApproveCount_slip(h) ==
    /\ Step(h, "approve_count")
    /\ IF check_approval_complete(job[h].row) \/ job[h].todo # {}
       THEN Goto(h, "approve_finalize") ELSE Goto(h, "approve_next")
    /\ UNCHANGED tables

ApproveCount(h) ==
    /\ Step(h, "approve_count")
    /\ IF check_approval_complete(job[h].row)
       THEN Goto(h, "approve_finalize") ELSE Goto(h, "approve_next")
    /\ UNCHANGED tables

\* Slip: the membership is given to the approver.
ApproveFinalize_slip(h) ==
    LET r == job[h].row
    IN  /\ Step(h, "approve_finalize")
        /\ InsertMembership(requests[r].group, job[h].actor, r,
                            requests[r].expires, FALSE)
        /\ requests' = [requests EXCEPT ![r].status = "approved",
                                        ![r].decidedBy = job[h].actor]
        /\ Goto(h, "approve_next")
        /\ UNCHANGED <<groups, approvals>>

\* Slip: the membership is committed and the request left pending.
ApproveFinalize_open_slip(h) ==
    LET r == job[h].row
    IN  /\ Step(h, "approve_finalize")
        /\ InsertMembership(requests[r].group, requests[r].requester, r,
                            requests[r].expires, FALSE)
        /\ Goto(h, "approve_next")
        /\ UNCHANGED <<groups, requests, approvals>>

\* _finalize_approval: the membership and the status in one transaction, with
\* no second look at the status.
ApproveFinalize(h) ==
    LET r == job[h].row
        q == requests[r]
    IN  /\ Step(h, "approve_finalize")
        /\ InsertMembership(q.group, q.requester, r, q.expires,
                            q.requester \in Linked)
        /\ requests' = [requests EXCEPT ![r].status = "approved",
                                        ![r].decidedBy = job[h].actor]
        /\ Goto(h, IF groups[q.group].synced THEN "approve_sync" ELSE "approve_next")
        /\ UNCHANGED <<groups, approvals>>

ApproveSync(h) ==
    /\ Step(h, "approve_sync")
    /\ sync_membership_to_provider(requests[job[h].row].group,
                                   requests[job[h].row].requester)
    /\ Goto(h, "approve_next")
    /\ UNCHANGED <<groups, lastId, requests, approvals>>

(***************************************************************************)
(* deny_request and cancel_request                                         *)
(***************************************************************************)
DenyRead(h) ==
    \E a \in Identities, r \in DOMAIN requests :
        /\ requests[r].status = "pending"
        /\ Begin(h, "deny", [Idle EXCEPT !.pc = "deny_owner", !.actor = a, !.row = r])
        /\ UNCHANGED tables

\* Slip: no look at who denies.
DenyAuthorize_slip(h) ==
    /\ Step(h, "deny_owner")
    /\ Goto(h, "deny_write")
    /\ UNCHANGED tables

DenyAuthorize(h) ==
    /\ Step(h, "deny_owner")
    /\ IF is_group_owner(job[h].actor, requests[job[h].row].group)
       THEN Goto(h, "deny_write") ELSE Finish(h)
    /\ UNCHANGED tables

\* Slip: the denial is written to the request only.
DenyWrite_slip(h) ==
    /\ Step(h, "deny_write")
    /\ requests' = [requests EXCEPT ![job[h].row].status = "denied",
                                    ![job[h].row].decidedBy = job[h].actor]
    /\ Finish(h)
    /\ UNCHANGED <<groups, memberships, lastId, approvals>>

DenyWrite(h) ==
    LET r == job[h].row
    IN  /\ Step(h, "deny_write")
        /\ approvals' = Append(approvals,
             [request |-> r, approver |-> job[h].actor, decision |-> "denied"])
        /\ requests' = [requests EXCEPT ![r].status = "denied",
                                        ![r].decidedBy = job[h].actor]
        /\ Finish(h)
        /\ UNCHANGED <<groups, memberships, lastId>>

\* Slip: no look at the status before the update.
CancelRead_slip(h) ==
    \E r \in DOMAIN requests :
        /\ Begin(h, "cancel", [Idle EXCEPT !.pc = "cancel_write", !.row = r,
                                           !.actor = requests[r].requester])
        /\ UNCHANGED tables

\* The requester of a row never changes, so the actor is the requester.
CancelRead(h) ==
    \E r \in DOMAIN requests :
        /\ requests[r].status = "pending"
        /\ Begin(h, "cancel", [Idle EXCEPT !.pc = "cancel_write", !.row = r,
                                           !.actor = requests[r].requester])
        /\ UNCHANGED tables

\* Slip: the American spelling of the status.
CancelWrite_slip(h) ==
    /\ Step(h, "cancel_write")
    /\ requests' = [requests EXCEPT ![job[h].row].status = "canceled"]
    /\ Finish(h)
    /\ UNCHANGED <<groups, memberships, lastId, approvals>>

CancelWrite(h) ==
    /\ Step(h, "cancel_write")
    /\ requests' = [requests EXCEPT ![job[h].row].status = "cancelled"]
    /\ Finish(h)
    /\ UNCHANGED <<groups, memberships, lastId, approvals>>

(***************************************************************************)
(* add_member and remove_member, called by an owner, an administrator or   *)
(* the member: the endpoints let an administrator act on every group.      *)
(***************************************************************************)
AddCheck(h) ==
    \E g \in Groups, i \in Identities, e \in Expiries, linked \in BOOLEAN :
        /\ ~IsMember(g, i)
        /\ linked => i \in Linked
        /\ Begin(h, "add", [Idle EXCEPT !.pc = "add_insert", !.group = g,
                              !.identity = i, !.expires = e, !.linked = linked])
        /\ UNCHANGED tables

AddInsert(h) ==
    /\ Step(h, "add_insert")
    /\ InsertMembership(job[h].group, job[h].identity, 0, job[h].expires,
                        job[h].linked)
    /\ IF groups[job[h].group].synced THEN Goto(h, "add_sync") ELSE Finish(h)
    /\ UNCHANGED <<groups, requests, approvals>>

AddSync(h) ==
    /\ Step(h, "add_sync")
    /\ sync_membership_to_provider(job[h].group, job[h].identity)
    /\ Finish(h)
    /\ UNCHANGED <<groups, lastId, requests, approvals>>

\* The first row the query returns, whichever it is; its id is what the delete uses.
RemoveFind(h) ==
    \E m \in memberships :
        /\ Begin(h, "remove",
             [Idle EXCEPT !.pc = IF groups[m.group].synced
                                 THEN "remove_sync" ELSE "remove_delete",
                          !.group = m.group, !.identity = m.identity, !.row = m.id])
        /\ UNCHANGED tables

RemoveSync(h) ==
    /\ Step(h, "remove_sync")
    /\ sync_membership_to_provider(job[h].group, job[h].identity)
    /\ Goto(h, "remove_delete")
    /\ UNCHANGED <<groups, lastId, requests, approvals>>

RemoveDelete(h) ==
    /\ Step(h, "remove_delete")
    /\ DeleteMembership(job[h].row)
    /\ Finish(h)
    /\ UNCHANGED <<groups, lastId, requests, approvals>>

(***************************************************************************)
(* update_group: an argument that is None leaves its column alone, so an   *)
(* owner can be replaced but never cleared.                                *)
(***************************************************************************)
Given(new, old) == IF new # None THEN new ELSE old

UpdateGroup(h) ==
    \E g \in Groups, u \in GroupUpdates :
        /\ Begin(h, "update", Idle)
        /\ groups' = [groups EXCEPT
               ![g] = [owner |-> Given(u.owner, @.owner),
                       ownerGroup |-> Given(u.ownerGroup, @.ownerGroup),
                       mode |-> Given(u.mode, @.mode),
                       threshold |-> Given(u.threshold, @.threshold),
                       synced |-> Given(u.synced, @.synced)]]
        /\ UNCHANGED <<memberships, lastId, requests, approvals>>

(***************************************************************************)
(* process_expired_memberships and process_stale_requests: one query, then *)
(* a transaction per row of its result.                                    *)
(***************************************************************************)
SweepSelect(h) ==
    /\ Begin(h, "sweep", [Idle EXCEPT !.pc = "sweep_sync",
                              !.expired = {m \in memberships : Lapsed(m)}])
    /\ \E m \in memberships : Lapsed(m)
    /\ UNCHANGED tables

SweepSync(h) ==
    /\ Step(h, "sweep_sync")
    /\ \E m \in job[h].expired :
          /\ IF groups[m.group].synced
             THEN sync_membership_to_provider(m.group, m.identity)
             ELSE UNCHANGED memberships
          /\ job' = [job EXCEPT ![h].pc = "sweep_delete", ![h].row = m.id,
                                ![h].expired = @ \ {m}]
    /\ UNCHANGED <<groups, lastId, requests, approvals>>

SweepDelete(h) ==
    /\ Step(h, "sweep_delete")
    /\ DeleteMembership(job[h].row)
    /\ IF job[h].expired = {} THEN Finish(h) ELSE Goto(h, "sweep_sync")
    /\ UNCHANGED <<groups, lastId, requests, approvals>>

StaleSelect(h) ==
    LET stale == {r \in DOMAIN requests : /\ requests[r].status = "pending"
                                          /\ requests[r].created + StaleDays < clock}
    IN  /\ stale # {}
        /\ Begin(h, "stale", [Idle EXCEPT !.pc = "stale_write", !.todo = stale])
        /\ UNCHANGED tables

StaleWrite(h) ==
    /\ Step(h, "stale_write")
    /\ \E r \in job[h].todo :
          /\ requests' = [requests EXCEPT ![r].status = "expired"]
          /\ IF job[h].todo = {r} THEN Finish(h)
             ELSE job' = [job EXCEPT ![h].todo = @ \ {r}]
    /\ UNCHANGED <<groups, memberships, lastId, approvals>>

-----------------------------------------------------------------------------
(***************************************************************************)
(* A handler that dies between two steps loses its local variables; what   *)
(* it committed stays.  A day passes.                                      *)
(***************************************************************************)
Crash(h) ==
    /\ Crashes
    /\ ~At(h, "idle")
    /\ Finish(h)
    /\ UNCHANGED <<groups, memberships, lastId, requests, approvals, clock, begun>>

Tick ==
    /\ clock < MaxClock
    /\ clock' = clock + 1
    /\ UNCHANGED <<groups, memberships, lastId, requests, approvals, job, begun>>

Call(h) ==
    \/ CreateCheckMember(h) \/ ApproveRead(h) \/ DenyRead(h) \/ CancelRead(h)
    \/ AddCheck(h) \/ RemoveFind(h) \/ UpdateGroup(h)
    \/ SweepSelect(h) \/ StaleSelect(h)

Continue(h) ==
    \/ CreateCheckPending(h) \/ CreateInsert(h)
    \/ ApproveNext(h) \/ ApproveAuthorize(h) \/ ApproveRecord(h)
    \/ ApproveCount(h) \/ ApproveFinalize(h) \/ ApproveSync(h)
    \/ DenyAuthorize(h) \/ DenyWrite(h) \/ CancelWrite(h)
    \/ AddInsert(h) \/ AddSync(h) \/ RemoveSync(h) \/ RemoveDelete(h)
    \/ SweepSync(h) \/ SweepDelete(h) \/ StaleWrite(h)

Next == Tick \/ \E h \in Handlers : Call(h) \/ Continue(h) \/ Crash(h)

Spec == Init /\ [][Next]_vars

\* A handler that has been called runs to its end unless its process dies;
\* nobody is obliged to call one.
FairSpec == Spec /\ \A h \in Handlers : WF_vars(Continue(h))

-----------------------------------------------------------------------------
(***************************************************************************)
(* Properties                                                              *)
(***************************************************************************)

\* Every row of every table and every handler's locals have their type.
TypeOK ==
    /\ groups \in [Groups -> GroupRow]
    /\ memberships \subseteq MembershipRow
    /\ lastId \in Nat
    /\ requests \in Seq(RequestRow)
    /\ approvals \in Seq(ApprovalRow)
    /\ job \in [Handlers -> Job]
    /\ clock \in Nat
    /\ begun \in Nat

HasVote(r, decision) ==
    \E k \in DOMAIN approvals :
        approvals[k].request = r /\ approvals[k].decision = decision

\* A membership that names a request as its origin belongs to the requester of
\* that request, in the group asked for, with the expiry asked for, and somebody
\* approved the request: whatever the interleaving, no grant is unaccounted for.
GrantsTraceToApproval ==
    \A m \in memberships : m.via # 0 =>
        /\ m.via \in DOMAIN requests
        /\ requests[m.via].group = m.group
        /\ requests[m.via].requester = m.identity
        /\ requests[m.via].expires = m.expires
        /\ HasVote(m.via, "approved")

\* Whoever a row names as the one who approved or denied it has a row in
\* group_access_approvals that says the same, although status and vote are
\* written by different transactions of approve_request.
DecisionsBacked ==
    \A r \in DOMAIN requests : requests[r].status \in Decisions =>
        \E k \in DOMAIN approvals :
            /\ approvals[k].request = r
            /\ approvals[k].approver = requests[r].decidedBy
            /\ approvals[k].decision = requests[r].status

\* Handler h is on its way to write to request r.
Holds(h, r) ==
    \/ /\ job[h].pc \in {"approve_owner", "approve_record", "approve_count",
                         "approve_finalize", "deny_owner", "deny_write",
                         "cancel_write"}
       /\ job[h].row = r
    \/ job[h].pc = "stale_write" /\ r \in job[h].todo

\* A handler takes hold of a request only while the request is pending, and a
\* decided request changes its status only in the hands of a handler that holds
\* it: one that read it before it was decided.  With none left a decision is final.
OnlyInFlightOverwrites ==
    [][\A r \in DOMAIN requests :
          /\ (requests[r].status # "pending" /\ requests'[r].status # requests[r].status)
                => \E h \in Handlers : Holds(h, r)
          /\ \A h \in Handlers : (~Holds(h, r) /\ Holds(h, r)')
                => requests[r].status = "pending"]_vars

\* When handlers run one at a time a decision is final.
DecisionFinal ==
    [][\A r \in DOMAIN requests :
          requests[r].status # "pending"
             => requests'[r].status = requests[r].status]_vars

\* One at a time, nobody has two pending requests for a group.
OnePendingPerRequester ==
    \A r, s \in DOMAIN requests :
        /\ requests[r].status = "pending" /\ requests[s].status = "pending"
        /\ requests[r].group = requests[s].group
        /\ requests[r].requester = requests[s].requester
        => r = s

\* One at a time, a pair of group and identity has at most one membership given
\* by an administrator and at most one granted through a request.  (Both at once
\* is possible: add_member does not look at pending requests and
\* _finalize_approval does not look at memberships.)
AtMostOneGrant ==
    \A m, n \in memberships :
        /\ m.group = n.group /\ m.identity = n.identity
        /\ (m.via = 0) = (n.via = 0)
        => m = n

\* One at a time, a vote is cast only on a pending request and by a person who
\* owns its group at that moment, directly or through the owning group.
OnlyOwnersDecide ==
    [][\A k \in DOMAIN approvals' \ DOMAIN approvals :
          /\ requests[approvals'[k].request].status = "pending"
          /\ is_group_owner(approvals'[k].approver,
                            requests[approvals'[k].request].group)]_vars

\* One at a time, a request becomes approved only in a state where its group's
\* mode, as it is now, is satisfied by the votes recorded.
ApprovedOnlyWhenComplete ==
    [][\A r \in DOMAIN requests :
          (requests'[r].status = "approved" /\ requests[r].status # "approved")
             => check_approval_complete(r)]_vars

\* A membership row disappears because it lapsed or because remove_member picked
\* a row of the same pair, never as a side effect of work on another row.
RowsLeaveForAReason ==
    [][\A m \in memberships :
          (\A n \in memberships' : n.id # m.id) =>
              \/ Lapsed(m)
              \/ \E h \in Handlers : /\ job[h].pc = "remove_delete"
                                     /\ job[h].row = m.id]_vars

\* Between its check and its insert a handler looks at nothing any more, so a person
\* may come to have several pending requests for a group, but no more than there
\* are handlers: none begins an insert while one of them is pending.
PendingPerHandler ==
    \A g \in Groups, i \in Identities :
        Cardinality({r \in DOMAIN requests :
            /\ requests[r].status = "pending"
            /\ requests[r].group = g /\ requests[r].requester = i})
        <= Cardinality(Handlers)

\* A request grants at most one membership per handler: each has to read it while
\* it is pending, and what has been granted is never pending again.
GrantsPerHandler ==
    \A r \in DOMAIN requests :
        Cardinality({m \in memberships : m.via = r}) <= Cardinality(Handlers)

(***************************************************************************)
(* One at a time, the handlers implement the workflow: each of their steps *)
(* is a step of AccessWorkflow or changes nothing a user of it can see.    *)
(***************************************************************************)
Ledger ==
    [r \in DOMAIN requests |->
        [group |-> requests[r].group, requester |-> requests[r].requester,
         status |-> requests[r].status, decidedBy |-> requests[r].decidedBy]]
Votes == {approvals[k] : k \in DOMAIN approvals}
Granted == {m.via : m \in memberships} \ {0}
OwnersOf == [g \in Groups |-> {i \in Identities : is_group_owner(i, g)}]

Workflow == INSTANCE AccessWorkflow WITH
    People <- Identities, Nobody <- None,
    ledger <- Ledger, votes <- Votes, granted <- Granted, owners <- OwnersOf

\* Votes and statuses are committed by different transactions, and the process may
\* die between them: what users see is still the workflow.
FollowsWorkflow == Workflow!Spec

\* Where one owner's vote is enough, a vote decides: when no process dies, a
\* request somebody approved does not stay pending.
VoteDecides ==
    \A r \in 1..MaxOps :
        (/\ r \in DOMAIN requests
         /\ groups[requests[r].group].mode = "any"
         /\ HasVote(r, "approved"))
        ~> (r \in DOMAIN requests /\ requests[r].status # "pending")

(***************************************************************************)
(* What the documentation says and the code does not do                    *)
(***************************************************************************)
Owners(g) == {i \in Identities : is_group_owner(i, g)}
Voters(r) == {approvals[k].approver : k \in ApprovalsOf(r)}

\* "All owners must approve", "N owners must approve": an approved request was
\* approved by every owner, or by as many different people as the threshold.
OwnersApproved ==
    \A r \in DOMAIN requests : requests[r].status = "approved" =>
        LET g == requests[r].group
        IN  /\ groups[g].mode = "all" => Owners(g) \subseteq Voters(r)
            /\ groups[g].mode = "threshold"
                  => Cardinality(Voters(r)) >= groups[g].threshold

\* "400: Request not pending": a request that was denied or cancelled is not
\* approved afterwards.
NoApprovalAfterRefusal ==
    [][\A r \in DOMAIN requests :
          requests[r].status \in {"denied", "cancelled"}
             => requests'[r].status # "approved"]_vars
=============================================================================
