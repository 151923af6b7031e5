-------------------------- MODULE GroupAccessProofs --------------------------
(***************************************************************************)
(* Theorems about GroupAccess, for every value of its constants.           *)
(*                                                                         *)
(* What a handler read earlier is what makes its later write right, so the *)
(* inductive invariant IInv adds to the properties what the locals of a    *)
(* handler promise at each place (LocalOK).  The promises of one handler   *)
(* survive the steps of the others because the tables they speak of only   *)
(* grow (Grows): a request keeps its group, requester and expiry, a vote   *)
(* stays.                                                                  *)
(***************************************************************************)
EXTENDS GroupAccess, SequenceTheorems, TLAPS

OnRequest == {"approve_owner", "approve_record", "approve_count",
              "approve_finalize", "approve_sync", "deny_owner", "deny_write",
              "cancel_write"}

Approving == {"approve_owner", "approve_record", "approve_count",
              "approve_finalize", "approve_sync", "approve_next"}

Voted(r, a) ==
    \E k \in DOMAIN approvals :
        /\ approvals[k].request = r
        /\ approvals[k].approver = a
        /\ approvals[k].decision = "approved"

\* What handler h can rely on at the place it has reached.
LocalOK(h) ==
    /\ job[h].pc \in OnRequest => job[h].row \in DOMAIN requests
    /\ job[h].pc \in Approving \union {"stale_write"}
          => job[h].todo \subseteq DOMAIN requests
    /\ job[h].pc \in Approving \union {"deny_owner", "deny_write"}
          => job[h].actor \in Identities
    /\ job[h].pc \in {"create_pending", "create_insert", "add_insert"}
          => job[h].group \in Groups /\ job[h].identity \in Identities
    /\ job[h].pc \in {"approve_count", "approve_finalize"}
          => Voted(job[h].row, job[h].actor)

LocalsOK == \A h \in Handlers : LocalOK(h)

IInv == TypeOK /\ LocalsOK /\ GrantsTraceToApproval /\ DecisionsBacked

\* No step loses a request or a vote, or changes what a request asks for.
Grows ==
    /\ \A r \in DOMAIN requests :
          /\ r \in DOMAIN requests'
          /\ requests'[r].group = requests[r].group
          /\ requests'[r].requester = requests[r].requester
          /\ requests'[r].expires = requests[r].expires
    /\ \A k \in DOMAIN approvals :
          k \in DOMAIN approvals' /\ approvals'[k] = approvals[k]

OthersWait(h) == \A k \in Handlers \ {h} : job'[k] = job[k]

-----------------------------------------------------------------------------
(***************************************************************************)
(* Handler bookkeeping                                                     *)
(***************************************************************************)
\* An idle handler has the type of a handler.
LEMMA IdleType == Idle \in Job
  BY ConstantsAssumption DEF Idle, Job, Places, Expiry

\* Moving on changes where one handler stands and nothing else of it.
LEMMA GotoEffect ==
  ASSUME TypeOK, NEW h \in Handlers, NEW p \in Places, Goto(h, p)
  PROVE  /\ job' \in [Handlers -> Job]
         /\ job'[h] = [job[h] EXCEPT !.pc = p]
         /\ OthersWait(h)
  BY DEF TypeOK, Goto, Job, OthersWait

\* A handler that finishes is idle, and the others stay where they are.
LEMMA FinishEffect ==
  ASSUME TypeOK, NEW h \in Handlers, Finish(h)
  PROVE  /\ job' \in [Handlers -> Job]
         /\ job'[h] = Idle
         /\ OthersWait(h)
  BY IdleType DEF TypeOK, Finish, OthersWait

\* Nothing is promised of an idle handler.
LEMMA IdleLocalOK ==
  ASSUME NEW h \in Handlers, job'[h] = Idle
  PROVE  LocalOK(h)'
  BY DEF LocalOK, Idle, OnRequest, Approving

\* A call that begins gives its handler the locals it starts with.
LEMMA BeginEffect ==
  ASSUME TypeOK, NEW h \in Handlers, NEW j \in Job, NEW op, Begin(h, op, j)
  PROVE  /\ job' \in [Handlers -> Job]
         /\ job'[h] = j
         /\ OthersWait(h)
         /\ clock' \in Nat /\ begun' \in Nat
  BY DEF TypeOK, Begin, OthersWait

-----------------------------------------------------------------------------
(***************************************************************************)
(* What a step leaves alone                                                *)
(***************************************************************************)
\* What a handler relies on survives the steps of others.
LEMMA StillOK ==
  ASSUME Grows, NEW k \in Handlers, LocalOK(k), job'[k] = job[k]
  PROVE  LocalOK(k)'
  BY DEF Grows, LocalOK, Voted

\* After a step of one handler only its own locals have to be looked at.
LEMMA LocalsFromOne ==
  ASSUME LocalsOK, Grows, NEW h \in Handlers, OthersWait(h), LocalOK(h)'
  PROVE  LocalsOK'
  BY StillOK DEF LocalsOK, OthersWait

\* A step that writes no table keeps what is said of the tables.
LEMMA TablesAlone ==
  ASSUME IInv, UNCHANGED tables
  PROVE  Grows /\ GrantsTraceToApproval' /\ DecisionsBacked'
  BY DEF IInv, tables, Grows, GrantsTraceToApproval, DecisionsBacked, HasVote

\* A step that writes neither requests nor votes keeps the decisions backed.
LEMMA RequestsAlone ==
  ASSUME IInv, UNCHANGED <<requests, approvals>>
  PROVE  Grows /\ DecisionsBacked'
  BY DEF IInv, Grows, DecisionsBacked

\* Grants stay accounted for when memberships are left alone.
LEMMA GrantsKept ==
  ASSUME IInv, Grows, UNCHANGED memberships
  PROVE  GrantsTraceToApproval'
  BY DEF IInv, Grows, GrantsTraceToApproval, HasVote

-----------------------------------------------------------------------------
(***************************************************************************)
(* Steps that read, and write nothing but the handler's own locals         *)
(***************************************************************************)

\* What is left to show of a step by h that leaves the tables alone.
LEMMA ReadStep ==
  ASSUME IInv, NEW h \in Handlers, UNCHANGED tables, OthersWait(h),
         job' \in [Handlers -> Job], clock' \in Nat, begun' \in Nat, LocalOK(h)'
  PROVE  IInv'
<1>1. TypeOK'
  BY DEF IInv, TypeOK, tables
<1>2. Grows /\ GrantsTraceToApproval' /\ DecisionsBacked'
  BY TablesAlone
<1>3. LocalsOK'
  BY <1>2, LocalsFromOne DEF IInv
<1> QED  BY <1>1, <1>2, <1>3 DEF IInv

\* A handler that gives up without writing keeps the invariant.
LEMMA FinishStep ==
  ASSUME IInv, NEW h \in Handlers, UNCHANGED tables, Finish(h),
         clock' \in Nat, begun' \in Nat
  PROVE  IInv'
<1>1. job' \in [Handlers -> Job] /\ job'[h] = Idle /\ OthersWait(h)
  BY FinishEffect DEF IInv
<1> QED  BY <1>1, IdleLocalOK, ReadStep

\* The row of a request has its type.
LEMMA RequestType ==
  ASSUME TypeOK, NEW r \in DOMAIN requests
  PROVE  /\ requests[r] \in RequestRow
         /\ r \in Nat /\ r \in 1..Len(requests)
  BY ElementOfSeq, LenProperties DEF TypeOK

\* The steps that read and decide keep the invariant.
LEMMA ReadSteps ==
  ASSUME IInv, NEW h \in Handlers,
         \/ CreateCheckMember(h) \/ CreateCheckPending(h)
         \/ ApproveRead(h) \/ ApproveNext(h) \/ ApproveAuthorize(h) \/ ApproveCount(h)
         \/ DenyRead(h) \/ DenyAuthorize(h) \/ CancelRead(h)
         \/ AddCheck(h) \/ RemoveFind(h) \/ SweepSelect(h) \/ StaleSelect(h)
  PROVE  IInv'
<1> USE DEF IInv
<1>0. clock \in Nat /\ begun \in Nat
  BY DEF TypeOK
<1>1. CASE CreateCheckMember(h)
  <2>1. PICK g \in Targets, i \in Identities, e \in Expiries :
          /\ Begin(h, "create", [Idle EXCEPT !.pc = "create_pending", !.group = g,
                                              !.identity = i, !.expires = e])
          /\ UNCHANGED tables
    BY <1>1 DEF CreateCheckMember
  <2> DEFINE j == [Idle EXCEPT !.pc = "create_pending", !.group = g,
                              !.identity = i, !.expires = e]
  <2>2. j \in Job
    BY <2>1, ConstantsAssumption, IdleType DEF Job, Idle, Places
  <2>3. job' \in [Handlers -> Job] /\ job'[h] = j /\ OthersWait(h)
        /\ clock' \in Nat /\ begun' \in Nat
    BY <2>1, <2>2, BeginEffect
  <2>4. LocalOK(h)'
    BY <2>1, <2>3, ConstantsAssumption DEF LocalOK, OnRequest, Approving, Idle, tables
  <2> QED  BY <2>1, <2>3, <2>4, ReadStep
<1>2. CASE CreateCheckPending(h)
  <2>1. UNCHANGED tables /\ clock' \in Nat /\ begun' \in Nat
    BY <1>0, <1>2 DEF CreateCheckPending, Step
  <2>2. job[h].pc = "create_pending"
    BY <1>2 DEF CreateCheckPending, Step, At
  <2>3. CASE Finish(h)
    BY <2>1, <2>3, FinishStep
  <2>4. ASSUME NEW p \in {"create_insert"}, Goto(h, p)
        PROVE  IInv'
    <3>1. p \in Places
      BY DEF Places
    <3>2. job' \in [Handlers -> Job] /\ job'[h] = [job[h] EXCEPT !.pc = p] /\ OthersWait(h)
      BY <2>4, <3>1, GotoEffect
    <3>3. job[h] \in Job
      BY DEF TypeOK
    <3>4. LocalOK(h)
      BY DEF LocalsOK
    <3>5. LocalOK(h)'
      BY <2>1, <2>2, <3>2, <3>3, <3>4 DEF LocalOK, OnRequest, Approving, tables, Job, Voted
    <3> QED  BY <2>1, <3>2, <3>5, ReadStep
  <2> QED  BY <1>2, <2>3, <2>4 DEF CreateCheckPending
<1>3. CASE ApproveRead(h)
  <2>1. PICK a \in Identities, r \in DOMAIN requests, rest \in SUBSET DOMAIN requests :
          /\ Begin(h, "approve", [Idle EXCEPT !.pc = "approve_owner", !.actor = a,
                                               !.row = r, !.todo = rest])
          /\ UNCHANGED tables
    BY <1>3 DEF ApproveRead
  <2> DEFINE j == [Idle EXCEPT !.pc = "approve_owner", !.actor = a,
                              !.row = r, !.todo = rest]
  <2>2. j \in Job
    BY <2>1, ConstantsAssumption, IdleType, RequestType DEF Job, Idle, Places
  <2>3. job' \in [Handlers -> Job] /\ job'[h] = j /\ OthersWait(h)
        /\ clock' \in Nat /\ begun' \in Nat
    BY <2>1, <2>2, BeginEffect
  <2>4. LocalOK(h)'
    BY <2>1, <2>3 DEF LocalOK, OnRequest, Approving, Idle, tables
  <2> QED  BY <2>1, <2>3, <2>4, ReadStep
<1>4. CASE ApproveNext(h)
  <2>1. UNCHANGED tables /\ clock' \in Nat /\ begun' \in Nat
    BY <1>0, <1>4 DEF ApproveNext, Step
  <2>2. job[h].pc = "approve_next" /\ job[h] \in Job /\ LocalOK(h)
    BY <1>4 DEF ApproveNext, Step, At, TypeOK, LocalsOK
  <2>3. CASE Finish(h)
    BY <2>1, <2>3, FinishStep
  <2>4. ASSUME NEW r \in job[h].todo, NEW p \in {"approve_owner", "approve_next"},
               job' = [job EXCEPT ![h].row = r, ![h].todo = @ \ {r}, ![h].pc = p]
        PROVE  IInv'
    <3>1. r \in DOMAIN requests /\ job[h].todo \subseteq DOMAIN requests
          /\ job[h].actor \in Identities
      BY <2>2 DEF LocalOK, Approving
    <3>2. r \in Nat
      BY <3>1, RequestType
    <3>3. job' \in [Handlers -> Job] /\ OthersWait(h)
      BY <2>4, <3>2 DEF TypeOK, Job, Places, OthersWait
    <3>4. job'[h].row = r /\ job'[h].todo = job[h].todo \ {r} /\ job'[h].pc = p
          /\ job'[h].actor = job[h].actor
      BY <2>2, <2>4 DEF TypeOK, Job
    <3>5. LocalOK(h)'
      BY <2>1, <3>1, <3>4 DEF LocalOK, OnRequest, Approving, tables
    <3> QED  BY <2>1, <3>3, <3>5, ReadStep
  <2> QED  BY <1>4, <2>3, <2>4 DEF ApproveNext
<1>5. CASE ApproveAuthorize(h)
  <2>1. UNCHANGED tables /\ clock' \in Nat /\ begun' \in Nat
    BY <1>0, <1>5 DEF ApproveAuthorize, Step
  <2>2. job[h].pc = "approve_owner"
    BY <1>5 DEF ApproveAuthorize, Step, At
  <2>3. CASE Finish(h)
    BY <2>1, <2>3, FinishStep
  <2>4. ASSUME NEW p \in {"approve_record", "approve_next"}, Goto(h, p)
        PROVE  IInv'
    <3>1. p \in Places
      BY DEF Places
    <3>2. job' \in [Handlers -> Job] /\ job'[h] = [job[h] EXCEPT !.pc = p] /\ OthersWait(h)
      BY <2>4, <3>1, GotoEffect
    <3>3. job[h] \in Job
      BY DEF TypeOK
    <3>4. LocalOK(h)
      BY DEF LocalsOK
    <3>5. LocalOK(h)'
      BY <2>1, <2>2, <3>2, <3>3, <3>4 DEF LocalOK, OnRequest, Approving, tables, Job, Voted
    <3> QED  BY <2>1, <3>2, <3>5, ReadStep
  <2> QED  BY <1>5, <2>3, <2>4 DEF ApproveAuthorize
<1>6. CASE ApproveCount(h)
  <2>1. UNCHANGED tables /\ clock' \in Nat /\ begun' \in Nat
    BY <1>0, <1>6 DEF ApproveCount, Step
  <2>2. job[h].pc = "approve_count"
    BY <1>6 DEF ApproveCount, Step, At
  <2>3. CASE Finish(h)
    BY <2>1, <2>3, FinishStep
  <2>4. ASSUME NEW p \in {"approve_finalize", "approve_next"}, Goto(h, p)
        PROVE  IInv'
    <3>1. p \in Places
      BY DEF Places
    <3>2. job' \in [Handlers -> Job] /\ job'[h] = [job[h] EXCEPT !.pc = p] /\ OthersWait(h)
      BY <2>4, <3>1, GotoEffect
    <3>3. job[h] \in Job
      BY DEF TypeOK
    <3>4. LocalOK(h)
      BY DEF LocalsOK
    <3>5. LocalOK(h)'
      BY <2>1, <2>2, <3>2, <3>3, <3>4 DEF LocalOK, OnRequest, Approving, tables, Job, Voted
    <3> QED  BY <2>1, <3>2, <3>5, ReadStep
  <2> QED  BY <1>6, <2>3, <2>4 DEF ApproveCount
<1>7. CASE DenyRead(h)
  <2>1. PICK a \in Identities, r \in DOMAIN requests :
          /\ Begin(h, "deny", [Idle EXCEPT !.pc = "deny_owner", !.actor = a, !.row = r])
          /\ UNCHANGED tables
    BY <1>7 DEF DenyRead
  <2> DEFINE j == [Idle EXCEPT !.pc = "deny_owner", !.actor = a, !.row = r]
  <2>2. j \in Job
    BY <2>1, ConstantsAssumption, IdleType, RequestType DEF Job, Idle, Places
  <2>3. job' \in [Handlers -> Job] /\ job'[h] = j /\ OthersWait(h)
        /\ clock' \in Nat /\ begun' \in Nat
    BY <2>1, <2>2, BeginEffect
  <2>4. LocalOK(h)'
    BY <2>1, <2>3 DEF LocalOK, OnRequest, Approving, Idle, tables
  <2> QED  BY <2>1, <2>3, <2>4, ReadStep
<1>8. CASE DenyAuthorize(h)
  <2>1. UNCHANGED tables /\ clock' \in Nat /\ begun' \in Nat
    BY <1>0, <1>8 DEF DenyAuthorize, Step
  <2>2. job[h].pc = "deny_owner"
    BY <1>8 DEF DenyAuthorize, Step, At
  <2>3. CASE Finish(h)
    BY <2>1, <2>3, FinishStep
  <2>4. ASSUME NEW p \in {"deny_write"}, Goto(h, p)
        PROVE  IInv'
    <3>1. p \in Places
      BY DEF Places
    <3>2. job' \in [Handlers -> Job] /\ job'[h] = [job[h] EXCEPT !.pc = p] /\ OthersWait(h)
      BY <2>4, <3>1, GotoEffect
    <3>3. job[h] \in Job
      BY DEF TypeOK
    <3>4. LocalOK(h)
      BY DEF LocalsOK
    <3>5. LocalOK(h)'
      BY <2>1, <2>2, <3>2, <3>3, <3>4 DEF LocalOK, OnRequest, Approving, tables, Job, Voted
    <3> QED  BY <2>1, <3>2, <3>5, ReadStep
  <2> QED  BY <1>8, <2>3, <2>4 DEF DenyAuthorize
<1>9. CASE CancelRead(h)
  <2>1. PICK r \in DOMAIN requests :
          /\ Begin(h, "cancel", [Idle EXCEPT !.pc = "cancel_write", !.row = r,
                                              !.actor = requests[r].requester])
          /\ UNCHANGED tables
    BY <1>9 DEF CancelRead
  <2> DEFINE j == [Idle EXCEPT !.pc = "cancel_write", !.row = r,
                              !.actor = requests[r].requester]
  <2>2. j \in Job
    BY <2>1, ConstantsAssumption, IdleType, RequestType DEF Job, Idle, Places, RequestRow
  <2>3. job' \in [Handlers -> Job] /\ job'[h] = j /\ OthersWait(h)
        /\ clock' \in Nat /\ begun' \in Nat
    BY <2>1, <2>2, BeginEffect
  <2>4. LocalOK(h)'
    BY <2>1, <2>3 DEF LocalOK, OnRequest, Approving, Idle, tables
  <2> QED  BY <2>1, <2>3, <2>4, ReadStep
<1>10. CASE AddCheck(h)
  <2>1. PICK g \in Groups, i \in Identities, e \in Expiries, linked \in BOOLEAN :
          /\ Begin(h, "add", [Idle EXCEPT !.pc = "add_insert", !.group = g,
                                 !.identity = i, !.expires = e, !.linked = linked])
          /\ UNCHANGED tables
    BY <1>10 DEF AddCheck
  <2> DEFINE j == [Idle EXCEPT !.pc = "add_insert", !.group = g,
                              !.identity = i, !.expires = e, !.linked = linked]
  <2>2. j \in Job
    BY <2>1, ConstantsAssumption, IdleType DEF Job, Idle, Places
  <2>3. job' \in [Handlers -> Job] /\ job'[h] = j /\ OthersWait(h)
        /\ clock' \in Nat /\ begun' \in Nat
    BY <2>1, <2>2, BeginEffect
  <2>4. LocalOK(h)'
    BY <2>1, <2>3 DEF LocalOK, OnRequest, Approving, Idle, tables
  <2> QED  BY <2>1, <2>3, <2>4, ReadStep
<1>11. CASE RemoveFind(h)
  <2>1. PICK m \in memberships :
          /\ Begin(h, "remove",
                [Idle EXCEPT !.pc = IF groups[m.group].synced
                                    THEN "remove_sync" ELSE "remove_delete",
                             !.group = m.group, !.identity = m.identity, !.row = m.id])
          /\ UNCHANGED tables
    BY <1>11 DEF RemoveFind
  <2> DEFINE j == [Idle EXCEPT !.pc = IF groups[m.group].synced
                                    THEN "remove_sync" ELSE "remove_delete",
                             !.group = m.group, !.identity = m.identity, !.row = m.id]
  <2>2. j \in Job
    BY <2>1, ConstantsAssumption, IdleType DEF Job, Idle, Places, TypeOK, MembershipRow
  <2>3. job' \in [Handlers -> Job] /\ job'[h] = j /\ OthersWait(h)
        /\ clock' \in Nat /\ begun' \in Nat
    BY <2>1, <2>2, BeginEffect
  <2>4. LocalOK(h)'
    BY <2>1, <2>3 DEF LocalOK, OnRequest, Approving, Idle, tables
  <2> QED  BY <2>1, <2>3, <2>4, ReadStep
<1>12. CASE SweepSelect(h)
  <2> DEFINE j == [Idle EXCEPT !.pc = "sweep_sync",
                               !.expired = {m \in memberships : Lapsed(m)}]
  <2>1. Begin(h, "sweep", j) /\ UNCHANGED tables
    BY <1>12 DEF SweepSelect
  <2>2. j \in Job
    BY IdleType DEF Job, Idle, Places, TypeOK
  <2>3. job' \in [Handlers -> Job] /\ job'[h] = j /\ OthersWait(h)
        /\ clock' \in Nat /\ begun' \in Nat
    BY <2>1, <2>2, BeginEffect
  <2>4. LocalOK(h)'
    BY <2>1, <2>3 DEF LocalOK, OnRequest, Approving, Idle, tables
  <2> QED  BY <2>1, <2>3, <2>4, ReadStep
<1>13. CASE StaleSelect(h)
  <2>1. PICK stale \in SUBSET DOMAIN requests :
          /\ Begin(h, "stale", [Idle EXCEPT !.pc = "stale_write", !.todo = stale])
          /\ UNCHANGED tables
    BY <1>13 DEF StaleSelect
  <2> DEFINE j == [Idle EXCEPT !.pc = "stale_write", !.todo = stale]
  <2>2. j \in Job
    BY <2>1, IdleType, RequestType DEF Job, Idle, Places
  <2>3. job' \in [Handlers -> Job] /\ job'[h] = j /\ OthersWait(h)
        /\ clock' \in Nat /\ begun' \in Nat
    BY <2>1, <2>2, BeginEffect
  <2>4. LocalOK(h)'
    BY <2>1, <2>3 DEF LocalOK, OnRequest, Approving, Idle, tables
  <2> QED  BY <2>1, <2>3, <2>4, ReadStep
<1> QED
  BY <1>1, <1>2, <1>3, <1>4, <1>5, <1>6, <1>7, <1>8, <1>9, <1>10, <1>11, <1>12, <1>13

-----------------------------------------------------------------------------
(***************************************************************************)
(* Steps that write requests or votes                                      *)
(***************************************************************************)

\* An update of one request that leaves its question alone.
LEMMA UpdateRequest ==
  ASSUME TypeOK, NEW r \in DOMAIN requests, NEW q \in RequestRow,
         q.group = requests[r].group, q.requester = requests[r].requester,
         q.expires = requests[r].expires,
         requests' = [requests EXCEPT ![r] = q]
  PROVE  /\ requests' \in Seq(RequestRow)
         /\ DOMAIN requests' = DOMAIN requests
         /\ requests'[r] = q
         /\ \A s \in DOMAIN requests : s # r => requests'[s] = requests[s]
         /\ \A s \in DOMAIN requests :
               /\ requests'[s].group = requests[s].group
               /\ requests'[s].requester = requests[s].requester
               /\ requests'[s].expires = requests[s].expires
<1>1. r \in 1..Len(requests) /\ DOMAIN requests = 1..Len(requests)
  BY RequestType, LenProperties DEF TypeOK
<1>2. /\ requests' \in Seq(RequestRow)
      /\ Len(requests') = Len(requests)
      /\ \A s \in 1..Len(requests) :
            requests'[s] = IF s = r THEN q ELSE requests[s]
  BY <1>1, ExceptSeq DEF TypeOK
<1>3. DOMAIN requests' = 1..Len(requests)
  BY <1>2, LenProperties
<1> QED  BY <1>1, <1>2, <1>3

\* A vote is added at the end.
LEMMA AppendVote ==
  ASSUME TypeOK, NEW v \in ApprovalRow, approvals' = Append(approvals, v)
  PROVE  /\ approvals' \in Seq(ApprovalRow)
         /\ \A k \in DOMAIN approvals :
               k \in DOMAIN approvals' /\ approvals'[k] = approvals[k]
         /\ \E k \in DOMAIN approvals' : approvals'[k] = v
<1>1. approvals \in Seq(ApprovalRow)
  BY DEF TypeOK
<1>2. /\ approvals' \in Seq(ApprovalRow)
      /\ Len(approvals') = Len(approvals) + 1
      /\ approvals'[Len(approvals) + 1] = v
      /\ \A k \in 1..Len(approvals) : approvals'[k] = approvals[k]
  BY <1>1
<1>3. DOMAIN approvals = 1..Len(approvals) /\ Len(approvals) \in Nat
      /\ DOMAIN approvals' = 1..(Len(approvals) + 1)
  BY <1>1, <1>2, LenProperties
<1>4. Len(approvals) + 1 \in DOMAIN approvals'
  BY <1>3
<1> QED  BY <1>2, <1>3, <1>4

\* create_access_request inserts a pending request.
LEMMA CreateInsertStep ==
  ASSUME IInv, NEW h \in Handlers, CreateInsert(h)
  PROVE  IInv'
<1> USE DEF IInv
<1> DEFINE q == [group |-> job[h].group, requester |-> job[h].identity,
                 status |-> "pending", expires |-> job[h].expires,
                 created |-> clock, decidedBy |-> None]
<1>1. requests' = Append(requests, q)
      /\ UNCHANGED <<groups, memberships, lastId, approvals, clock, begun>>
  BY DEF CreateInsert, Step
<1>2. job' \in [Handlers -> Job] /\ job'[h] = Idle /\ OthersWait(h)
  BY FinishEffect DEF CreateInsert
<1>3. q \in RequestRow
  BY DEF CreateInsert, Step, At, LocalsOK, LocalOK, TypeOK, Job, RequestRow, Statuses
<1>4. requests \in Seq(RequestRow) /\ Len(requests) \in Nat
      /\ DOMAIN requests = 1..Len(requests)
  BY LenProperties DEF TypeOK
<1>5. /\ requests' \in Seq(RequestRow)
      /\ Len(requests') = Len(requests) + 1
      /\ requests'[Len(requests) + 1] = q
      /\ \A r \in 1..Len(requests) : requests'[r] = requests[r]
  BY <1>1, <1>3, <1>4
<1>6. DOMAIN requests' = 1..(Len(requests) + 1)
  BY <1>5, LenProperties
<1>7. TypeOK'
  BY <1>1, <1>2, <1>5 DEF TypeOK
<1>8. Grows
  BY <1>1, <1>4, <1>5, <1>6 DEF Grows
<1>9. GrantsTraceToApproval'
  BY <1>1, <1>8, GrantsKept
<1>10. DecisionsBacked'
  <2> SUFFICES ASSUME NEW r \in DOMAIN requests', requests'[r].status \in Decisions
               PROVE  \E k \in DOMAIN approvals :
                         /\ approvals[k].request = r
                         /\ approvals[k].approver = requests'[r].decidedBy
                         /\ approvals[k].decision = requests'[r].status
    BY <1>1 DEF DecisionsBacked
  <2>1. r # Len(requests) + 1
    BY <1>5 DEF Decisions
  <2>2. r \in DOMAIN requests /\ requests'[r] = requests[r]
    BY <2>1, <1>4, <1>5, <1>6
  <2> QED  BY <2>2 DEF DecisionsBacked
<1>11. LocalsOK'
  BY <1>2, <1>8, IdleLocalOK, LocalsFromOne
<1> QED  BY <1>7, <1>9, <1>10, <1>11

\* A status that is nobody's vote: cancelled by the requester or expired.
LEMMA CloseRequest ==
  ASSUME IInv, NEW h \in Handlers, NEW r \in DOMAIN requests,
         NEW status \in {"cancelled", "expired"},
         requests' = [requests EXCEPT ![r].status = status],
         UNCHANGED <<groups, memberships, lastId, approvals, clock, begun>>,
         job' \in [Handlers -> Job], OthersWait(h),
         Grows => LocalOK(h)'
  PROVE  IInv'
<1> USE DEF IInv
<1> DEFINE q == [requests[r] EXCEPT !.status = status]
<1>1. requests[r] \in RequestRow
  BY RequestType
<1>2. q \in RequestRow /\ q.group = requests[r].group
      /\ q.requester = requests[r].requester /\ q.expires = requests[r].expires
      /\ q.status = status
  BY <1>1 DEF RequestRow, Statuses
<1>3. requests' = [requests EXCEPT ![r] = q]
  OBVIOUS
<1> HIDE DEF q
<1>4. /\ requests' \in Seq(RequestRow)
      /\ DOMAIN requests' = DOMAIN requests
      /\ requests'[r] = q
      /\ \A s \in DOMAIN requests : s # r => requests'[s] = requests[s]
      /\ \A s \in DOMAIN requests :
            /\ requests'[s].group = requests[s].group
            /\ requests'[s].requester = requests[s].requester
            /\ requests'[s].expires = requests[s].expires
  BY <1>2, <1>3, UpdateRequest
<1>5. TypeOK'
  BY <1>4 DEF TypeOK
<1>6. Grows
  BY <1>4 DEF Grows
<1>7. GrantsTraceToApproval'
  BY <1>6, GrantsKept
<1>8. DecisionsBacked'
  BY <1>2, <1>4 DEF DecisionsBacked, Decisions
<1>9. LocalsOK'
  BY <1>6, LocalsFromOne
<1> QED  BY <1>5, <1>7, <1>8, <1>9

\* cancel_request closes a request.
LEMMA CancelWriteStep ==
  ASSUME IInv, NEW h \in Handlers, CancelWrite(h)
  PROVE  IInv'
<1>1. job[h].row \in DOMAIN requests
  BY DEF IInv, LocalsOK, LocalOK, CancelWrite, Step, At, OnRequest
<1>2. job' \in [Handlers -> Job] /\ job'[h] = Idle /\ OthersWait(h)
  BY FinishEffect DEF CancelWrite, IInv
<1> QED  BY <1>1, <1>2, IdleLocalOK, CloseRequest DEF CancelWrite, Step

\* process_stale_requests expires one of the requests it selected.
LEMMA StaleWriteStep ==
  ASSUME IInv, NEW h \in Handlers, StaleWrite(h)
  PROVE  IInv'
<1> USE DEF IInv
<1>1. PICK r \in job[h].todo :
        /\ requests' = [requests EXCEPT ![r].status = "expired"]
        /\ IF job[h].todo = {r} THEN Finish(h)
           ELSE job' = [job EXCEPT ![h].todo = @ \ {r}]
  BY DEF StaleWrite
<1>2. UNCHANGED <<groups, memberships, lastId, approvals, clock, begun>>
      /\ job[h].pc = "stale_write"
  BY DEF StaleWrite, Step, At
<1>3. job[h].todo \subseteq DOMAIN requests /\ job[h] \in Job
  BY <1>2 DEF LocalsOK, LocalOK, TypeOK
<1>4. /\ job' \in [Handlers -> Job] /\ OthersWait(h)
      /\ \/ job'[h] = Idle
         \/ job'[h].pc = "stale_write" /\ job'[h].todo = job[h].todo \ {r}
  <2>1. CASE Finish(h)
    BY <2>1, FinishEffect
  <2>2. CASE job' = [job EXCEPT ![h].todo = @ \ {r}]
    BY <1>2, <1>3, <2>2 DEF TypeOK, Job, OthersWait
  <2> QED  BY <1>1, <2>1, <2>2
<1>6. ASSUME Grows PROVE LocalOK(h)'
  BY <1>3, <1>4, <1>6, IdleLocalOK DEF LocalOK, Grows, OnRequest, Approving
<1> QED  BY <1>1, <1>2, <1>3, <1>4, <1>6, CloseRequest

\* approve_request records the vote.
LEMMA ApproveRecordStep ==
  ASSUME IInv, NEW h \in Handlers, ApproveRecord(h)
  PROVE  IInv'
<1> USE DEF IInv
<1> DEFINE v == [request |-> job[h].row, approver |-> job[h].actor,
                 decision |-> "approved"]
<1>1. job[h].pc = "approve_record" /\ job[h] \in Job /\ LocalOK(h)
  BY DEF ApproveRecord, Step, At, LocalsOK, TypeOK
<1>2. v \in ApprovalRow
  BY <1>1 DEF LocalOK, Approving, Job, ApprovalRow, Decisions
<1>3. /\ approvals' = Append(approvals, v)
      /\ UNCHANGED <<groups, memberships, lastId, requests, clock, begun>>
  BY DEF ApproveRecord, Step
<1>4. /\ approvals' \in Seq(ApprovalRow)
      /\ \A k \in DOMAIN approvals :
            k \in DOMAIN approvals' /\ approvals'[k] = approvals[k]
      /\ \E k \in DOMAIN approvals' : approvals'[k] = v
  BY <1>2, <1>3, AppendVote
<1>5. /\ job' \in [Handlers -> Job] /\ OthersWait(h)
      /\ job'[h] = [job[h] EXCEPT !.pc = "approve_count"]
  BY GotoEffect DEF ApproveRecord, Places
<1>6. TypeOK'
  BY <1>3, <1>4, <1>5 DEF TypeOK
<1>7. Grows
  BY <1>3, <1>4 DEF Grows
<1>8. GrantsTraceToApproval'
  BY <1>3, <1>7, GrantsKept
<1>9. DecisionsBacked'
  BY <1>3, <1>4 DEF DecisionsBacked
<1>10. LocalOK(h)'
  <2>1. job'[h].row = job[h].row /\ job'[h].actor = job[h].actor
        /\ job'[h].todo = job[h].todo /\ job'[h].pc = "approve_count"
    BY <1>1, <1>5 DEF Job
  <2>2. Voted(job[h].row, job[h].actor)'
    <3>1. PICK k \in DOMAIN approvals' : approvals'[k] = v
      BY <1>4
    <3> QED  BY <2>1, <3>1 DEF Voted
  <2> QED
    BY <1>1, <1>3, <2>1, <2>2 DEF LocalOK, OnRequest, Approving
<1>11. LocalsOK'
  BY <1>5, <1>7, <1>10, LocalsFromOne
<1> QED  BY <1>6, <1>8, <1>9, <1>11

\* deny_request records the vote and the decision together.
LEMMA DenyWriteStep ==
  ASSUME IInv, NEW h \in Handlers, DenyWrite(h)
  PROVE  IInv'
<1> USE DEF IInv
<1> DEFINE r == job[h].row
           v == [request |-> r, approver |-> job[h].actor, decision |-> "denied"]
           q == [requests[r] EXCEPT !.status = "denied", !.decidedBy = job[h].actor]
<1>1. job[h].pc = "deny_write" /\ job[h] \in Job /\ LocalOK(h)
  BY DEF DenyWrite, Step, At, LocalsOK, TypeOK
<1>2. r \in DOMAIN requests /\ job[h].actor \in Identities /\ r \in Nat
  BY <1>1 DEF LocalOK, OnRequest, Job
<1>3. requests[r] \in RequestRow
  BY <1>2, RequestType
<1>4. v \in ApprovalRow
  BY <1>2 DEF ApprovalRow, Decisions
<1>5. /\ q \in RequestRow /\ q.group = requests[r].group
      /\ q.requester = requests[r].requester /\ q.expires = requests[r].expires
      /\ q.status = "denied" /\ q.decidedBy = job[h].actor
  BY <1>2, <1>3 DEF RequestRow, Statuses
<1>6. /\ approvals' = Append(approvals, v)
      /\ requests' = [requests EXCEPT ![r] = q]
      /\ UNCHANGED <<groups, memberships, lastId, clock, begun>>
  BY DEF DenyWrite, Step
<1>7. /\ approvals' \in Seq(ApprovalRow)
      /\ \A k \in DOMAIN approvals :
            k \in DOMAIN approvals' /\ approvals'[k] = approvals[k]
      /\ \E k \in DOMAIN approvals' : approvals'[k] = v
  BY <1>4, <1>6, AppendVote
<1>8. v.request = r /\ v.approver = job[h].actor /\ v.decision = "denied"
  OBVIOUS
<1> HIDE DEF q, v, r
<1>9. /\ requests' \in Seq(RequestRow)
      /\ DOMAIN requests' = DOMAIN requests
      /\ requests'[r] = q
      /\ \A s \in DOMAIN requests : s # r => requests'[s] = requests[s]
      /\ \A s \in DOMAIN requests :
            /\ requests'[s].group = requests[s].group
            /\ requests'[s].requester = requests[s].requester
            /\ requests'[s].expires = requests[s].expires
  BY <1>2, <1>5, <1>6, UpdateRequest
<1>10. job' \in [Handlers -> Job] /\ job'[h] = Idle /\ OthersWait(h)
  BY FinishEffect DEF DenyWrite
<1>11. TypeOK'
  BY <1>6, <1>7, <1>9, <1>10 DEF TypeOK
<1>12. Grows
  BY <1>7, <1>9 DEF Grows
<1>13. GrantsTraceToApproval'
  BY <1>6, <1>12, GrantsKept
<1>14. DecisionsBacked'
  BY <1>5, <1>7, <1>8, <1>9 DEF DecisionsBacked
<1>15. LocalsOK'
  BY <1>10, <1>12, IdleLocalOK, LocalsFromOne
<1> QED  BY <1>11, <1>13, <1>14, <1>15

\* _finalize_approval decides, backed by the vote recorded before, and grants.
LEMMA ApproveFinalizeStep ==
  ASSUME IInv, NEW h \in Handlers, ApproveFinalize(h)
  PROVE  IInv'
<1> USE DEF IInv
<1> DEFINE r == job[h].row
           q == [requests[r] EXCEPT !.status = "approved", !.decidedBy = job[h].actor]
           m == [id |-> lastId + 1, group |-> requests[r].group,
                 identity |-> requests[r].requester, via |-> r,
                 expires |-> requests[r].expires,
                 linked |-> requests[r].requester \in Linked, synced |-> FALSE]
<1>1. job[h].pc = "approve_finalize" /\ job[h] \in Job /\ LocalOK(h)
  BY DEF ApproveFinalize, Step, At, LocalsOK, TypeOK
<1>2. /\ r \in DOMAIN requests /\ job[h].actor \in Identities /\ r \in Nat
      /\ Voted(r, job[h].actor)
  BY <1>1 DEF LocalOK, OnRequest, Approving, Job
<1>3. requests[r] \in RequestRow
  BY <1>2, RequestType
<1>4. /\ q \in RequestRow /\ q.group = requests[r].group
      /\ q.requester = requests[r].requester /\ q.expires = requests[r].expires
      /\ q.status = "approved" /\ q.decidedBy = job[h].actor
  BY <1>2, <1>3 DEF RequestRow, Statuses
<1>5. m \in MembershipRow /\ lastId + 1 \in Nat
  BY <1>2, <1>3 DEF MembershipRow, RequestRow, TypeOK
<1>6. /\ m.group = requests[r].group /\ m.identity = requests[r].requester
      /\ m.via = r /\ m.expires = requests[r].expires
  OBVIOUS
<1>7. /\ memberships' = memberships \union {m} /\ lastId' = lastId + 1
      /\ requests' = [requests EXCEPT ![r] = q]
      /\ UNCHANGED <<groups, approvals, clock, begun>>
  BY DEF ApproveFinalize, Step, InsertMembership
<1>8. \E p \in {"approve_sync", "approve_next"} : Goto(h, p)
  BY DEF ApproveFinalize
<1> HIDE DEF q, m, r
<1>9. /\ requests' \in Seq(RequestRow)
      /\ DOMAIN requests' = DOMAIN requests
      /\ requests'[r] = q
      /\ \A s \in DOMAIN requests : s # r => requests'[s] = requests[s]
      /\ \A s \in DOMAIN requests :
            /\ requests'[s].group = requests[s].group
            /\ requests'[s].requester = requests[s].requester
            /\ requests'[s].expires = requests[s].expires
  BY <1>2, <1>4, <1>7, UpdateRequest
<1>10. PICK p \in {"approve_sync", "approve_next"} :
         /\ job' \in [Handlers -> Job] /\ OthersWait(h)
         /\ job'[h] = [job[h] EXCEPT !.pc = p]
  BY <1>8, GotoEffect DEF Places
<1>11. TypeOK'
  BY <1>5, <1>7, <1>9, <1>10 DEF TypeOK
<1>12. Grows
  BY <1>7, <1>9 DEF Grows
<1>13. HasVote(r, "approved")
  BY <1>2 DEF Voted, HasVote
<1>14. GrantsTraceToApproval'
  <2> SUFFICES ASSUME NEW n \in memberships \union {m}, n.via # 0
               PROVE  /\ n.via \in DOMAIN requests
                      /\ requests[n.via].group = n.group
                      /\ requests[n.via].requester = n.identity
                      /\ requests[n.via].expires = n.expires
                      /\ HasVote(n.via, "approved")
    BY <1>7, <1>9 DEF GrantsTraceToApproval, HasVote
  <2> QED  BY <1>2, <1>6, <1>13 DEF GrantsTraceToApproval
<1>15. DecisionsBacked'
  BY <1>2, <1>4, <1>7, <1>9 DEF DecisionsBacked, Voted
<1>16. LocalOK(h)'
  BY <1>1, <1>9, <1>10 DEF LocalOK, OnRequest, Approving, Job
<1>17. LocalsOK'
  BY <1>10, <1>12, <1>16, LocalsFromOne
<1> QED  BY <1>11, <1>14, <1>15, <1>17

-----------------------------------------------------------------------------
(***************************************************************************)
(* Steps that write memberships only                                       *)
(***************************************************************************)

\* Each new row has the question of an old one, or was given by nobody's request.
LEMMA MembershipStep ==
  ASSUME IInv, NEW h \in Handlers,
         UNCHANGED <<requests, approvals, clock, begun>>,
         groups' = groups,
         memberships' \subseteq MembershipRow, lastId' \in Nat,
         \A n \in memberships' : n.via # 0 =>
            \E m \in memberships : /\ m.via = n.via /\ m.group = n.group
                                   /\ m.identity = n.identity
                                   /\ m.expires = n.expires,
         job' \in [Handlers -> Job], OthersWait(h), LocalOK(h)'
  PROVE  IInv'
<1> USE DEF IInv
<1>1. TypeOK'
  BY DEF TypeOK
<1>2. Grows /\ DecisionsBacked'
  BY RequestsAlone
<1>3. GrantsTraceToApproval'
  BY DEF GrantsTraceToApproval, HasVote
<1>4. LocalsOK'
  BY <1>2, LocalsFromOne
<1> QED  BY <1>1, <1>2, <1>3, <1>4

\* What a sync leaves behind: the same rows, one of them perhaps marked.
LEMMA SyncEffect ==
  ASSUME TypeOK, NEW g, NEW i, sync_membership_to_provider(g, i)
  PROVE  /\ memberships' \subseteq MembershipRow
         /\ \A n \in memberships' :
               \E m \in memberships : /\ m.via = n.via /\ m.group = n.group
                                      /\ m.identity = n.identity
                                      /\ m.expires = n.expires
<1>1. CASE UNCHANGED memberships
  BY <1>1 DEF TypeOK
<1>2. ASSUME NEW m \in RowsOf(g, i),
             memberships' = (memberships \ {m}) \union {[m EXCEPT !.synced = TRUE]}
      PROVE  /\ memberships' \subseteq MembershipRow
             /\ \A n \in memberships' :
                   \E o \in memberships : /\ o.via = n.via /\ o.group = n.group
                                          /\ o.identity = n.identity
                                          /\ o.expires = n.expires
  <2> DEFINE n == [m EXCEPT !.synced = TRUE]
  <2>1. m \in memberships /\ m \in MembershipRow
    BY <1>2 DEF RowsOf, TypeOK
  <2>2. /\ n \in MembershipRow /\ m.via = n.via /\ m.group = n.group
        /\ m.identity = n.identity /\ m.expires = n.expires
    BY <2>1 DEF MembershipRow
  <2> HIDE DEF n
  <2> QED  BY <1>2, <2>1, <2>2 DEF TypeOK, n
<1> QED  BY <1>1, <1>2 DEF sync_membership_to_provider

\* Deleting a membership adds none.
LEMMA DeleteEffect ==
  ASSUME TypeOK, NEW id, DeleteMembership(id)
  PROVE  memberships' \subseteq MembershipRow /\ memberships' \subseteq memberships
  BY DEF DeleteMembership, TypeOK

\* add_member inserts a membership that names no request.
LEMMA AddInsertStep ==
  ASSUME IInv, NEW h \in Handlers, AddInsert(h)
  PROVE  IInv'
<1> USE DEF IInv
<1> DEFINE m == [id |-> lastId + 1, group |-> job[h].group,
                 identity |-> job[h].identity, via |-> 0, expires |-> job[h].expires,
                 linked |-> job[h].linked, synced |-> FALSE]
<1>1. job[h].pc = "add_insert" /\ job[h] \in Job /\ LocalOK(h)
  BY DEF AddInsert, Step, At, LocalsOK, TypeOK
<1>2. m \in MembershipRow /\ lastId + 1 \in Nat /\ m.via = 0
  BY <1>1 DEF LocalOK, Job, MembershipRow, TypeOK
<1>3. /\ memberships' = memberships \union {m} /\ lastId' = lastId + 1
      /\ UNCHANGED <<groups, requests, approvals, clock, begun>>
  BY DEF AddInsert, Step, InsertMembership
<1> HIDE DEF m
<1>4. /\ memberships' \subseteq MembershipRow /\ lastId' \in Nat
      /\ \A n \in memberships' : n.via # 0 => n \in memberships
  BY <1>2, <1>3 DEF TypeOK
<1>5. job' \in [Handlers -> Job] /\ OthersWait(h) /\ LocalOK(h)'
  <2>1. CASE Finish(h)
    BY <2>1, FinishEffect, IdleLocalOK
  <2>2. CASE Goto(h, "add_sync")
    <3>1. /\ job' \in [Handlers -> Job] /\ OthersWait(h)
          /\ job'[h] = [job[h] EXCEPT !.pc = "add_sync"]
      BY <2>2, GotoEffect DEF Places
    <3> QED  BY <1>1, <3>1 DEF LocalOK, OnRequest, Approving, Job
  <2> QED  BY <2>1, <2>2 DEF AddInsert
<1> QED  BY <1>3, <1>4, <1>5, MembershipStep

\* Synchronizing and deleting memberships keeps the invariant.
LEMMA MembershipSteps ==
  ASSUME IInv, NEW h \in Handlers,
         \/ ApproveSync(h) \/ AddSync(h) \/ RemoveSync(h) \/ RemoveDelete(h)
         \/ SweepSync(h) \/ SweepDelete(h)
  PROVE  IInv'
<1> USE DEF IInv
<1>0. job[h] \in Job /\ LocalOK(h) /\ lastId \in Nat
  BY DEF LocalsOK, TypeOK
<1>1. UNCHANGED <<requests, approvals, clock, begun, groups, lastId>>
  BY DEF ApproveSync, AddSync, RemoveSync, RemoveDelete, SweepSync, SweepDelete, Step
<1>2. /\ memberships' \subseteq MembershipRow
      /\ \A n \in memberships' :
            \E m \in memberships : /\ m.via = n.via /\ m.group = n.group
                                   /\ m.identity = n.identity
                                   /\ m.expires = n.expires
  <2>1. CASE \E g, i : sync_membership_to_provider(g, i)
    BY <2>1, SyncEffect
  <2>2. CASE \E id : DeleteMembership(id)
    BY <2>2, DeleteEffect
  <2>3. CASE UNCHANGED memberships
    BY <2>3 DEF TypeOK
  <2> QED
    BY <2>1, <2>2, <2>3
       DEF ApproveSync, AddSync, RemoveSync, RemoveDelete, SweepSync, SweepDelete
<1>3. CASE Finish(h)
  BY <1>0, <1>1, <1>2, <1>3, FinishEffect, IdleLocalOK, MembershipStep
<1>4. CASE ApproveSync(h)
  <2>1. job[h].pc = "approve_sync" /\ Goto(h, "approve_next")
    BY <1>4 DEF ApproveSync, Step, At
  <2>2. /\ job' \in [Handlers -> Job] /\ OthersWait(h)
        /\ job'[h] = [job[h] EXCEPT !.pc = "approve_next"]
    BY <2>1, GotoEffect DEF Places
  <2>3. LocalOK(h)'
    BY <1>0, <1>1, <2>1, <2>2 DEF LocalOK, OnRequest, Approving, Job
  <2> QED  BY <1>0, <1>1, <1>2, <2>2, <2>3, MembershipStep
<1>5. ASSUME NEW p \in {"remove_delete", "sweep_sync"}, Goto(h, p)
      PROVE  IInv'
  <2>1. /\ job' \in [Handlers -> Job] /\ OthersWait(h)
        /\ job'[h] = [job[h] EXCEPT !.pc = p]
    BY <1>5, GotoEffect DEF Places
  <2>2. LocalOK(h)'
    BY <1>0, <2>1 DEF LocalOK, OnRequest, Approving, Job
  <2> QED  BY <1>0, <1>1, <1>2, <2>1, <2>2, MembershipStep
<1>6. CASE SweepSync(h)
  <2>1. PICK m \in job[h].expired :
          job' = [job EXCEPT ![h].pc = "sweep_delete", ![h].row = m.id,
                             ![h].expired = @ \ {m}]
    BY <1>6 DEF SweepSync
  <2>2. m \in MembershipRow
    BY <1>0, <2>1 DEF Job
  <2>3. m.id \in Nat
    BY <2>2 DEF MembershipRow
  <2>4. job' \in [Handlers -> Job] /\ OthersWait(h) /\ job'[h].pc = "sweep_delete"
    BY <1>0, <2>1, <2>3 DEF TypeOK, Job, Places, OthersWait
  <2>5. LocalOK(h)'
    BY <2>4 DEF LocalOK, OnRequest, Approving
  <2> QED  BY <1>0, <1>1, <1>2, <2>4, <2>5, MembershipStep
<1> QED
  BY <1>3, <1>4, <1>5, <1>6 DEF AddSync, RemoveSync, RemoveDelete, SweepDelete

\* update_group leaves requests, votes and memberships alone.
LEMMA UpdateGroupStep ==
  ASSUME IInv, NEW h \in Handlers, UpdateGroup(h)
  PROVE  IInv'
<1> USE DEF IInv
<1>1. PICK g \in Groups, u \in GroupUpdates :
        /\ Begin(h, "update", Idle)
        /\ groups' = [groups EXCEPT
               ![g] = [owner |-> Given(u.owner, @.owner),
                       ownerGroup |-> Given(u.ownerGroup, @.ownerGroup),
                       mode |-> Given(u.mode, @.mode),
                       threshold |-> Given(u.threshold, @.threshold),
                       synced |-> Given(u.synced, @.synced)]]
  BY DEF UpdateGroup
<1>2. UNCHANGED <<memberships, lastId, requests, approvals>>
  BY DEF UpdateGroup
<1>3. u \in GroupUpdate /\ groups[g] \in GroupRow
  BY ConstantsAssumption DEF TypeOK
<1>4. groups' \in [Groups -> GroupRow]
  BY <1>1, <1>3 DEF TypeOK, GroupRow, GroupUpdate, Given
<1>5. /\ job' \in [Handlers -> Job] /\ job'[h] = Idle /\ OthersWait(h)
      /\ clock' \in Nat /\ begun' \in Nat
  BY <1>1, IdleType, BeginEffect
<1>6. TypeOK'
  BY <1>2, <1>4, <1>5 DEF TypeOK
<1>7. Grows /\ DecisionsBacked'
  BY <1>2, RequestsAlone
<1>8. GrantsTraceToApproval'
  BY <1>2, <1>7, GrantsKept
<1>9. LocalsOK'
  BY <1>5, <1>7, IdleLocalOK, LocalsFromOne
<1> QED  BY <1>6, <1>7, <1>8, <1>9

-----------------------------------------------------------------------------
\* The first state has the invariant.
LEMMA InitIInv == Init => IInv
<1> SUFFICES ASSUME Init PROVE IInv
  OBVIOUS
<1>1. InitMembers \in Seq(Groups \X Identities) /\ Len(InitMembers) \in Nat
      /\ DOMAIN InitMembers = 1..Len(InitMembers)
  BY ConstantsAssumption, LenProperties
<1>2. \A k \in DOMAIN InitMembers :
        /\ k \in Nat \ {0}
        /\ InitMembers[k][1] \in Groups /\ InitMembers[k][2] \in Identities
  <2> TAKE k \in DOMAIN InitMembers
  <2>1. InitMembers[k] \in Groups \X Identities
    BY <1>1, ElementOfSeq
  <2> QED  BY <1>1, <2>1
<1>3. \A m \in memberships : m \in MembershipRow /\ m.via = 0
  <2> TAKE m \in memberships
  <2>1. PICK k \in DOMAIN InitMembers :
          m = [id |-> k, group |-> InitMembers[k][1], identity |-> InitMembers[k][2],
               via |-> 0, expires |-> None, linked |-> FALSE, synced |-> FALSE]
    BY DEF Init
  <2> QED  BY <1>2, <2>1 DEF MembershipRow, Expiry
<1>4. TypeOK
  BY <1>1, <1>3, IdleType, ConstantsAssumption DEF Init, TypeOK
<1>5. LocalsOK
  BY DEF Init, LocalsOK, LocalOK, Idle, OnRequest, Approving
<1>6. GrantsTraceToApproval
  BY <1>3 DEF GrantsTraceToApproval
<1>7. DecisionsBacked
  BY DEF Init, DecisionsBacked
<1> QED  BY <1>4, <1>5, <1>6, <1>7 DEF IInv

\* Every step keeps the invariant.
LEMMA NextIInv ==
  ASSUME IInv, [Next]_vars
  PROVE  IInv'
<1>1. CASE UNCHANGED vars
  <2>1. UNCHANGED tables /\ UNCHANGED <<job, clock, begun>>
    BY <1>1 DEF vars, tables
  <2> QED
    BY <2>1, TablesAlone DEF IInv, TypeOK, tables, LocalsOK, LocalOK, Voted
<1>2. CASE Tick
  <2>1. UNCHANGED tables /\ UNCHANGED <<job, begun>> /\ clock' \in Nat
    BY <1>2 DEF Tick, tables, IInv, TypeOK
  <2> QED
    BY <2>1, TablesAlone DEF IInv, TypeOK, tables, LocalsOK, LocalOK, Voted
<1>3. ASSUME NEW h \in Handlers, Call(h)
      PROVE  IInv'
  BY <1>3, ReadSteps, UpdateGroupStep DEF Call
<1>4. ASSUME NEW h \in Handlers, Continue(h)
      PROVE  IInv'
  BY <1>4, ReadSteps, CreateInsertStep, ApproveRecordStep, ApproveFinalizeStep,
     DenyWriteStep, CancelWriteStep, StaleWriteStep, AddInsertStep, MembershipSteps
     DEF Continue
<1>5. ASSUME NEW h \in Handlers, Crash(h)
      PROVE  IInv'
  <2>1. UNCHANGED tables /\ Finish(h) /\ clock' \in Nat /\ begun' \in Nat
    BY <1>5 DEF Crash, tables, IInv, TypeOK
  <2> QED  BY <2>1, FinishStep
<1> QED  BY <1>1, <1>2, <1>3, <1>4, <1>5 DEF Next

\* Every state has the invariant.
THEOREM Invariance == Spec => []IInv
<1>1. Init => IInv
  BY InitIInv
<1>2. IInv /\ [Next]_vars => IInv'
  BY NextIInv
<1> QED  BY <1>1, <1>2, PTL DEF Spec

\* Every table and every handler's locals keep their type.
THEOREM TypeCorrect == Spec => []TypeOK
<1>1. IInv => TypeOK
  BY DEF IInv
<1> QED  BY <1>1, Invariance, PTL

\* However handlers interleave and wherever they die, a membership granted
\* through a request is the requester's, in the group and for the time asked, and
\* somebody approved it.
THEOREM GrantsTraced == Spec => []GrantsTraceToApproval
<1>1. IInv => GrantsTraceToApproval
  BY DEF IInv
<1> QED  BY <1>1, Invariance, PTL

\* A decision on a request and the vote of the one who is named for it agree.
THEOREM DecisionsBackedTheorem == Spec => []DecisionsBacked
<1>1. IInv => DecisionsBacked
  BY DEF IInv
<1> QED  BY <1>1, Invariance, PTL

-----------------------------------------------------------------------------
(***************************************************************************)
(* Who may overwrite a decision                                            *)
(***************************************************************************)
HoldPlaces == {"approve_owner", "approve_record", "approve_count",
               "approve_finalize", "deny_owner", "deny_write", "cancel_write"}

\* What a step of h does to request r: it changes the status only if h holds the
\* request, takes hold only of a pending one, and writes only as it lets go.
HoldStep(h, r) ==
    /\ requests'[r].status # requests[r].status => Holds(h, r)
    /\ (~Holds(h, r) /\ Holds(h, r)') => requests[r].status = "pending"
    /\ Holds(h, r)' => requests'[r].status = requests[r].status

\* A step that leaves the requests alone and ends where no request is held.
LEMMA LetGo ==
  ASSUME NEW h \in Handlers, NEW r, UNCHANGED requests,
         job'[h].pc \notin HoldPlaces \union {"stale_write"}
  PROVE  HoldStep(h, r)
  BY DEF HoldStep, Holds, HoldPlaces

\* A step that leaves the requests alone and carries the held request on.
LEMMA CarryOn ==
  ASSUME NEW h \in Handlers, NEW r, UNCHANGED requests, TypeOK,
         job[h].pc \in HoldPlaces,
         NEW p \in Places \ {"stale_write"}, Goto(h, p)
  PROVE  HoldStep(h, r)
<1>1. job[h] \in Job /\ job'[h] = [job[h] EXCEPT !.pc = p]
  BY GotoEffect DEF TypeOK
<1>2. job'[h].row = job[h].row /\ job'[h].pc = p
  BY <1>1 DEF Job
<1> QED  BY <1>2 DEF HoldStep, Holds, HoldPlaces

\* A step that begins with one pending request.
LEMMA TakeHold ==
  ASSUME NEW h \in Handlers, NEW r, UNCHANGED requests, TypeOK,
         NEW s, requests[s].status = "pending",
         job'[h].row = s, job'[h].pc \in HoldPlaces
  PROVE  HoldStep(h, r)
  BY DEF HoldStep, Holds, HoldPlaces

\* An idle handler holds no request.
LEMMA IdleHoldsNothing ==
  ASSUME NEW h, NEW r, job'[h] = Idle
  PROVE  ~Holds(h, r)'
  BY DEF Idle, Holds

\* A call that begins takes hold of pending requests only.
LEMMA CallHolds ==
  ASSUME IInv, NEW h \in Handlers, NEW r \in DOMAIN requests, Call(h)
  PROVE  HoldStep(h, r)
<1> USE DEF IInv
<1>0. UNCHANGED requests
  BY DEF Call, CreateCheckMember, ApproveRead, DenyRead, CancelRead, AddCheck,
         RemoveFind, UpdateGroup, SweepSelect, StaleSelect, tables
<1>1. CASE ApproveRead(h)
  <2>1. PICK a \in Identities, s \in DOMAIN requests, rest \in SUBSET DOMAIN requests :
          /\ requests[s].status = "pending"
          /\ Begin(h, "approve", [Idle EXCEPT !.pc = "approve_owner", !.actor = a,
                                               !.row = s, !.todo = rest])
    BY <1>1 DEF ApproveRead
  <2>2. job'[h].row = s /\ job'[h].pc = "approve_owner"
    BY <2>1 DEF Begin, Idle, TypeOK
  <2> QED  BY <1>0, <2>1, <2>2, TakeHold DEF HoldPlaces
<1>2. CASE DenyRead(h)
  <2>1. PICK a \in Identities, s \in DOMAIN requests :
          /\ requests[s].status = "pending"
          /\ Begin(h, "deny", [Idle EXCEPT !.pc = "deny_owner", !.actor = a, !.row = s])
    BY <1>2 DEF DenyRead
  <2>2. job'[h].row = s /\ job'[h].pc = "deny_owner"
    BY <2>1 DEF Begin, Idle, TypeOK
  <2> QED  BY <1>0, <2>1, <2>2, TakeHold DEF HoldPlaces
<1>3. CASE CancelRead(h)
  <2>1. PICK s \in DOMAIN requests :
          /\ requests[s].status = "pending"
          /\ Begin(h, "cancel", [Idle EXCEPT !.pc = "cancel_write", !.row = s,
                                             !.actor = requests[s].requester])
    BY <1>3 DEF CancelRead
  <2>2. job'[h].row = s /\ job'[h].pc = "cancel_write"
    BY <2>1 DEF Begin, Idle, TypeOK
  <2> QED  BY <1>0, <2>1, <2>2, TakeHold DEF HoldPlaces
<1>4. CASE StaleSelect(h)
  <2> DEFINE stale == {s \in DOMAIN requests :
                          /\ requests[s].status = "pending"
                          /\ requests[s].created + StaleDays < clock}
  <2>1. Begin(h, "stale", [Idle EXCEPT !.pc = "stale_write", !.todo = stale])
    BY <1>4 DEF StaleSelect
  <2>2. job'[h].todo = stale /\ job'[h].pc = "stale_write"
    BY <2>1 DEF Begin, Idle, TypeOK
  <2> QED  BY <1>0, <2>2 DEF HoldStep, Holds
<1>5. CASE CreateCheckMember(h) \/ AddCheck(h) \/ RemoveFind(h) \/ UpdateGroup(h)
           \/ SweepSelect(h)
  <2>1. CASE CreateCheckMember(h)
    <3>1. job'[h].pc \in {"create_pending"}
      BY <2>1 DEF CreateCheckMember, Begin, Idle, TypeOK
    <3> QED  BY <1>0, <3>1, LetGo DEF HoldPlaces
  <2>2. CASE AddCheck(h)
    <3>1. job'[h].pc \in {"add_insert"}
      BY <2>2 DEF AddCheck, Begin, Idle, TypeOK
    <3> QED  BY <1>0, <3>1, LetGo DEF HoldPlaces
  <2>3. CASE RemoveFind(h)
    <3>1. job'[h].pc \in {"remove_sync", "remove_delete"}
      BY <2>3 DEF RemoveFind, Begin, Idle, TypeOK
    <3> QED  BY <1>0, <3>1, LetGo DEF HoldPlaces
  <2>4. CASE UpdateGroup(h)
    <3>1. job'[h].pc \in {"idle"}
      BY <2>4 DEF UpdateGroup, Begin, Idle, TypeOK
    <3> QED  BY <1>0, <3>1, LetGo DEF HoldPlaces
  <2>5. CASE SweepSelect(h)
    <3>1. job'[h].pc \in {"sweep_sync"}
      BY <2>5 DEF SweepSelect, Begin, Idle, TypeOK
    <3> QED  BY <1>0, <3>1, LetGo DEF HoldPlaces
  <2> QED  BY <1>5, <2>1, <2>2, <2>3, <2>4, <2>5
<1> QED  BY <1>1, <1>2, <1>3, <1>4, <1>5 DEF Call

\* Writing a status through a handler that holds the request.
LEMMA ContinueHolds ==
  ASSUME IInv, NEW h \in Handlers, NEW r \in DOMAIN requests, Continue(h)
  PROVE  HoldStep(h, r)
<1> USE DEF IInv
<1>0. job[h] \in Job /\ LocalOK(h) /\ requests \in Seq(RequestRow)
  BY DEF LocalsOK, TypeOK
<1>1. ASSUME Finish(h), UNCHANGED requests
      PROVE  HoldStep(h, r)
  BY <1>1, FinishEffect, IdleHoldsNothing DEF HoldStep
<1>2. CASE ApproveAuthorize(h) \/ ApproveRecord(h) \/ ApproveCount(h) \/ DenyAuthorize(h)
  <2>1. UNCHANGED requests /\ job[h].pc \in HoldPlaces
    BY <1>2 DEF ApproveAuthorize, ApproveRecord, ApproveCount, DenyAuthorize,
                Step, At, HoldPlaces, tables
  <2>2. \/ Finish(h)
        \/ \E p \in Places \ {"stale_write"} : Goto(h, p)
    BY <1>2 DEF ApproveAuthorize, ApproveRecord, ApproveCount, DenyAuthorize, Places
  <2> QED  BY <1>1, <2>1, <2>2, CarryOn
<1>3. CASE \/ CreateCheckPending(h) \/ ApproveSync(h) \/ AddInsert(h) \/ AddSync(h)
           \/ RemoveSync(h) \/ RemoveDelete(h) \/ SweepDelete(h)
  <2>1. UNCHANGED requests
    BY <1>3 DEF CreateCheckPending, ApproveSync, AddInsert, AddSync, RemoveSync,
                RemoveDelete, SweepDelete, tables
  <2>2. \/ Finish(h)
        \/ \E p \in {"create_insert", "approve_next", "add_sync", "remove_delete",
                     "sweep_sync"} : Goto(h, p)
    BY <1>3 DEF CreateCheckPending, ApproveSync, AddInsert, AddSync, RemoveSync,
                RemoveDelete, SweepDelete
  <2>3. ASSUME NEW p \in {"create_insert", "approve_next", "add_sync",
                          "remove_delete", "sweep_sync"}, Goto(h, p)
        PROVE  HoldStep(h, r)
    <3>0. p \in Places
      BY <2>3 DEF Places
    <3>1. job'[h] = [job[h] EXCEPT !.pc = p]
      BY <2>3, <3>0, GotoEffect
    <3>2. job'[h].pc = p
      BY <1>0, <3>1 DEF Job
    <3> QED  BY <2>1, <3>2, LetGo DEF HoldPlaces
  <2> QED  BY <1>1, <2>1, <2>2, <2>3
<1>4. CASE SweepSync(h)
  <2>1. UNCHANGED requests /\ job'[h].pc = "sweep_delete"
    BY <1>0, <1>4 DEF SweepSync, TypeOK, Job
  <2> QED  BY <2>1, LetGo DEF HoldPlaces
<1>5. CASE ApproveNext(h)
  <2>1. UNCHANGED requests
    BY <1>5 DEF ApproveNext, tables
  <2>2. ASSUME NEW s \in job[h].todo, NEW p \in {"approve_owner", "approve_next"},
               p = "approve_owner" => requests[s].status = "pending",
               job' = [job EXCEPT ![h].row = s, ![h].todo = @ \ {s}, ![h].pc = p]
        PROVE  HoldStep(h, r)
    <3>1. job'[h].row = s /\ job'[h].pc = p
      BY <1>0, <2>2 DEF TypeOK, Job
    <3>2. CASE p = "approve_owner"
      BY <2>1, <2>2, <3>1, <3>2, TakeHold DEF HoldPlaces
    <3>3. CASE p = "approve_next"
      BY <2>1, <3>1, <3>3, LetGo DEF HoldPlaces
    <3> QED  BY <3>2, <3>3
  <2>3. \/ Finish(h)
        \/ \E s \in job[h].todo, p \in {"approve_owner", "approve_next"} :
              /\ p = "approve_owner" => requests[s].status = "pending"
              /\ job' = [job EXCEPT ![h].row = s, ![h].todo = @ \ {s}, ![h].pc = p]
    <3>1. CASE Finish(h)
      BY <3>1
    <3>2. ASSUME NEW s \in job[h].todo,
                 job' = [job EXCEPT
                     ![h].row = s,
                     ![h].todo = @ \ {s},
                     ![h].pc = IF requests[s].status = "pending"
                               THEN "approve_owner" ELSE "approve_next"]
          PROVE  \E p \in {"approve_owner", "approve_next"} :
                    /\ p = "approve_owner" => requests[s].status = "pending"
                    /\ job' = [job EXCEPT ![h].row = s, ![h].todo = @ \ {s}, ![h].pc = p]
      <4>1. CASE requests[s].status = "pending"
        <5>1. job' = [job EXCEPT ![h].row = s, ![h].todo = @ \ {s},
                                 ![h].pc = "approve_owner"]
          BY <3>2, <4>1
        <5> QED  BY <4>1, <5>1
      <4>2. CASE requests[s].status # "pending"
        <5>1. job' = [job EXCEPT ![h].row = s, ![h].todo = @ \ {s},
                                 ![h].pc = "approve_next"]
          BY <3>2, <4>2
        <5> QED  BY <5>1
      <4> QED  BY <4>1, <4>2
    <3>3. Finish(h) \/ \E s \in job[h].todo :
             job' = [job EXCEPT
                 ![h].row = s,
                 ![h].todo = @ \ {s},
                 ![h].pc = IF requests[s].status = "pending"
                           THEN "approve_owner" ELSE "approve_next"]
      BY <1>5 DEF ApproveNext
    <3> QED  BY <3>1, <3>2, <3>3
  <2> QED  BY <1>1, <2>1, <2>2, <2>3
<1>6. CASE CreateInsert(h)
  <2>1. job'[h] = Idle
    BY <1>6, FinishEffect DEF CreateInsert
  <2>2. requests'[r] = requests[r]
    <3>1. r \in 1..Len(requests) /\ Len(requests) \in Nat
      BY <1>0, LenProperties
    <3> QED  BY <1>0, <1>6, <3>1 DEF CreateInsert
  <2> QED  BY <2>1, <2>2, IdleHoldsNothing DEF HoldStep
<1>7. CASE ApproveFinalize(h)
  <2>1. /\ job[h].pc = "approve_finalize"
        /\ r # job[h].row => requests'[r] = requests[r]
        /\ \E p \in {"approve_sync", "approve_next"} : Goto(h, p)
    BY <1>0, <1>7 DEF ApproveFinalize, Step, At
  <2>2. job'[h].pc \in {"approve_sync", "approve_next"}
    <3>1. PICK p \in {"approve_sync", "approve_next"} :
            job'[h] = [job[h] EXCEPT !.pc = p]
      BY <2>1, GotoEffect DEF Places
    <3> QED  BY <1>0, <3>1 DEF Job
  <2> QED  BY <2>1, <2>2 DEF HoldStep, Holds
<1>8. CASE DenyWrite(h) \/ CancelWrite(h)
  <2>1. /\ job[h].pc \in {"deny_write", "cancel_write"}
        /\ r # job[h].row => requests'[r] = requests[r]
        /\ Finish(h)
    BY <1>0, <1>8 DEF DenyWrite, CancelWrite, Step, At
  <2> QED  BY <2>1, FinishEffect, IdleHoldsNothing DEF HoldStep, Holds
<1>9. CASE StaleWrite(h)
  <2>1. PICK s \in job[h].todo :
          /\ requests' = [requests EXCEPT ![s].status = "expired"]
          /\ IF job[h].todo = {s} THEN Finish(h)
             ELSE job' = [job EXCEPT ![h].todo = @ \ {s}]
    BY <1>9 DEF StaleWrite
  <2>2. job[h].pc = "stale_write"
    BY <1>9 DEF StaleWrite, Step, At
  <2>3. /\ r # s => requests'[r] = requests[r]
        /\ r # s \/ Holds(h, r)
    BY <1>0, <2>1, <2>2 DEF Holds
  <2>4. ~Holds(h, s)' /\ (Holds(h, r)' => Holds(h, r))
    <3>1. CASE Finish(h)
      BY <3>1, FinishEffect, IdleHoldsNothing
    <3>2. CASE job' = [job EXCEPT ![h].todo = @ \ {s}]
      <4>1. job'[h].pc = "stale_write" /\ job'[h].todo = job[h].todo \ {s}
        BY <1>0, <2>2, <3>2 DEF TypeOK, Job
      <4> QED  BY <2>2, <4>1 DEF Holds
    <3> QED  BY <2>1, <3>1, <3>2
  <2> QED  BY <2>3, <2>4 DEF HoldStep
<1> QED
  BY <1>2, <1>3, <1>4, <1>5, <1>6, <1>7, <1>8, <1>9 DEF Continue

\* Every step of the system is a HoldStep of the handler that takes it, and
\* leaves the hold of the others as it is.
LEMMA NextHolds ==
  ASSUME IInv, [Next]_vars, NEW r \in DOMAIN requests
  PROVE  \/ \E h \in Handlers : HoldStep(h, r) /\ OthersWait(h)
         \/ UNCHANGED <<job, requests>>
<1>1. CASE UNCHANGED vars
  BY <1>1 DEF vars
<1>2. CASE Tick
  BY <1>2 DEF Tick
<1>3. ASSUME NEW h \in Handlers, Call(h) \/ Continue(h) \/ Crash(h)
      PROVE  HoldStep(h, r) /\ OthersWait(h)
  <2>1. job \in [Handlers -> Job]
    BY DEF IInv, TypeOK
  <2>2. OthersWait(h)
    BY <1>3, <2>1
       DEF OthersWait, Call, Continue, Crash, Begin, Finish, Goto,
           CreateCheckMember, CreateCheckPending, CreateInsert, ApproveRead,
           ApproveNext, ApproveAuthorize, ApproveRecord, ApproveCount,
           ApproveFinalize, ApproveSync, DenyRead, DenyAuthorize, DenyWrite,
           CancelRead, CancelWrite, AddCheck, AddInsert, AddSync, RemoveFind,
           RemoveSync, RemoveDelete, UpdateGroup, SweepSelect, SweepSync,
           SweepDelete, StaleSelect, StaleWrite
  <2>3. CASE Crash(h)
    BY <2>3, FinishEffect, IdleHoldsNothing DEF Crash, HoldStep, IInv
  <2> QED  BY <1>3, <2>2, <2>3, CallHolds, ContinueHolds
<1> QED  BY <1>1, <1>2, <1>3 DEF Next

\* A decision is overwritten only by a handler that took hold of the request
\* while it was pending, whatever the interleaving.
THEOREM OverwritesInFlight == Spec => OnlyInFlightOverwrites
<1>1. ASSUME IInv, [Next]_vars, NEW r \in DOMAIN requests
      PROVE  /\ (requests[r].status # "pending" /\ requests'[r].status # requests[r].status)
                   => \E h \in Handlers : Holds(h, r)
             /\ \A h \in Handlers : (~Holds(h, r) /\ Holds(h, r)')
                   => requests[r].status = "pending"
  <2>1. CASE UNCHANGED <<job, requests>>
    BY <2>1 DEF Holds
  <2>2. ASSUME NEW h \in Handlers, HoldStep(h, r), OthersWait(h)
        PROVE  /\ (requests[r].status # "pending" /\ requests'[r].status # requests[r].status)
                     => \E k \in Handlers : Holds(k, r)
               /\ \A k \in Handlers : (~Holds(k, r) /\ Holds(k, r)')
                     => requests[r].status = "pending"
    <3>1. \A k \in Handlers \ {h} : Holds(k, r)' <=> Holds(k, r)
      BY <2>2 DEF OthersWait, Holds
    <3> QED  BY <2>2, <3>1 DEF HoldStep
  <2> QED  BY <1>1, <2>1, <2>2, NextHolds
<1>2. IInv /\ [Next]_vars =>
        [\A r \in DOMAIN requests :
          /\ (requests[r].status # "pending" /\ requests'[r].status # requests[r].status)
                => \E h \in Handlers : Holds(h, r)
          /\ \A h \in Handlers : (~Holds(h, r) /\ Holds(h, r)')
                => requests[r].status = "pending"]_vars
  BY <1>1
<1> QED  BY <1>2, Invariance, PTL DEF Spec, OnlyInFlightOverwrites

-----------------------------------------------------------------------------
(***************************************************************************)
(* One handler at a time                                                   *)
(***************************************************************************)
HeldArePending ==
    \A h \in Handlers, r \in DOMAIN requests :
        Holds(h, r) => requests[r].status = "pending"

\* A single handler writes to what it holds as it lets go of it, so what it holds
\* stays pending.
LEMMA HeldStep ==
  ASSUME NEW h0, Handlers = {h0}, IInv, HeldArePending, [Next]_vars
  PROVE  HeldArePending'
<1> SUFFICES ASSUME NEW r \in DOMAIN requests', Holds(h0, r)'
             PROVE  requests'[r].status = "pending"
  BY DEF HeldArePending
<1>1. CASE r \in DOMAIN requests
  <2>1. CASE UNCHANGED <<job, requests>>
    BY <1>1, <2>1 DEF HeldArePending, Holds
  <2>2. CASE HoldStep(h0, r)
    BY <1>1, <2>2 DEF HoldStep, HeldArePending
  <2> QED  BY <1>1, <2>1, <2>2, NextHolds
<1>2. CASE r \notin DOMAIN requests
  <2>1. IInv'
    BY NextIInv
  <2>2. requests' # requests
    BY <1>2
  <2>3. CASE CreateInsert(h0)
    BY <2>3, FinishEffect, IdleHoldsNothing DEF CreateInsert, IInv
  <2>4. CASE ~CreateInsert(h0)
    <3> SUFFICES DOMAIN requests' = DOMAIN requests
      BY <1>2
    <3>1. CASE UNCHANGED requests
      BY <3>1
    <3>2. CASE \/ ApproveFinalize(h0) \/ DenyWrite(h0) \/ CancelWrite(h0)
               \/ StaleWrite(h0)
      BY <3>2 DEF ApproveFinalize, DenyWrite, CancelWrite, StaleWrite
    <3>3. CASE Continue(h0)
      <4>1. CASE \/ CreateCheckPending(h0) \/ ApproveNext(h0)
                 \/ ApproveAuthorize(h0) \/ ApproveRecord(h0)
                 \/ ApproveCount(h0) \/ ApproveSync(h0) \/ DenyAuthorize(h0)
        BY <4>1, <3>1 DEF CreateCheckPending, ApproveNext, ApproveAuthorize,
           ApproveRecord, ApproveCount, ApproveSync, DenyAuthorize, tables
      <4>2. CASE \/ AddInsert(h0) \/ AddSync(h0) \/ RemoveSync(h0)
                 \/ RemoveDelete(h0) \/ SweepSync(h0) \/ SweepDelete(h0)
        BY <4>2, <3>1 DEF AddInsert, AddSync, RemoveSync, RemoveDelete,
           SweepSync, SweepDelete
      <4> QED  BY <2>4, <3>2, <3>3, <4>1, <4>2 DEF Continue
    <3>4. CASE Call(h0)
      BY <3>1, <3>4 DEF Call, CreateCheckMember, ApproveRead, DenyRead,
         CancelRead, AddCheck, RemoveFind, UpdateGroup, SweepSelect,
         StaleSelect, tables
    <3>5. CASE Tick \/ Crash(h0) \/ UNCHANGED vars
      BY <3>1, <3>5 DEF Tick, Crash, vars
    <3> QED  BY <3>3, <3>4, <3>5 DEF Next
  <2> QED  BY <2>3, <2>4
<1> QED  BY <1>1, <1>2

\* With a single handler, a decision on a request is final: the status is never
\* written by a handler that read it before another one decided.
THEOREM SerialDecisionsFinal ==
  ASSUME NEW h0, Handlers = {h0}
  PROVE  Spec => DecisionFinal
<1>1. Init => HeldArePending
  BY DEF Init, HeldArePending
<1>2. IInv /\ HeldArePending /\ [Next]_vars => HeldArePending'
  BY HeldStep
<1>3. IInv /\ HeldArePending /\ [Next]_vars =>
        [\A r \in DOMAIN requests :
            requests[r].status # "pending"
               => requests'[r].status = requests[r].status]_vars
  <2> SUFFICES ASSUME IInv, HeldArePending, [Next]_vars,
                      NEW r \in DOMAIN requests, requests[r].status # "pending"
               PROVE  requests'[r].status = requests[r].status
    OBVIOUS
  <2> QED  BY NextHolds DEF HoldStep, HeldArePending
<1> QED  BY <1>1, <1>2, <1>3, Invariance, PTL DEF Spec, DecisionFinal
=============================================================================
