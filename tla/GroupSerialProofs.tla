------------------------- MODULE GroupSerialProofs -------------------------
(***************************************************************************)
(* What holds of group access when handlers run one at a time, although a  *)
(* handler may die between any two of its steps: nobody has two pending    *)
(* requests for a group, votes are cast by owners, a request is approved   *)
(* when its votes suffice, and nobody is granted a membership twice: they  *)
(* implement AccessWorkflow.  What a handler has checked (Promise) is      *)
(* still so when it writes, because no other handler moves in between.     *)
(*                                                                         *)
(* And what is left of that with any number of handlers: a membership row  *)
(* leaves only for a reason, and what a check forbids happens at most once *)
(* for each handler (PendingLoad, GrantLoad, DirectLoad).                  *)
(***************************************************************************)
EXTENDS GroupAccessProofs, FiniteSetTheorems

Promised == {"approve_record", "deny_write", "approve_finalize", "create_pending",
             "create_insert", "add_insert"}

\* What the handler has checked at the place it has reached.
Promise(h) ==
    /\ job[h].pc \in {"approve_record", "deny_write"}
          => is_group_owner(job[h].actor, requests[job[h].row].group)
    /\ job[h].pc = "approve_finalize" => check_approval_complete(job[h].row)
    /\ job[h].pc \in {"create_pending", "create_insert", "add_insert"}
          => ~IsMember(job[h].group, job[h].identity)
    /\ job[h].pc = "create_insert" => ~HasPending(job[h].group, job[h].identity)

SerialInv(h) == HeldArePending /\ Promise(h) /\ OnePendingPerRequester

\* A pending request has not been granted before.
PendingUngranted ==
    \A r \in DOMAIN requests, m \in memberships :
        (/\ requests[r].status = "pending"
         /\ m.group = requests[r].group /\ m.identity = requests[r].requester)
        => m.via = 0

\* No request becomes pending, and none changes what it asks for.
NoNewPending ==
    /\ DOMAIN requests' = DOMAIN requests
    /\ \A r \in DOMAIN requests :
          /\ requests'[r].group = requests[r].group
          /\ requests'[r].requester = requests[r].requester
          /\ requests'[r].status = "pending" => requests[r].status = "pending"

-----------------------------------------------------------------------------
(***************************************************************************)
(* What the steps do                                                       *)
(***************************************************************************)
\* A step that is no step of a handler changes nothing but the clock.
LEMMA NoHandler ==
  ASSUME Tick \/ UNCHANGED vars
  PROVE  UNCHANGED tables /\ UNCHANGED job
  BY DEF Tick, vars, tables

\* Writing a status that is not "pending" makes no request pending.
LEMMA StatusWrite ==
  ASSUME TypeOK, NEW r \in DOMAIN requests, NEW q \in RequestRow,
         q.group = requests[r].group, q.requester = requests[r].requester,
         q.expires = requests[r].expires, q.status # "pending",
         requests' = [requests EXCEPT ![r] = q]
  PROVE  NoNewPending
  BY UpdateRequest DEF NoNewPending

\* Only an insert makes a request pending.
LEMMA OnlyInsertPends ==
  ASSUME IInv, NEW h \in Handlers, Call(h) \/ Continue(h) \/ Crash(h), ~CreateInsert(h)
  PROVE  NoNewPending
<1>1. CASE UNCHANGED requests
  BY <1>1 DEF NoNewPending
<1>2. job[h] \in Job /\ LocalOK(h) /\ TypeOK
  BY DEF IInv, TypeOK, LocalsOK
<1>3. ASSUME NEW r \in DOMAIN requests, NEW status \in Statuses \ {"pending"},
             requests' = [requests EXCEPT ![r].status = status]
      PROVE  NoNewPending
  <2> DEFINE q == [requests[r] EXCEPT !.status = status]
  <2>1. requests[r] \in RequestRow
    BY <1>2, RequestType
  <2>2. /\ q \in RequestRow /\ q.group = requests[r].group /\ q.status # "pending"
        /\ q.requester = requests[r].requester /\ q.expires = requests[r].expires
    BY <2>1 DEF RequestRow
  <2>3. requests' = [requests EXCEPT ![r] = q]
    BY <1>3
  <2> HIDE DEF q
  <2> QED  BY <1>2, <2>2, <2>3, StatusWrite
<1>4. ASSUME NEW r \in DOMAIN requests, NEW status \in Statuses \ {"pending"},
             NEW by \in Identities,
             requests' = [requests EXCEPT ![r].status = status, ![r].decidedBy = by]
      PROVE  NoNewPending
  <2> DEFINE q == [requests[r] EXCEPT !.status = status, !.decidedBy = by]
  <2>1. requests[r] \in RequestRow
    BY <1>2, RequestType
  <2>2. /\ q \in RequestRow /\ q.group = requests[r].group /\ q.status # "pending"
        /\ q.requester = requests[r].requester /\ q.expires = requests[r].expires
    BY <2>1 DEF RequestRow
  <2>3. requests' = [requests EXCEPT ![r] = q]
    BY <1>4
  <2> HIDE DEF q
  <2> QED  BY <1>2, <2>2, <2>3, StatusWrite
<1>5. CASE ApproveFinalize(h) \/ DenyWrite(h)
  <2>1. job[h].row \in DOMAIN requests /\ job[h].actor \in Identities
    BY <1>2, <1>5 DEF ApproveFinalize, DenyWrite, Step, At, LocalOK, OnRequest, Approving
  <2> QED  BY <1>4, <1>5, <2>1 DEF ApproveFinalize, DenyWrite, Statuses
<1>6. CASE CancelWrite(h)
  <2>1. job[h].row \in DOMAIN requests
    BY <1>2, <1>6 DEF CancelWrite, Step, At, LocalOK, OnRequest
  <2>2. PICK r \in DOMAIN requests : r = job[h].row
    BY <2>1
  <2>3. requests' = [requests EXCEPT ![r].status = "cancelled"]
    BY <1>6, <2>2 DEF CancelWrite
  <2> QED  BY <1>3, <2>3 DEF Statuses
<1>7. CASE StaleWrite(h)
  <2>1. job[h].todo \subseteq DOMAIN requests
    BY <1>2, <1>7 DEF StaleWrite, Step, At, LocalOK, Approving
  <2>2. PICK r \in job[h].todo : requests' = [requests EXCEPT ![r].status = "expired"]
    BY <1>7 DEF StaleWrite
  <2> QED  BY <1>3, <2>1, <2>2 DEF Statuses
<1>8. CASE Continue(h)
  <2>1. CASE \/ CreateCheckPending(h) \/ ApproveNext(h)
             \/ ApproveAuthorize(h) \/ ApproveRecord(h)
             \/ ApproveCount(h) \/ ApproveSync(h) \/ DenyAuthorize(h)
    BY <2>1, <1>1 DEF CreateCheckPending, ApproveNext, ApproveAuthorize,
       ApproveRecord, ApproveCount, ApproveSync, DenyAuthorize, tables
  <2>2. CASE \/ AddInsert(h) \/ AddSync(h) \/ RemoveSync(h)
             \/ RemoveDelete(h) \/ SweepSync(h) \/ SweepDelete(h)
    BY <2>2, <1>1 DEF AddInsert, AddSync, RemoveSync, RemoveDelete,
       SweepSync, SweepDelete
  <2> QED  BY <1>5, <1>6, <1>7, <1>8, <2>1, <2>2 DEF Continue
<1>9. CASE Call(h)
  BY <1>1, <1>9 DEF Call, CreateCheckMember, ApproveRead, DenyRead,
     CancelRead, AddCheck, RemoveFind, UpdateGroup, SweepSelect,
     StaleSelect, tables
<1>10. CASE Crash(h)
  BY <1>1, <1>10 DEF Crash
<1> QED  BY <1>8, <1>9, <1>10

\* The steps that do not end where a check has just been passed.
LEMMA Elsewhere ==
  ASSUME TypeOK, NEW h \in Handlers, Call(h) \/ Continue(h) \/ Crash(h),
         ~CreateCheckMember(h), ~CreateCheckPending(h), ~ApproveAuthorize(h),
         ~ApproveCount(h), ~DenyAuthorize(h), ~AddCheck(h)
  PROVE  job'[h].pc \notin Promised
<1>1. job[h] \in Job /\ job \in [Handlers -> Job]
  BY DEF TypeOK
<1>2. ASSUME Finish(h)
      PROVE  job'[h].pc \notin Promised
  BY <1>2, FinishEffect DEF Idle, Promised
<1>3. ASSUME NEW p \in Places \ Promised, Goto(h, p)
      PROVE  job'[h].pc \notin Promised
  <2>1. p \in Places /\ p \notin Promised
    BY <1>3
  <2>2. job'[h] = [job[h] EXCEPT !.pc = p]
    BY <1>3, <2>1, GotoEffect
  <2> QED  BY <1>1, <2>1, <2>2 DEF Job
<1>4. ASSUME NEW op, NEW j, Begin(h, op, j), j.pc \notin Promised
      PROVE  job'[h].pc \notin Promised
  BY <1>1, <1>4 DEF Begin
<1>5. CASE Call(h)
  <2>1. CASE ApproveRead(h)
    BY <1>4, <2>1 DEF ApproveRead, Idle, Promised
  <2>2. CASE DenyRead(h)
    BY <1>4, <2>2 DEF DenyRead, Idle, Promised
  <2>3. CASE CancelRead(h)
    BY <1>4, <2>3 DEF CancelRead, Idle, Promised
  <2>4. CASE RemoveFind(h)
    BY <1>4, <2>4 DEF RemoveFind, Idle, Promised
  <2>5. CASE UpdateGroup(h)
    BY <1>4, <2>5 DEF UpdateGroup, Idle, Promised
  <2>6. CASE SweepSelect(h)
    BY <1>4, <2>6 DEF SweepSelect, Idle, Promised
  <2>7. CASE StaleSelect(h)
    BY <1>4, <2>7 DEF StaleSelect, Idle, Promised
  <2> QED  BY <1>5, <2>1, <2>2, <2>3, <2>4, <2>5, <2>6, <2>7 DEF Call
<1>6. CASE Crash(h)
  BY <1>2, <1>6 DEF Crash
<1>7. CASE ApproveNext(h)
  <2>1. ASSUME NEW r \in job[h].todo,
               job' = [job EXCEPT
                   ![h].row = r,
                   ![h].todo = @ \ {r},
                   ![h].pc = IF requests[r].status = "pending"
                             THEN "approve_owner" ELSE "approve_next"]
        PROVE  job'[h].pc \notin Promised
    <3>1. job'[h].pc \in {"approve_owner", "approve_next"}
      BY <1>1, <2>1 DEF Job
    <3> QED  BY <3>1 DEF Promised
  <2> QED  BY <1>2, <1>7, <2>1 DEF ApproveNext
<1>8. CASE CreateInsert(h) \/ DenyWrite(h) \/ CancelWrite(h) \/ AddSync(h)
           \/ RemoveDelete(h)
  BY <1>2, <1>8 DEF CreateInsert, DenyWrite, CancelWrite, AddSync, RemoveDelete
<1>9. CASE ApproveRecord(h) \/ ApproveFinalize(h) \/ ApproveSync(h) \/ AddInsert(h)
           \/ RemoveSync(h) \/ SweepDelete(h)
  <2>1. {"approve_count", "approve_sync", "approve_next", "add_sync", "remove_delete",
         "sweep_sync"} \subseteq Places \ Promised
    BY DEF Places, Promised
  <2>2. \/ Finish(h)
        \/ \E p \in {"approve_count", "approve_sync", "approve_next", "add_sync",
                     "remove_delete", "sweep_sync"} : Goto(h, p)
    BY <1>9 DEF ApproveRecord, ApproveFinalize, ApproveSync, AddInsert, RemoveSync,
       SweepDelete
  <2> QED  BY <1>2, <1>3, <2>1, <2>2
<1>10. CASE SweepSync(h)
  BY <1>1, <1>10 DEF SweepSync, Promised, Job
<1>11. CASE StaleWrite(h)
  BY <1>1, <1>2, <1>11 DEF StaleWrite, Promised, Job, Step, At
<1> QED  BY <1>5, <1>6, <1>7, <1>8, <1>9, <1>10, <1>11 DEF Continue

-----------------------------------------------------------------------------
(***************************************************************************)
(* Requests and votes                                                      *)
(***************************************************************************)
\* While the tables stay as they are, the queries answer the same.
LEMMA SameAnswers ==
  ASSUME UNCHANGED tables
  PROVE  /\ \A g, i : IsMember(g, i)' <=> IsMember(g, i)
         /\ \A g, i : HasPending(g, i)' <=> HasPending(g, i)
         /\ \A g, i : is_group_owner(i, g)' <=> is_group_owner(i, g)
         /\ \A r : check_approval_complete(r)' <=> check_approval_complete(r)
<1>1. UNCHANGED <<groups, memberships, requests, approvals>>
  BY DEF tables
<1>2. \A g, i : IsMember(g, i)' <=> IsMember(g, i)
  BY <1>1 DEF IsMember
<1>3. \A g, i : HasPending(g, i)' <=> HasPending(g, i)
  BY <1>1 DEF HasPending
<1>4. \A g, i : is_group_owner(i, g)' <=> is_group_owner(i, g)
  BY <1>1 DEF is_group_owner, IsMember
<1>5. \A r : check_approval_complete(r)' <=> check_approval_complete(r)
  BY <1>1 DEF check_approval_complete, ApprovalsOf, count_group_owners, MembersOf
<1> QED  BY <1>2, <1>3, <1>4, <1>5

\* A step of the only handler ends with its checks still so.
LEMMA PromiseStep ==
  ASSUME TypeOK, NEW h \in Handlers, Promise(h), Call(h) \/ Continue(h) \/ Crash(h)
  PROVE  Promise(h)'
<1>1. job[h] \in Job /\ job \in [Handlers -> Job]
  BY DEF TypeOK
<1>2. ASSUME NEW p \in Places, Goto(h, p)
      PROVE  /\ job'[h].pc = p /\ job'[h].row = job[h].row
             /\ job'[h].actor = job[h].actor /\ job'[h].group = job[h].group
             /\ job'[h].identity = job[h].identity
  <2>1. job'[h] = [job[h] EXCEPT !.pc = p]
    BY <1>2, GotoEffect
  <2> QED  BY <1>1, <2>1 DEF Job
<1>3. ASSUME job'[h].pc \notin Promised
      PROVE  Promise(h)'
  BY <1>3 DEF Promise, Promised
<1>4. ASSUME Finish(h)
      PROVE  Promise(h)'
  <2>1. job'[h].pc = "idle"
    BY <1>4, FinishEffect DEF Idle
  <2> QED  BY <2>1 DEF Promise
<1>5. CASE CreateCheckMember(h)
  <2>1. PICK g \in Targets, i \in Identities, e \in Expiries :
           /\ ~IsMember(g, i)
           /\ Begin(h, "create", [Idle EXCEPT !.pc = "create_pending", !.group = g,
                                              !.identity = i, !.expires = e])
    BY <1>5 DEF CreateCheckMember
  <2>2. job'[h].pc = "create_pending" /\ job'[h].group = g /\ job'[h].identity = i
    BY <1>1, <2>1 DEF Begin, Idle
  <2>3. ~IsMember(g, i)'
    BY <1>5, <2>1, SameAnswers DEF CreateCheckMember
  <2> QED  BY <2>2, <2>3 DEF Promise
<1>6. CASE AddCheck(h)
  <2>1. PICK g \in Groups, i \in Identities, e \in Expiries, linked \in BOOLEAN :
           /\ ~IsMember(g, i)
           /\ Begin(h, "add", [Idle EXCEPT !.pc = "add_insert", !.group = g,
                                 !.identity = i, !.expires = e, !.linked = linked])
    BY <1>6 DEF AddCheck
  <2>2. job'[h].pc = "add_insert" /\ job'[h].group = g /\ job'[h].identity = i
    BY <1>1, <2>1 DEF Begin, Idle
  <2>3. ~IsMember(g, i)'
    BY <1>6, <2>1, SameAnswers DEF AddCheck
  <2> QED  BY <2>2, <2>3 DEF Promise
<1>7. CASE CreateCheckPending(h)
  <2>1. PICK g, i : g = job[h].group /\ i = job[h].identity
    OBVIOUS
  <2>2. ~IsMember(g, i) /\ UNCHANGED tables
    BY <1>7, <2>1 DEF CreateCheckPending, Step, At, Promise
  <2>3. CASE HasPending(g, i)
    BY <1>4, <1>7, <2>1, <2>3 DEF CreateCheckPending
  <2>4. CASE ~HasPending(g, i)
    <3>1. Goto(h, "create_insert")
      BY <1>7, <2>1, <2>4 DEF CreateCheckPending
    <3>2. job'[h].pc = "create_insert" /\ job'[h].group = g /\ job'[h].identity = i
      BY <1>2, <2>1, <3>1 DEF Places
    <3>3. ~IsMember(g, i)' /\ ~HasPending(g, i)'
      BY <2>2, <2>4, SameAnswers
    <3> QED  BY <3>2, <3>3 DEF Promise
  <2> QED  BY <2>3, <2>4
<1>8. CASE ApproveAuthorize(h) \/ DenyAuthorize(h)
  <2>1. PICK a, g : a = job[h].actor /\ g = requests[job[h].row].group
    OBVIOUS
  <2>2. UNCHANGED tables
    BY <1>8 DEF ApproveAuthorize, DenyAuthorize
  <2>3. CASE is_group_owner(a, g)
    <3>1. PICK p \in {"approve_record", "deny_write"} : Goto(h, p)
      BY <1>8, <2>1, <2>3 DEF ApproveAuthorize, DenyAuthorize
    <3>2. job'[h].pc = p /\ job'[h].actor = a /\ job'[h].row = job[h].row
      BY <1>2, <2>1, <3>1 DEF Places
    <3>3. requests'[job'[h].row].group = g
      BY <2>1, <2>2, <3>2 DEF tables
    <3>4. is_group_owner(a, g)'
      BY <2>2, <2>3, SameAnswers
    <3> QED  BY <3>1, <3>2, <3>3, <3>4 DEF Promise
  <2>4. CASE ~is_group_owner(a, g)
    <3>1. Goto(h, "approve_next") \/ Finish(h)
      BY <1>8, <2>1, <2>4 DEF ApproveAuthorize, DenyAuthorize
    <3>2. Goto(h, "approve_next") => job'[h].pc = "approve_next"
      BY <1>2 DEF Places
    <3> QED  BY <1>3, <1>4, <3>1, <3>2 DEF Promised
  <2> QED  BY <2>3, <2>4
<1>9. CASE ApproveCount(h)
  <2>1. PICK r : r = job[h].row
    OBVIOUS
  <2>2. CASE check_approval_complete(r)
    <3>1. Goto(h, "approve_finalize") /\ UNCHANGED tables
      BY <1>9, <2>1, <2>2 DEF ApproveCount
    <3>2. job'[h].pc = "approve_finalize" /\ job'[h].row = r
      BY <1>2, <2>1, <3>1 DEF Places
    <3>3. check_approval_complete(r)'
      BY <2>2, <3>1, SameAnswers
    <3> QED  BY <3>2, <3>3 DEF Promise
  <2>3. CASE ~check_approval_complete(r)
    <3>1. Goto(h, "approve_next")
      BY <1>9, <2>1, <2>3 DEF ApproveCount
    <3>2. job'[h].pc = "approve_next"
      BY <1>2, <3>1 DEF Places
    <3> QED  BY <1>3, <3>2 DEF Promised
  <2> QED  BY <2>2, <2>3
<1> QED  BY <1>3, <1>5, <1>6, <1>7, <1>8, <1>9, Elsewhere

\* A request is inserted only when the requester has no pending one.
LEMMA OnePendingStep ==
  ASSUME IInv, NEW h \in Handlers, Promise(h), OnePendingPerRequester,
         Call(h) \/ Continue(h) \/ Crash(h)
  PROVE  OnePendingPerRequester'
<1>1. CASE ~CreateInsert(h)
  <2>1. NoNewPending
    BY <1>1, OnlyInsertPends
  <2> QED  BY <2>1 DEF NoNewPending, OnePendingPerRequester
<1>2. CASE CreateInsert(h)
  <2>1. PICK g, i : g = job[h].group /\ i = job[h].identity
    OBVIOUS
  <2>2. ~HasPending(g, i)
    BY <1>2, <2>1 DEF CreateInsert, Step, At, Promise
  <2>3. PICK q : q.group = g /\ q.requester = i /\ requests' = Append(requests, q)
    BY <1>2, <2>1 DEF CreateInsert
  <2>4. requests \in Seq(RequestRow) /\ requests' \in Seq(RequestRow)
    BY <1>2, NextIInv DEF IInv, TypeOK, Next
  <2>5. /\ DOMAIN requests' = 1..(Len(requests) + 1) /\ DOMAIN requests = 1..Len(requests)
        /\ Len(requests) \in Nat
        /\ requests'[Len(requests) + 1] = q
        /\ \A r \in DOMAIN requests : requests'[r] = requests[r]
    BY <2>3, <2>4, LenProperties, AppendProperties
  <2> SUFFICES ASSUME NEW r \in DOMAIN requests', NEW s \in DOMAIN requests',
                      requests'[r].status = "pending", requests'[s].status = "pending",
                      requests'[r].group = requests'[s].group,
                      requests'[r].requester = requests'[s].requester, r # s
               PROVE  FALSE
    BY DEF OnePendingPerRequester
  <2>6. \A k \in DOMAIN requests' : k \in DOMAIN requests \/ k = Len(requests) + 1
    BY <2>5
  <2>7. CASE r \in DOMAIN requests /\ s \in DOMAIN requests
    BY <2>5, <2>7 DEF OnePendingPerRequester
  <2>8. CASE r \in DOMAIN requests /\ s = Len(requests) + 1
    BY <2>2, <2>3, <2>5, <2>8 DEF HasPending
  <2>9. CASE s \in DOMAIN requests /\ r = Len(requests) + 1
    BY <2>2, <2>3, <2>5, <2>9 DEF HasPending
  <2> QED  BY <2>6, <2>7, <2>8, <2>9
<1> QED  BY <1>1, <1>2

\* The first state.
LEMMA SerialInit ==
  ASSUME NEW h, Handlers = {h}
  PROVE  Init => SerialInv(h)
<1> SUFFICES ASSUME Init
             PROVE  SerialInv(h)
  OBVIOUS
<1>1. job[h].pc = "idle" /\ requests = <<>>
  BY DEF Init, Idle
<1> QED  BY <1>1 DEF SerialInv, HeldArePending, Promise, OnePendingPerRequester

\* A step keeps what one handler has checked, and the pending requests apart.
LEMMA SerialStep ==
  ASSUME NEW h, Handlers = {h}, IInv, SerialInv(h), [Next]_vars
  PROVE  SerialInv(h)'
<1>1. HeldArePending'
  BY HeldStep DEF SerialInv
<1>2. CASE Tick \/ UNCHANGED vars
  <2>1. UNCHANGED tables /\ UNCHANGED job
    BY <1>2, NoHandler
  <2>2. Promise(h)'
    <3>1. /\ UNCHANGED <<groups, memberships, requests, approvals>>
      BY <2>1 DEF tables
    <3>2. PICK a, r, g, i, k : /\ a = job[h].actor /\ r = job[h].row /\ g = job[h].group
                               /\ i = job[h].identity /\ k = requests[job[h].row].group
      OBVIOUS
    <3>3. /\ is_group_owner(a, k)' <=> is_group_owner(a, k)
          /\ check_approval_complete(r)' <=> check_approval_complete(r)
          /\ IsMember(g, i)' <=> IsMember(g, i)
          /\ HasPending(g, i)' <=> HasPending(g, i)
      BY <2>1, SameAnswers
    <3>4. /\ job'[h].actor = a /\ job'[h].row = r /\ job'[h].group = g
          /\ job'[h].identity = i /\ requests'[job'[h].row].group = k
          /\ job'[h].pc = job[h].pc
      BY <2>1, <3>1, <3>2
    <3> QED  BY <3>2, <3>3, <3>4 DEF SerialInv, Promise
  <2>3. OnePendingPerRequester'
    BY <2>1 DEF SerialInv, OnePendingPerRequester, tables
  <2> QED  BY <1>1, <2>2, <2>3 DEF SerialInv
<1>3. CASE Call(h) \/ Continue(h) \/ Crash(h)
  BY <1>1, <1>3, PromiseStep, OnePendingStep DEF SerialInv, IInv
<1> QED  BY <1>2, <1>3 DEF Next

\* With one handler at a time, nobody has two pending requests for a group, wherever
\* the handler may die.
THEOREM OnePendingTheorem ==
  ASSUME NEW h, Handlers = {h}
  PROVE  Spec => []OnePendingPerRequester
<1>1. Init => SerialInv(h)
  BY SerialInit
<1>2. IInv /\ SerialInv(h) /\ [Next]_vars => SerialInv(h)'
  BY SerialStep
<1>3. SerialInv(h) => OnePendingPerRequester
  BY DEF SerialInv
<1> QED  BY <1>1, <1>2, <1>3, Invariance, PTL DEF Spec

\* Only approve_request and deny_request add a vote.
LEMMA OnlyVotersVote ==
  ASSUME NEW h \in Handlers, [Next]_vars, Handlers = {h},
         ~ApproveRecord(h), ~DenyWrite(h)
  PROVE  UNCHANGED approvals
<1>1. CASE Tick \/ UNCHANGED vars
  BY <1>1, NoHandler DEF tables
<1>2. CASE Call(h) \/ Crash(h)
  BY <1>2 DEF Call, CreateCheckMember, ApproveRead, DenyRead, CancelRead, AddCheck,
     RemoveFind, UpdateGroup, SweepSelect, StaleSelect, Crash, tables
<1>3. CASE Continue(h)
  <2>1. CASE \/ CreateCheckPending(h) \/ CreateInsert(h) \/ ApproveNext(h)
             \/ ApproveAuthorize(h) \/ ApproveCount(h) \/ ApproveFinalize(h)
             \/ ApproveSync(h) \/ DenyAuthorize(h) \/ CancelWrite(h)
    BY <2>1 DEF CreateCheckPending, CreateInsert, ApproveNext, ApproveAuthorize,
       ApproveCount, ApproveFinalize, ApproveSync, DenyAuthorize, CancelWrite, tables
  <2>2. CASE \/ AddInsert(h) \/ AddSync(h) \/ RemoveSync(h) \/ RemoveDelete(h)
             \/ SweepSync(h) \/ SweepDelete(h) \/ StaleWrite(h)
    BY <2>2 DEF AddInsert, AddSync, RemoveSync, RemoveDelete, SweepSync, SweepDelete,
       StaleWrite
  <2> QED  BY <1>3, <2>1, <2>2 DEF Continue
<1> QED  BY <1>1, <1>2, <1>3 DEF Next

\* The vote a step adds is an owner's, on a pending request.
LEMMA OwnersVote ==
  ASSUME NEW h, Handlers = {h}, IInv, SerialInv(h), [Next]_vars,
         NEW k \in DOMAIN approvals' \ DOMAIN approvals
  PROVE  /\ requests[approvals'[k].request].status = "pending"
         /\ is_group_owner(approvals'[k].approver,
                           requests[approvals'[k].request].group)
<1>1. ApproveRecord(h) \/ DenyWrite(h)
  BY OnlyVotersVote
<1>2. job[h].pc \in {"approve_record", "deny_write"}
  BY <1>1 DEF ApproveRecord, DenyWrite, Step, At
<1>3. job[h].row \in DOMAIN requests
  BY <1>2 DEF IInv, LocalsOK, LocalOK, OnRequest
<1>4. requests[job[h].row].status = "pending"
  BY <1>2, <1>3 DEF SerialInv, HeldArePending, Holds
<1>5. is_group_owner(job[h].actor, requests[job[h].row].group)
  BY <1>2 DEF SerialInv, Promise
<1>6. PICK v : /\ v.request = job[h].row /\ v.approver = job[h].actor
               /\ approvals' = Append(approvals, v)
  BY <1>1 DEF ApproveRecord, DenyWrite
<1>7. approvals'[k] = v
  <2>1. approvals \in Seq(ApprovalRow) /\ approvals' \in Seq(ApprovalRow)
    BY NextIInv DEF IInv, TypeOK
  <2>2. /\ DOMAIN approvals' = 1..(Len(approvals) + 1)
        /\ DOMAIN approvals = 1..Len(approvals) /\ Len(approvals) \in Nat
        /\ approvals'[Len(approvals) + 1] = v
    BY <1>6, <2>1, LenProperties, AppendProperties
  <2>3. k = Len(approvals) + 1
    BY <2>2
  <2> QED  BY <2>2, <2>3
<1> QED  BY <1>4, <1>5, <1>6, <1>7

\* With one handler at a time, every vote is cast on a pending request by somebody
\* who owns its group at that moment.
THEOREM OnlyOwnersDecideTheorem ==
  ASSUME NEW h, Handlers = {h}
  PROVE  Spec => OnlyOwnersDecide
<1>1. Init => SerialInv(h)
  BY SerialInit
<1>2. IInv /\ SerialInv(h) /\ [Next]_vars => SerialInv(h)'
  BY SerialStep
<1>3. IInv /\ SerialInv(h) /\ [Next]_vars =>
        [\A k \in DOMAIN approvals' \ DOMAIN approvals :
            /\ requests[approvals'[k].request].status = "pending"
            /\ is_group_owner(approvals'[k].approver,
                              requests[approvals'[k].request].group)]_vars
  BY OwnersVote
<1> QED  BY <1>1, <1>2, <1>3, Invariance, PTL DEF Spec, OnlyOwnersDecide

\* A request becomes approved only at the end of approve_request.
LEMMA OnlyFinalizeApproves ==
  ASSUME NEW h, Handlers = {h}, IInv, [Next]_vars, NEW r \in DOMAIN requests,
         requests'[r].status = "approved", requests[r].status # "approved"
  PROVE  ApproveFinalize(h) /\ r = job[h].row
<1>1. ASSUME NEW s \in DOMAIN requests, NEW q \in RequestRow,
             q.group = requests[s].group, q.requester = requests[s].requester,
             q.expires = requests[s].expires,
             requests' = [requests EXCEPT ![s] = q]
      PROVE  r = s /\ q.status = "approved"
  BY <1>1, UpdateRequest DEF IInv
<1>2. ASSUME NEW s \in DOMAIN requests, NEW status \in Statuses \ {"approved"},
             \/ requests' = [requests EXCEPT ![s].status = status]
             \/ \E by \in Identities :
                   requests' = [requests EXCEPT ![s].status = status, ![s].decidedBy = by]
      PROVE  FALSE
  <2>1. requests[s] \in RequestRow
    BY RequestType DEF IInv
  <2>2. CASE requests' = [requests EXCEPT ![s].status = status]
    <3> DEFINE q == [requests[s] EXCEPT !.status = status]
    <3>1. /\ q \in RequestRow /\ q.group = requests[s].group /\ q.status = status
          /\ q.requester = requests[s].requester /\ q.expires = requests[s].expires
      BY <2>1 DEF RequestRow
    <3>2. requests' = [requests EXCEPT ![s] = q]
      BY <2>2
    <3> HIDE DEF q
    <3> QED  BY <1>1, <3>1, <3>2
  <2>3. ASSUME NEW by \in Identities,
               requests' = [requests EXCEPT ![s].status = status, ![s].decidedBy = by]
        PROVE  FALSE
    <3> DEFINE q == [requests[s] EXCEPT !.status = status, !.decidedBy = by]
    <3>1. /\ q \in RequestRow /\ q.group = requests[s].group /\ q.status = status
          /\ q.requester = requests[s].requester /\ q.expires = requests[s].expires
      BY <2>1 DEF RequestRow
    <3>2. requests' = [requests EXCEPT ![s] = q]
      BY <2>3
    <3> HIDE DEF q
    <3> QED  BY <1>1, <3>1, <3>2
  <2> QED  BY <1>2, <2>2, <2>3
<1>3. job[h] \in Job /\ LocalOK(h)
  BY DEF IInv, TypeOK, LocalsOK
<1>4. requests' # requests
  OBVIOUS
<1>5. CASE CreateInsert(h)
  <2>1. PICK q : requests' = Append(requests, q)
    BY <1>5 DEF CreateInsert
  <2>2. requests \in Seq(RequestRow) /\ requests' \in Seq(RequestRow)
    BY NextIInv DEF IInv, TypeOK
  <2>3. requests'[r] = requests[r]
    <3>1. Len(requests) \in Nat /\ Len(requests') = Len(requests) + 1
          /\ r \in 1..Len(requests)
      BY <2>1, <2>2, LenProperties
    <3> QED  BY <2>1, <2>2, <3>1, AppendProperties
  <2> QED  BY <2>3
<1>6. CASE DenyWrite(h)
  <2>1. job[h].row \in DOMAIN requests /\ job[h].actor \in Identities
    BY <1>3, <1>6 DEF DenyWrite, Step, At, LocalOK, OnRequest
  <2> QED  BY <1>2, <1>6, <2>1 DEF DenyWrite, Statuses
<1>7. CASE CancelWrite(h)
  <2>1. job[h].row \in DOMAIN requests
    BY <1>3, <1>7 DEF CancelWrite, Step, At, LocalOK, OnRequest
  <2>2. PICK s \in DOMAIN requests : s = job[h].row
    BY <2>1
  <2>3. requests' = [requests EXCEPT ![s].status = "cancelled"]
    BY <1>7, <2>2 DEF CancelWrite
  <2> QED  BY <1>2, <2>3 DEF Statuses
<1>8. CASE StaleWrite(h)
  <2>1. job[h].todo \subseteq DOMAIN requests
    BY <1>3, <1>8 DEF StaleWrite, Step, At, LocalOK, Approving
  <2>2. PICK s \in job[h].todo : requests' = [requests EXCEPT ![s].status = "expired"]
    BY <1>8 DEF StaleWrite
  <2> QED  BY <1>2, <2>1, <2>2 DEF Statuses
<1>9. CASE ApproveFinalize(h)
  <2>1. job[h].row \in DOMAIN requests /\ job[h].actor \in Identities
    BY <1>3, <1>9 DEF ApproveFinalize, Step, At, LocalOK, OnRequest, Approving
  <2>2. requests[job[h].row] \in RequestRow
    BY <2>1, RequestType DEF IInv
  <2> DEFINE s == job[h].row
             q == [requests[s] EXCEPT !.status = "approved", !.decidedBy = job[h].actor]
  <2>3. /\ q \in RequestRow /\ q.group = requests[s].group
        /\ q.requester = requests[s].requester /\ q.expires = requests[s].expires
    BY <2>1, <2>2 DEF RequestRow, Statuses
  <2>4. requests' = [requests EXCEPT ![s] = q]
    BY <1>9 DEF ApproveFinalize
  <2> HIDE DEF q
  <2>5. r = s
    BY <1>1, <2>1, <2>3, <2>4
  <2> QED  BY <1>9, <2>5
<1>10. CASE Tick \/ UNCHANGED vars
  BY <1>4, <1>10, NoHandler DEF tables
<1>11. CASE Call(h) \/ Crash(h)
  BY <1>4, <1>11 DEF Call, CreateCheckMember, ApproveRead, DenyRead, CancelRead, AddCheck,
     RemoveFind, UpdateGroup, SweepSelect, StaleSelect, Crash, tables
<1>12. CASE Continue(h)
  <2>1. CASE \/ CreateCheckPending(h) \/ ApproveNext(h)
             \/ ApproveAuthorize(h) \/ ApproveRecord(h)
             \/ ApproveCount(h) \/ ApproveSync(h) \/ DenyAuthorize(h)
    BY <1>4, <2>1 DEF CreateCheckPending, ApproveNext, ApproveAuthorize,
       ApproveRecord, ApproveCount, ApproveSync, DenyAuthorize, tables
  <2>2. CASE \/ AddInsert(h) \/ AddSync(h) \/ RemoveSync(h)
             \/ RemoveDelete(h) \/ SweepSync(h) \/ SweepDelete(h)
    BY <1>4, <2>2 DEF AddInsert, AddSync, RemoveSync, RemoveDelete,
       SweepSync, SweepDelete
  <2> QED  BY <1>5, <1>6, <1>7, <1>8, <1>9, <1>12, <2>1, <2>2 DEF Continue
<1> QED  BY <1>10, <1>11, <1>12 DEF Next

\* With one handler at a time, a request becomes approved only where the votes
\* recorded satisfy its group's mode as it is at that moment.
THEOREM ApprovedWhenCompleteTheorem ==
  ASSUME NEW h, Handlers = {h}
  PROVE  Spec => ApprovedOnlyWhenComplete
<1>1. Init => SerialInv(h)
  BY SerialInit
<1>2. IInv /\ SerialInv(h) /\ [Next]_vars => SerialInv(h)'
  BY SerialStep
<1>3. IInv /\ SerialInv(h) /\ [Next]_vars =>
        [\A r \in DOMAIN requests :
            (requests'[r].status = "approved" /\ requests[r].status # "approved")
               => check_approval_complete(r)]_vars
  <2> SUFFICES ASSUME IInv, SerialInv(h), [Next]_vars, NEW r \in DOMAIN requests,
                      requests'[r].status = "approved", requests[r].status # "approved"
               PROVE  check_approval_complete(r)
    OBVIOUS
  <2>1. ApproveFinalize(h) /\ r = job[h].row
    BY OnlyFinalizeApproves
  <2>2. job[h].pc = "approve_finalize"
    BY <2>1 DEF ApproveFinalize, Step, At
  <2> QED  BY <2>1, <2>2 DEF SerialInv, Promise
<1> QED  BY <1>1, <1>2, <1>3, Invariance, PTL DEF Spec, ApprovedOnlyWhenComplete

-----------------------------------------------------------------------------
(***************************************************************************)
(* Membership rows                                                         *)
(***************************************************************************)
Marked(m) == memberships' = (memberships \ {m}) \union {[m EXCEPT !.synced = TRUE]}

\* Nobody is a member twice at the start.
DistinctMembers ==
    \A j, k \in DOMAIN InitMembers :
        InitMembers[j][1] = InitMembers[k][1] /\ InitMembers[j][2] = InitMembers[k][2]
           => j = k

GrantInv == AtMostOneGrant /\ PendingUngranted

\* What a sync does to the table.
LEMMA SyncMarks ==
  ASSUME NEW g, NEW i, sync_membership_to_provider(g, i)
  PROVE  UNCHANGED memberships \/ \E m \in memberships : Marked(m)
  BY DEF sync_membership_to_provider, RowsOf, Marked

\* A step leaves the rows alone, marks one as synced, deletes or inserts.
LEMMA MembershipChange ==
  ASSUME NEW h \in Handlers, Call(h) \/ Continue(h) \/ Crash(h),
         ~RemoveDelete(h), ~SweepDelete(h), ~ApproveFinalize(h), ~AddInsert(h)
  PROVE  /\ UNCHANGED lastId
         /\ UNCHANGED memberships \/ \E m \in memberships : Marked(m)
<1>1. CASE Call(h) \/ Crash(h)
  BY <1>1 DEF Call, CreateCheckMember, ApproveRead, DenyRead, CancelRead, AddCheck,
     RemoveFind, UpdateGroup, SweepSelect, StaleSelect, Crash, tables
<1>2. CASE Continue(h)
  <2>1. CASE \/ CreateCheckPending(h) \/ CreateInsert(h) \/ ApproveNext(h)
             \/ ApproveAuthorize(h) \/ ApproveRecord(h) \/ ApproveCount(h)
             \/ DenyAuthorize(h) \/ DenyWrite(h) \/ CancelWrite(h) \/ StaleWrite(h)
    BY <2>1 DEF CreateCheckPending, CreateInsert, ApproveNext, ApproveAuthorize,
       ApproveRecord, ApproveCount, DenyAuthorize, DenyWrite, CancelWrite, StaleWrite,
       tables
  <2>2. CASE ApproveSync(h)
    BY <2>2, SyncMarks DEF ApproveSync
  <2>3. CASE AddSync(h)
    BY <2>3, SyncMarks DEF AddSync
  <2>4. CASE RemoveSync(h)
    BY <2>4, SyncMarks DEF RemoveSync
  <2>5. CASE SweepSync(h)
    BY <2>5, SyncMarks DEF SweepSync
  <2> QED  BY <1>2, <2>1, <2>2, <2>3, <2>4, <2>5 DEF Continue
<1> QED  BY <1>1, <1>2

\* Rows that are marked or deleted leave no pair with more grants than before.
LEMMA MarkedKeepsGrants ==
  ASSUME TypeOK, GrantInv, NoNewPending,
         memberships' \subseteq memberships \/ \E m \in memberships : Marked(m)
  PROVE  GrantInv'
<1>1. CASE memberships' \subseteq memberships
  BY <1>1 DEF GrantInv, AtMostOneGrant, PendingUngranted, NoNewPending
<1>2. ASSUME NEW x \in memberships, Marked(x)
      PROVE  GrantInv'
  <2> DEFINE y == [x EXCEPT !.synced = TRUE]
  <2>1. /\ y.group = x.group /\ y.identity = x.identity /\ y.via = x.via
    BY DEF TypeOK, MembershipRow
  <2>2. memberships' = (memberships \ {x}) \union {y}
    BY <1>2 DEF Marked
  <2> HIDE DEF y
  <2>3. AtMostOneGrant'
    BY <2>1, <2>2 DEF GrantInv, AtMostOneGrant
  <2>4. PendingUngranted'
    BY <2>1, <2>2 DEF GrantInv, PendingUngranted, NoNewPending
  <2> QED  BY <2>3, <2>4 DEF GrantInv
<1> QED  BY <1>1, <1>2

\* A step of the only handler grants nobody a membership twice.
LEMMA GrantStep ==
  ASSUME NEW h, Handlers = {h}, IInv, SerialInv(h), GrantInv, [Next]_vars
  PROVE  GrantInv'
<1>1. CASE Tick \/ UNCHANGED vars
  BY <1>1, NoHandler DEF GrantInv, AtMostOneGrant, PendingUngranted, tables
<1>2. CASE CreateInsert(h)
  <2>1. UNCHANGED memberships
    BY <1>2 DEF CreateInsert
  <2>2. PICK g, i : g = job[h].group /\ i = job[h].identity
    OBVIOUS
  <2>3. ~IsMember(g, i)
    BY <1>2, <2>2 DEF CreateInsert, Step, At, SerialInv, Promise
  <2>4. PICK q : q.group = g /\ q.requester = i /\ requests' = Append(requests, q)
    BY <1>2, <2>2 DEF CreateInsert
  <2>5. requests \in Seq(RequestRow) /\ requests' \in Seq(RequestRow)
    BY NextIInv DEF IInv, TypeOK
  <2>6. /\ DOMAIN requests' = 1..(Len(requests) + 1) /\ DOMAIN requests = 1..Len(requests)
        /\ Len(requests) \in Nat
        /\ requests'[Len(requests) + 1] = q
        /\ \A r \in DOMAIN requests : requests'[r] = requests[r]
    BY <2>4, <2>5, LenProperties, AppendProperties
  <2>7. \A r \in DOMAIN requests' : r \in DOMAIN requests \/ r = Len(requests) + 1
    BY <2>6
  <2>8. PendingUngranted'
    BY <2>1, <2>3, <2>4, <2>6, <2>7 DEF GrantInv, PendingUngranted, IsMember
  <2> QED  BY <2>1, <2>8 DEF GrantInv, AtMostOneGrant
<1>3. CASE ApproveFinalize(h)
  <2>1. PICK r : r = job[h].row
    OBVIOUS
  <2>2. job[h].pc = "approve_finalize" /\ r \in DOMAIN requests /\ job[h].actor \in Identities
    BY <1>3, <2>1 DEF ApproveFinalize, Step, At, IInv, LocalsOK, LocalOK, OnRequest,
       Approving
  <2>3. requests[r].status = "pending" /\ requests[r] \in RequestRow /\ r # 0
    <3>1. requests[r] \in RequestRow /\ r \in 1..Len(requests)
      BY <2>2, RequestType DEF IInv
    <3> QED  BY <2>1, <2>2, <3>1 DEF SerialInv, HeldArePending, Holds
  <2>4. PICK row : /\ row.group = requests[r].group /\ row.via = r
                   /\ row.identity = requests[r].requester
                   /\ memberships' = memberships \union {row}
    BY <1>3, <2>1 DEF ApproveFinalize, InsertMembership
  <2>5. NoNewPending
    BY <1>3, OnlyInsertPends DEF Continue, ApproveFinalize, CreateInsert, Step, At
  <2>6. requests'[r].status # "pending"
    <3> DEFINE q == [requests[r] EXCEPT !.status = "approved", !.decidedBy = job[h].actor]
    <3>1. /\ q \in RequestRow /\ q.status = "approved" /\ q.group = requests[r].group
          /\ q.requester = requests[r].requester /\ q.expires = requests[r].expires
      BY <2>2, <2>3 DEF RequestRow, Statuses
    <3>2. requests' = [requests EXCEPT ![r] = q]
      BY <1>3, <2>1 DEF ApproveFinalize
    <3> HIDE DEF q
    <3> QED  BY <2>2, <3>1, <3>2, UpdateRequest DEF IInv
  <2>7. \A m \in memberships : m.group = row.group /\ m.identity = row.identity
                                  => m.via = 0
    BY <2>2, <2>3, <2>4 DEF GrantInv, PendingUngranted
  <2>8. AtMostOneGrant'
    BY <2>3, <2>4, <2>7 DEF GrantInv, AtMostOneGrant
  <2>9. PendingUngranted'
    <3> SUFFICES ASSUME NEW s \in DOMAIN requests', NEW m \in memberships',
                        requests'[s].status = "pending",
                        m.group = requests'[s].group, m.identity = requests'[s].requester
                 PROVE  m.via = 0
      BY DEF PendingUngranted
    <3>1. /\ s \in DOMAIN requests /\ requests[s].status = "pending"
          /\ m.group = requests[s].group /\ m.identity = requests[s].requester
      BY <2>5 DEF NoNewPending
    <3>2. CASE m \in memberships
      BY <3>1, <3>2 DEF GrantInv, PendingUngranted
    <3>3. CASE m = row
      <4>1. s = r
        BY <2>2, <2>3, <2>4, <3>1, <3>3 DEF SerialInv, OnePendingPerRequester
      <4> QED  BY <2>6, <4>1
    <3> QED  BY <2>4, <3>2, <3>3
  <2> QED  BY <2>8, <2>9 DEF GrantInv
<1>4. CASE AddInsert(h)
  <2>1. PICK g, i : g = job[h].group /\ i = job[h].identity
    OBVIOUS
  <2>2. ~IsMember(g, i) /\ UNCHANGED requests
    BY <1>4, <2>1 DEF AddInsert, Step, At, SerialInv, Promise
  <2>3. PICK row : /\ row.group = g /\ row.identity = i /\ row.via = 0
                   /\ memberships' = memberships \union {row}
    BY <1>4, <2>1 DEF AddInsert, InsertMembership
  <2>4. AtMostOneGrant'
    BY <2>2, <2>3 DEF GrantInv, AtMostOneGrant, IsMember
  <2>5. PendingUngranted'
    BY <2>2, <2>3 DEF GrantInv, PendingUngranted
  <2> QED  BY <2>4, <2>5 DEF GrantInv
<1>5. CASE /\ Call(h) \/ Continue(h) \/ Crash(h)
           /\ ~CreateInsert(h) /\ ~ApproveFinalize(h) /\ ~AddInsert(h)
  <2>1. NoNewPending
    BY <1>5, OnlyInsertPends
  <2>2. CASE RemoveDelete(h) \/ SweepDelete(h)
    <3>1. memberships' \subseteq memberships
      BY <2>2 DEF RemoveDelete, SweepDelete, DeleteMembership
    <3> QED  BY <2>1, <3>1, MarkedKeepsGrants DEF IInv
  <2>3. CASE ~RemoveDelete(h) /\ ~SweepDelete(h)
    <3>1. UNCHANGED memberships \/ \E m \in memberships : Marked(m)
      BY <1>5, <2>3, MembershipChange
    <3> QED  BY <2>1, <3>1, MarkedKeepsGrants DEF IInv
  <2> QED  BY <2>2, <2>3
<1> QED  BY <1>1, <1>2, <1>3, <1>4, <1>5 DEF Next

\* With one handler at a time, and nobody a member twice at the start, a person has
\* at most one membership of a group from an administrator and one from a request.
THEOREM AtMostOneGrantTheorem ==
  ASSUME NEW h, Handlers = {h}, DistinctMembers
  PROVE  Spec => []AtMostOneGrant
<1>1. Init => SerialInv(h)
  BY SerialInit
<1>2. Init => GrantInv
  <2> SUFFICES ASSUME Init
               PROVE  GrantInv
    OBVIOUS
  <2>1. \A m \in memberships : \E k \in DOMAIN InitMembers :
           m = [id |-> k, group |-> InitMembers[k][1], identity |-> InitMembers[k][2],
                via |-> 0, expires |-> None, linked |-> FALSE, synced |-> FALSE]
    BY DEF Init
  <2>2. AtMostOneGrant
    <3> SUFFICES ASSUME NEW m \in memberships, NEW n \in memberships,
                        m.group = n.group, m.identity = n.identity
                 PROVE  m = n
      BY DEF AtMostOneGrant
    <3>1. PICK j \in DOMAIN InitMembers :
             m = [id |-> j, group |-> InitMembers[j][1], identity |-> InitMembers[j][2],
                  via |-> 0, expires |-> None, linked |-> FALSE, synced |-> FALSE]
      BY <2>1
    <3>2. PICK k \in DOMAIN InitMembers :
             n = [id |-> k, group |-> InitMembers[k][1], identity |-> InitMembers[k][2],
                  via |-> 0, expires |-> None, linked |-> FALSE, synced |-> FALSE]
      BY <2>1
    <3>3. InitMembers[j][1] = InitMembers[k][1] /\ InitMembers[j][2] = InitMembers[k][2]
      BY <3>1, <3>2
    <3> QED  BY <3>1, <3>2, <3>3 DEF DistinctMembers
  <2>3. PendingUngranted
    BY <2>1 DEF PendingUngranted
  <2> QED  BY <2>2, <2>3 DEF GrantInv
<1>3. IInv /\ SerialInv(h) /\ [Next]_vars => SerialInv(h)'
  BY SerialStep
<1>4. IInv /\ SerialInv(h) /\ GrantInv /\ [Next]_vars => GrantInv'
  BY GrantStep
<1>5. GrantInv => AtMostOneGrant
  BY DEF GrantInv
<1> QED  BY <1>1, <1>2, <1>3, <1>4, <1>5, Invariance, PTL DEF Spec

-----------------------------------------------------------------------------
(***************************************************************************)
(* Any number of handlers: what a sweep has selected stays lapsed          *)
(***************************************************************************)
UniqueIds ==
    /\ \A m \in memberships : m.id <= lastId
    /\ \A m, n \in memberships : m.id = n.id => m = n

\* No row has this id, now or later, except one that has lapsed.
Doomed(k) == k <= lastId /\ \A m \in memberships : m.id = k => Lapsed(m)

Sweeping == {"sweep_sync", "sweep_delete"}

\* What handler h is about to delete as lapsed.
SweepsLapsed(h) ==
    /\ job[h].pc \in Sweeping => \A x \in job[h].expired : Doomed(x.id)
    /\ job[h].pc = "sweep_delete" => Doomed(job[h].row)

SweepInv == UniqueIds /\ \A h \in Handlers : SweepsLapsed(h)

\* An id is given out once.
LEMMA InsertKeepsIds ==
  ASSUME TypeOK, UniqueIds, NEW g, NEW i, NEW via, NEW e, NEW linked,
         InsertMembership(g, i, via, e, linked)
  PROVE  /\ UniqueIds'
         /\ lastId' = lastId + 1
         /\ \A m \in memberships' : m \in memberships \/ m.id = lastId + 1
         /\ memberships \subseteq memberships'
<1>1. PICK row : /\ row.id = lastId + 1 /\ lastId' = lastId + 1
                 /\ memberships' = memberships \union {row}
  BY DEF InsertMembership
<1>2. /\ lastId \in Nat /\ \A m \in memberships : m.id \in Nat /\ m.id <= lastId
  BY DEF TypeOK, MembershipRow, UniqueIds
<1>3. \A m \in memberships : m.id # lastId + 1 /\ m.id <= lastId + 1
  BY <1>2
<1>4. UniqueIds'
  BY <1>1, <1>2, <1>3 DEF UniqueIds
<1> QED  BY <1>1, <1>4

\* What a step does to the ids of rows: it invents none below the serial, keeps the
\* expiry of each, and loses one only by a delete.
LEMMA IdStep ==
  ASSUME TypeOK, UniqueIds, [Next]_vars
  PROVE  /\ UniqueIds'
         /\ lastId <= lastId' /\ clock <= clock'
         /\ \A n \in memberships' :
               \/ n.id = lastId + 1
               \/ \E m \in memberships : m.id = n.id /\ m.expires = n.expires
         /\ \A m \in memberships :
               \/ \E n \in memberships' : n.id = m.id
               \/ \E h \in Handlers : /\ RemoveDelete(h) \/ SweepDelete(h)
                                      /\ job[h].row = m.id
<1>1. lastId \in Nat /\ clock \in Nat /\ memberships \subseteq MembershipRow
  BY DEF TypeOK
<1>2. CASE Tick \/ UNCHANGED vars
  BY <1>1, <1>2 DEF Tick, vars, UniqueIds
<1>3. ASSUME NEW h \in Handlers, Call(h) \/ Continue(h) \/ Crash(h)
      PROVE  UNCHANGED clock
  <2>1. CASE Call(h) \/ Crash(h)
    BY <2>1 DEF Call, CreateCheckMember, ApproveRead, DenyRead, CancelRead, AddCheck,
       RemoveFind, UpdateGroup, SweepSelect, StaleSelect, Crash, Begin
  <2>2. CASE Continue(h)
    <3>1. CASE \/ CreateCheckPending(h) \/ CreateInsert(h) \/ ApproveNext(h)
               \/ ApproveAuthorize(h) \/ ApproveRecord(h) \/ ApproveCount(h)
               \/ ApproveFinalize(h) \/ ApproveSync(h)
               \/ DenyAuthorize(h) \/ DenyWrite(h) \/ CancelWrite(h) \/ StaleWrite(h)
      BY <3>1 DEF CreateCheckPending, CreateInsert, ApproveNext, ApproveAuthorize,
         ApproveRecord, ApproveCount, ApproveFinalize, ApproveSync, DenyAuthorize,
         DenyWrite, CancelWrite, StaleWrite, Step
    <3>2. CASE \/ AddInsert(h) \/ AddSync(h) \/ RemoveSync(h) \/ RemoveDelete(h)
               \/ SweepSync(h) \/ SweepDelete(h)
      BY <3>2 DEF AddInsert, AddSync, RemoveSync, RemoveDelete, SweepSync, SweepDelete,
         Step
    <3> QED  BY <2>2, <3>1, <3>2 DEF Continue
  <2> QED  BY <1>3, <2>1, <2>2
<1>4. ASSUME NEW h \in Handlers, RemoveDelete(h) \/ SweepDelete(h)
      PROVE  /\ UniqueIds' /\ lastId' = lastId
             /\ memberships' = {m \in memberships : m.id # job[h].row}
  <2>1. lastId' = lastId /\ memberships' = {m \in memberships : m.id # job[h].row}
    BY <1>4 DEF RemoveDelete, SweepDelete, DeleteMembership
  <2> QED  BY <2>1 DEF UniqueIds
<1>5. ASSUME NEW h \in Handlers, RemoveDelete(h) \/ SweepDelete(h)
      PROVE  \A m \in memberships : m \in memberships' \/ job[h].row = m.id
  BY <1>4, <1>5
<1>6. ASSUME NEW x \in memberships, Marked(x), UNCHANGED lastId
      PROVE  /\ UniqueIds'
             /\ \A n \in memberships' :
                   \E m \in memberships : m.id = n.id /\ m.expires = n.expires
             /\ \A m \in memberships : \E n \in memberships' : n.id = m.id
  <2> DEFINE y == [x EXCEPT !.synced = TRUE]
  <2>1. y.id = x.id /\ y.expires = x.expires
    BY <1>1 DEF MembershipRow
  <2>2. memberships' = (memberships \ {x}) \union {y}
    BY <1>6 DEF Marked
  <2> HIDE DEF y
  <2> QED  BY <1>6, <2>1, <2>2 DEF UniqueIds
<1>7. ASSUME NEW h \in Handlers, ApproveFinalize(h) \/ AddInsert(h)
      PROVE  /\ UniqueIds'
             /\ lastId' = lastId + 1
             /\ \A m \in memberships' : m \in memberships \/ m.id = lastId + 1
             /\ memberships \subseteq memberships'
  <2>1. \E g, i, via, e, linked : InsertMembership(g, i, via, e, linked)
    BY <1>7 DEF ApproveFinalize, AddInsert
  <2> QED  BY <2>1, InsertKeepsIds
<1>8. ASSUME NEW h \in Handlers, Call(h) \/ Continue(h) \/ Crash(h),
             ~RemoveDelete(h), ~SweepDelete(h), ~ApproveFinalize(h), ~AddInsert(h)
      PROVE  /\ UniqueIds' /\ lastId' = lastId
             /\ \A n \in memberships' :
                   \E m \in memberships : m.id = n.id /\ m.expires = n.expires
             /\ \A m \in memberships : \E n \in memberships' : n.id = m.id
  <2>1. UNCHANGED lastId /\ (UNCHANGED memberships \/ \E m \in memberships : Marked(m))
    BY <1>8, MembershipChange
  <2>2. CASE UNCHANGED memberships
    BY <2>1, <2>2 DEF UniqueIds
  <2> QED  BY <1>6, <2>1, <2>2
<1>9. CASE \E h \in Handlers : Call(h) \/ Continue(h) \/ Crash(h)
  <2>1. PICK h \in Handlers : Call(h) \/ Continue(h) \/ Crash(h)
    BY <1>9
  <2>2. CASE RemoveDelete(h) \/ SweepDelete(h)
    BY <1>1, <1>3, <1>4, <1>5, <2>1, <2>2
  <2>3. CASE ApproveFinalize(h) \/ AddInsert(h)
    BY <1>1, <1>3, <1>7, <2>1, <2>3
  <2> QED  BY <1>1, <1>3, <1>8, <2>1, <2>2, <2>3
<1> QED  BY <1>2, <1>9 DEF Next

\* A step moves one handler.
LEMMA OneMoves ==
  ASSUME TypeOK, NEW h \in Handlers, Call(h) \/ Continue(h) \/ Crash(h)
  PROVE  OthersWait(h)
<1>1. ASSUME NEW j, job' = [job EXCEPT ![h] = j]
      PROVE  OthersWait(h)
  BY <1>1 DEF TypeOK, OthersWait
<1>2. CASE Call(h) \/ Crash(h)
  <2>1. \E j : job' = [job EXCEPT ![h] = j]
    BY <1>2 DEF Call, CreateCheckMember, ApproveRead, DenyRead, CancelRead, AddCheck,
       RemoveFind, UpdateGroup, SweepSelect, StaleSelect, Crash, Begin, Finish
  <2> QED  BY <1>1, <2>1
<1>3. CASE Continue(h)
  <2>1. CASE ApproveNext(h) \/ SweepSync(h) \/ StaleWrite(h)
    BY <2>1 DEF ApproveNext, SweepSync, StaleWrite, Finish, TypeOK, OthersWait
  <2>2. CASE \/ CreateCheckPending(h) \/ CreateInsert(h)
             \/ ApproveAuthorize(h) \/ ApproveRecord(h) \/ ApproveCount(h)
             \/ ApproveFinalize(h) \/ ApproveSync(h)
             \/ DenyAuthorize(h) \/ DenyWrite(h) \/ CancelWrite(h)
    BY <2>2 DEF CreateCheckPending, CreateInsert, ApproveAuthorize, ApproveRecord,
       ApproveCount, ApproveFinalize, ApproveSync, DenyAuthorize,
       DenyWrite, CancelWrite, Goto, Finish, TypeOK, OthersWait
  <2>3. CASE \/ AddInsert(h) \/ AddSync(h) \/ RemoveSync(h) \/ RemoveDelete(h)
             \/ SweepDelete(h)
    BY <2>3 DEF AddInsert, AddSync, RemoveSync, RemoveDelete, SweepDelete,
       Goto, Finish, TypeOK, OthersWait
  <2> QED  BY <1>3, <2>1, <2>2, <2>3 DEF Continue
<1> QED  BY <1>2, <1>3

\* Only the sweep's own steps end in the sweep.
LEMMA OnlySweepsSweep ==
  ASSUME TypeOK, NEW h \in Handlers, Call(h) \/ Continue(h) \/ Crash(h),
         ~SweepSelect(h), ~SweepSync(h), ~SweepDelete(h)
  PROVE  job'[h].pc \notin Sweeping
<1>1. job[h] \in Job /\ job \in [Handlers -> Job]
  BY DEF TypeOK
<1>2. ASSUME Finish(h)
      PROVE  job'[h].pc \notin Sweeping
  BY <1>2, FinishEffect DEF Idle, Sweeping
<1>3. ASSUME NEW p \in Places \ Sweeping, Goto(h, p)
      PROVE  job'[h].pc \notin Sweeping
  <2>1. p \in Places /\ p \notin Sweeping
    BY <1>3
  <2>2. job'[h] = [job[h] EXCEPT !.pc = p]
    BY <1>3, <2>1, GotoEffect
  <2> QED  BY <1>1, <2>1, <2>2 DEF Job
<1>4. ASSUME NEW op, NEW j, Begin(h, op, j), j.pc \notin Sweeping
      PROVE  job'[h].pc \notin Sweeping
  BY <1>1, <1>4 DEF Begin
<1>5. CASE Call(h)
  <2>1. CASE CreateCheckMember(h)
    BY <1>4, <2>1 DEF CreateCheckMember, Idle, Sweeping
  <2>2. CASE ApproveRead(h)
    BY <1>4, <2>2 DEF ApproveRead, Idle, Sweeping
  <2>3. CASE DenyRead(h)
    BY <1>4, <2>3 DEF DenyRead, Idle, Sweeping
  <2>4. CASE CancelRead(h)
    BY <1>4, <2>4 DEF CancelRead, Idle, Sweeping
  <2>5. CASE AddCheck(h)
    BY <1>4, <2>5 DEF AddCheck, Idle, Sweeping
  <2>6. CASE RemoveFind(h)
    BY <1>4, <2>6 DEF RemoveFind, Idle, Sweeping
  <2>7. CASE UpdateGroup(h)
    BY <1>4, <2>7 DEF UpdateGroup, Idle, Sweeping
  <2>8. CASE StaleSelect(h)
    BY <1>4, <2>8 DEF StaleSelect, Idle, Sweeping
  <2> QED  BY <1>5, <2>1, <2>2, <2>3, <2>4, <2>5, <2>6, <2>7, <2>8 DEF Call
<1>6. CASE Crash(h)
  BY <1>2, <1>6 DEF Crash
<1>7. CASE ApproveNext(h)
  <2>1. ASSUME NEW r \in job[h].todo,
               job' = [job EXCEPT
                   ![h].row = r,
                   ![h].todo = @ \ {r},
                   ![h].pc = IF requests[r].status = "pending"
                             THEN "approve_owner" ELSE "approve_next"]
        PROVE  job'[h].pc \notin Sweeping
    <3>1. job'[h].pc \in {"approve_owner", "approve_next"}
      BY <1>1, <2>1 DEF Job
    <3> QED  BY <3>1 DEF Sweeping
  <2> QED  BY <1>2, <1>7, <2>1 DEF ApproveNext
<1>8. CASE StaleWrite(h)
  BY <1>1, <1>2, <1>8 DEF StaleWrite, Sweeping, Job, Step, At
<1>9. CASE Continue(h) /\ ~ApproveNext(h) /\ ~StaleWrite(h)
  <2> DEFINE Ends == {"create_insert", "approve_record", "approve_next", "approve_count",
                      "approve_finalize", "approve_sync", "deny_write", "add_sync",
                      "remove_delete"}
  <2>1. Ends \subseteq Places \ Sweeping
    BY DEF Places, Sweeping
  <2>2. CASE \/ CreateCheckPending(h) \/ CreateInsert(h)
             \/ ApproveAuthorize(h) \/ ApproveRecord(h) \/ ApproveCount(h)
             \/ ApproveFinalize(h) \/ ApproveSync(h)
    <3>1. Finish(h) \/ \E p \in Ends : Goto(h, p)
      BY <2>2 DEF CreateCheckPending, CreateInsert, ApproveAuthorize, ApproveRecord,
         ApproveCount, ApproveFinalize, ApproveSync
    <3> QED  BY <1>2, <1>3, <2>1, <3>1
  <2>3. CASE \/ DenyAuthorize(h) \/ DenyWrite(h) \/ CancelWrite(h)
             \/ AddInsert(h) \/ AddSync(h) \/ RemoveSync(h) \/ RemoveDelete(h)
    <3>1. Finish(h) \/ \E p \in Ends : Goto(h, p)
      BY <2>3 DEF DenyAuthorize, DenyWrite, CancelWrite, AddInsert, AddSync, RemoveSync,
         RemoveDelete
    <3> QED  BY <1>2, <1>3, <2>1, <3>1
  <2> QED  BY <1>9, <2>2, <2>3 DEF Continue
<1> QED  BY <1>5, <1>6, <1>7, <1>8, <1>9

\* What a sweep has selected stays lapsed until it is deleted.
LEMMA SweepStep ==
  ASSUME IInv, SweepInv, [Next]_vars
  PROVE  SweepInv'
<1>1. TypeOK /\ TypeOK'
  BY NextIInv DEF IInv
<1>2. /\ lastId \in Nat /\ lastId' \in Nat /\ clock \in Nat /\ clock' \in Nat
      /\ memberships \subseteq MembershipRow /\ job \in [Handlers -> Job]
  BY <1>1 DEF TypeOK
<1>3. UniqueIds' /\ UniqueIds
  BY <1>1, IdStep DEF SweepInv
<1>4. ASSUME NEW k \in Nat, Doomed(k)
      PROVE  Doomed(k)'
  <2>1. lastId <= lastId' /\ clock <= clock' /\ k <= lastId
    BY <1>1, <1>3, <1>4, IdStep DEF Doomed
  <2>2. k <= lastId'
    BY <1>2, <2>1
  <2>3. ASSUME NEW n \in memberships', n.id = k
        PROVE  Lapsed(n)'
    <3>1. n.id # lastId + 1
      BY <1>2, <2>1, <2>3
    <3>2. PICK m \in memberships : m.id = n.id /\ m.expires = n.expires
      BY <1>1, <1>3, <3>1, IdStep
    <3>3. m.expires # None /\ m.expires < clock
      BY <1>4, <2>3, <3>2 DEF Doomed, Lapsed
    <3>4. m.expires \in Nat
      BY <1>2, <3>3 DEF MembershipRow, Expiry
    <3>5. n.expires # None /\ n.expires < clock'
      BY <1>2, <2>1, <3>2, <3>3, <3>4
    <3> QED  BY <3>5 DEF Lapsed
  <2> QED  BY <2>2, <2>3 DEF Doomed
<1>5. \A h \in Handlers : \A x \in job[h].expired : x.id \in Nat
  BY <1>2 DEF Job, MembershipRow
<1>6. ASSUME NEW h \in Handlers, job'[h] = job[h]
      PROVE  SweepsLapsed(h)'
  <2>1. PICK j : j = job[h]
    OBVIOUS
  <2>2. j \in Job
    BY <1>2, <2>1
  <2>3. /\ j.pc \in Sweeping => \A x \in j.expired : Doomed(x.id)
        /\ j.pc = "sweep_delete" => Doomed(j.row)
    BY <2>1 DEF SweepInv, SweepsLapsed
  <2>4. j.row \in Nat /\ \A x \in j.expired : x.id \in Nat
    BY <2>2 DEF Job, MembershipRow
  <2>5. /\ j.pc \in Sweeping => \A x \in j.expired : Doomed(x.id)'
        /\ j.pc = "sweep_delete" => Doomed(j.row)'
    BY <1>4, <2>3, <2>4
  <2>6. job'[h] = j
    BY <1>6, <2>1
  <2> QED  BY <2>5, <2>6 DEF SweepsLapsed
<1>7. ASSUME NEW h \in Handlers, Call(h) \/ Continue(h) \/ Crash(h)
      PROVE  SweepsLapsed(h)'
  <2>1. CASE SweepSelect(h)
    <3>1. PICK lapsed : lapsed = {m \in memberships : Lapsed(m)}
      OBVIOUS
    <3>2. \A x \in lapsed : x.id \in Nat /\ Doomed(x.id)
      BY <1>2, <1>3, <3>1 DEF Doomed, UniqueIds, MembershipRow
    <3>3. \A x \in lapsed : Doomed(x.id)'
      BY <1>4, <3>2
    <3>4. job' = [job EXCEPT ![h] = [Idle EXCEPT !.pc = "sweep_sync", !.expired = lapsed]]
      BY <2>1, <3>1 DEF SweepSelect, Begin
    <3>5. job'[h].pc = "sweep_sync" /\ job'[h].expired = lapsed
      BY <1>2, <3>4 DEF Idle
    <3> QED  BY <3>3, <3>5 DEF SweepsLapsed
  <2>2. CASE SweepSync(h)
    <3>1. PICK m \in job[h].expired :
             job' = [job EXCEPT ![h].pc = "sweep_delete", ![h].row = m.id,
                                ![h].expired = @ \ {m}]
      BY <2>2 DEF SweepSync
    <3>2. PICK todo : todo = job[h].expired
      OBVIOUS
    <3>3. \A x \in todo : Doomed(x.id) /\ x.id \in Nat
      BY <1>5, <2>2, <3>2 DEF SweepSync, Step, At, SweepInv, SweepsLapsed, Sweeping
    <3>4. \A x \in todo : Doomed(x.id)'
      BY <1>4, <3>3
    <3>5. /\ job'[h].pc = "sweep_delete" /\ job'[h].row = m.id
          /\ job'[h].expired = todo \ {m} /\ m \in todo
      BY <1>2, <3>1, <3>2 DEF Job
    <3> QED  BY <3>4, <3>5 DEF SweepsLapsed
  <2>3. CASE SweepDelete(h)
    <3>1. PICK todo : todo = job[h].expired
      OBVIOUS
    <3>2. \A x \in todo : Doomed(x.id) /\ x.id \in Nat
      BY <1>5, <2>3, <3>1 DEF SweepDelete, Step, At, SweepInv, SweepsLapsed, Sweeping
    <3>3. \A x \in todo : Doomed(x.id)'
      BY <1>4, <3>2
    <3>4. CASE Finish(h)
      <4>1. job'[h].pc = "idle"
        BY <1>1, <3>4, FinishEffect DEF Idle
      <4> QED  BY <4>1 DEF SweepsLapsed, Sweeping
    <3>5. CASE Goto(h, "sweep_sync")
      <4>1. job'[h] = [job[h] EXCEPT !.pc = "sweep_sync"]
        BY <1>1, <3>5, GotoEffect DEF Places
      <4>2. job'[h].pc = "sweep_sync" /\ job'[h].expired = todo
        BY <1>2, <3>1, <4>1 DEF Job
      <4> QED  BY <3>3, <4>2 DEF SweepsLapsed
    <3> QED  BY <2>3, <3>4, <3>5 DEF SweepDelete
  <2>4. CASE ~SweepSelect(h) /\ ~SweepSync(h) /\ ~SweepDelete(h)
    <3>1. job'[h].pc \notin Sweeping
      BY <1>1, <1>7, <2>4, OnlySweepsSweep
    <3> QED  BY <3>1 DEF SweepsLapsed, Sweeping
  <2> QED  BY <2>1, <2>2, <2>3, <2>4
<1>8. ASSUME NEW h \in Handlers
      PROVE  SweepsLapsed(h)'
  <2>1. CASE Tick \/ UNCHANGED vars
    BY <1>6, <2>1, NoHandler
  <2>2. ASSUME NEW k \in Handlers, Call(k) \/ Continue(k) \/ Crash(k)
        PROVE  SweepsLapsed(h)'
    <3>1. CASE h = k
      BY <1>7, <2>2, <3>1
    <3>2. CASE h # k
      <4>1. job'[h] = job[h]
        BY <1>1, <2>2, <3>2, OneMoves DEF OthersWait
      <4> QED  BY <1>6, <4>1
    <3> QED  BY <3>1, <3>2
  <2> QED  BY <2>1, <2>2 DEF Next
<1> QED  BY <1>3, <1>8 DEF SweepInv

\* Nothing has been selected at the start, and the rows are numbered.
LEMMA SweepInit == Init => SweepInv
<1> SUFFICES ASSUME Init
             PROVE  SweepInv
  OBVIOUS
<1>1. /\ \A m \in memberships : \E k \in DOMAIN InitMembers :
            m = [id |-> k, group |-> InitMembers[k][1], identity |-> InitMembers[k][2],
                 via |-> 0, expires |-> None, linked |-> FALSE, synced |-> FALSE]
      /\ lastId = Len(InitMembers)
  BY DEF Init
<1>2. DOMAIN InitMembers = 1..Len(InitMembers) /\ Len(InitMembers) \in Nat
  BY ConstantsAssumption, LenProperties
<1>3. UniqueIds
  <2>1. \A m \in memberships : m.id <= lastId
    <3> SUFFICES ASSUME NEW m \in memberships
                 PROVE  m.id <= lastId
      OBVIOUS
    <3>1. PICK k \in DOMAIN InitMembers : m.id = k
      BY <1>1
    <3> QED  BY <1>1, <1>2, <3>1
  <2>2. \A m, n \in memberships : m.id = n.id => m = n
    <3> SUFFICES ASSUME NEW m \in memberships, NEW n \in memberships, m.id = n.id
                 PROVE  m = n
      OBVIOUS
    <3>1. PICK k \in DOMAIN InitMembers :
            m = [id |-> k, group |-> InitMembers[k][1], identity |-> InitMembers[k][2],
                 via |-> 0, expires |-> None, linked |-> FALSE, synced |-> FALSE]
      BY <1>1
    <3>2. PICK j \in DOMAIN InitMembers :
            n = [id |-> j, group |-> InitMembers[j][1], identity |-> InitMembers[j][2],
                 via |-> 0, expires |-> None, linked |-> FALSE, synced |-> FALSE]
      BY <1>1
    <3>3. m.id = k /\ n.id = j
      BY <3>1, <3>2
    <3> QED  BY <3>1, <3>2, <3>3
  <2> QED  BY <2>1, <2>2 DEF UniqueIds
<1>4. \A h \in Handlers : job[h].pc = "idle"
  BY DEF Init, Idle
<1> QED  BY <1>3, <1>4 DEF SweepInv, SweepsLapsed, Sweeping

\* However many handlers run, a membership row leaves because it lapsed or because
\* remove_member picked it.
THEOREM RowsLeaveTheorem == Spec => RowsLeaveForAReason
<1>1. Init => SweepInv
  BY SweepInit
<1>2. IInv /\ SweepInv /\ [Next]_vars => SweepInv'
  BY SweepStep
<1>3. IInv /\ SweepInv /\ [Next]_vars =>
        [\A m \in memberships :
            (\A n \in memberships' : n.id # m.id) =>
                \/ Lapsed(m)
                \/ \E h \in Handlers : /\ job[h].pc = "remove_delete"
                                       /\ job[h].row = m.id]_vars
  <2> SUFFICES ASSUME IInv, SweepInv, [Next]_vars, NEW m \in memberships,
                      \A n \in memberships' : n.id # m.id
               PROVE  \/ Lapsed(m)
                      \/ \E h \in Handlers : /\ job[h].pc = "remove_delete"
                                             /\ job[h].row = m.id
    OBVIOUS
  <2>1. PICK h \in Handlers : (RemoveDelete(h) \/ SweepDelete(h)) /\ job[h].row = m.id
    BY IdStep DEF IInv, SweepInv
  <2>2. CASE RemoveDelete(h)
    BY <2>1, <2>2 DEF RemoveDelete, Step, At
  <2>3. CASE SweepDelete(h)
    BY <2>1, <2>3 DEF SweepDelete, Step, At, SweepInv, SweepsLapsed, Doomed
  <2> QED  BY <2>1, <2>2, <2>3
<1> QED  BY <1>1, <1>2, <1>3, Invariance, PTL DEF Spec, RowsLeaveForAReason

-----------------------------------------------------------------------------
(***************************************************************************)
(* One handler at a time implements AccessWorkflow                         *)
(***************************************************************************)
LedgerRow ==
    [group: Groups, requester: Identities, status: Statuses,
     decidedBy: Identities \union {None}]

\* What the ledger shows of a table of requests.
Shown(rows) ==
    [r \in DOMAIN rows |->
        [group |-> rows[r].group, requester |-> rows[r].requester,
         status |-> rows[r].status, decidedBy |-> rows[r].decidedBy]]

\* It shows every request, in order.
LEMMA ShownRows ==
  ASSUME NEW rows \in Seq(RequestRow)
  PROVE  /\ Shown(rows) \in Seq(LedgerRow)
         /\ DOMAIN Shown(rows) = DOMAIN rows
         /\ Len(Shown(rows)) = Len(rows)
         /\ \A r \in DOMAIN rows :
               /\ Shown(rows)[r].group = rows[r].group
               /\ Shown(rows)[r].requester = rows[r].requester
               /\ Shown(rows)[r].status = rows[r].status
               /\ Shown(rows)[r].decidedBy = rows[r].decidedBy
<1>1. /\ Len(rows) \in Nat /\ DOMAIN rows = 1..Len(rows)
      /\ \A r \in DOMAIN rows : rows[r] \in RequestRow
  BY LenProperties
<1>2. \A r \in DOMAIN rows :
         Shown(rows)[r] = [group |-> rows[r].group, requester |-> rows[r].requester,
                           status |-> rows[r].status, decidedBy |-> rows[r].decidedBy]
  BY DEF Shown
<1>3. ASSUME NEW r \in 1..Len(rows)
      PROVE  Shown(rows)[r] \in LedgerRow
  <2>1. PICK q \in RequestRow : q = rows[r]
    BY <1>1
  <2>2. Shown(rows)[r] = [group |-> q.group, requester |-> q.requester,
                          status |-> q.status, decidedBy |-> q.decidedBy]
    BY <1>1, <1>2, <2>1
  <2> QED  BY <2>2 DEF RequestRow, LedgerRow
<1>4. Shown(rows) \in [1..Len(rows) -> LedgerRow]
  BY <1>1, <1>3 DEF Shown
<1>5. Shown(rows) \in Seq(LedgerRow) /\ Len(Shown(rows)) = Len(rows)
  BY <1>1, <1>4
<1> QED  BY <1>1, <1>2, <1>4, <1>5

\* So does the ledger of the requests there are.
LEMMA LedgerShows ==
  ASSUME TypeOK
  PROVE  /\ Ledger \in Seq(LedgerRow)
         /\ DOMAIN Ledger = DOMAIN requests
         /\ Len(Ledger) = Len(requests)
         /\ \A r \in DOMAIN requests :
               /\ Ledger[r].group = requests[r].group
               /\ Ledger[r].requester = requests[r].requester
               /\ Ledger[r].status = requests[r].status
               /\ Ledger[r].decidedBy = requests[r].decidedBy
<1>1. Ledger = Shown(requests) /\ requests \in Seq(RequestRow)
  BY DEF Ledger, Shown, TypeOK
<1> QED  BY <1>1, ShownRows

\* The members of a group stay its owners while neither table changes.
LEMMA SameOwners ==
  ASSUME UNCHANGED <<groups, memberships>>
  PROVE  UNCHANGED <<Granted, OwnersOf>>
  BY DEF Granted, OwnersOf, is_group_owner, IsMember

\* Whatever happens to groups and memberships, owners are people.
LEMMA OwnersArePeople == Workflow!Reorganized
  BY DEF Workflow!Reorganized, OwnersOf

\* A vote more in the table is a vote more in the set.
LEMMA VoteAdded ==
  ASSUME TypeOK, NEW v, approvals' \in Seq(ApprovalRow), approvals' = Append(approvals, v)
  PROVE  Votes' = Votes \union {v}
<1>1. /\ DOMAIN approvals' = 1..(Len(approvals) + 1) /\ DOMAIN approvals = 1..Len(approvals)
      /\ Len(approvals) \in Nat
      /\ approvals'[Len(approvals) + 1] = v
      /\ \A k \in DOMAIN approvals : approvals'[k] = approvals[k]
  BY LenProperties, AppendProperties DEF TypeOK
<1>2. \A k \in DOMAIN approvals' : k \in DOMAIN approvals \/ k = Len(approvals) + 1
  BY <1>1
<1>3. DOMAIN approvals \subseteq DOMAIN approvals' /\ Len(approvals) + 1 \in DOMAIN approvals'
  BY <1>1
<1> QED  BY <1>1, <1>2, <1>3 DEF Votes

\* A request that is written is written in the ledger.
LEMMA LedgerWritten ==
  ASSUME TypeOK, NEW r \in DOMAIN requests, NEW q \in RequestRow,
         q.group = requests[r].group, q.requester = requests[r].requester,
         q.expires = requests[r].expires, requests' = [requests EXCEPT ![r] = q]
  PROVE  Ledger' = Workflow!Decide(r, q.status, q.decidedBy)
<1> DEFINE row == Workflow!Request(requests[r].group, requests[r].requester,
                                   q.status, q.decidedBy)
<1>1. /\ DOMAIN requests' = DOMAIN requests /\ requests'[r] = q
      /\ \A s \in DOMAIN requests : s # r => requests'[s] = requests[s]
  BY UpdateRequest
<1>2. DOMAIN Ledger' = DOMAIN requests /\ DOMAIN Ledger = DOMAIN requests
  BY <1>1 DEF Ledger
<1>3. \A s \in DOMAIN requests : s # r => Ledger'[s] = Ledger[s]
  BY <1>1 DEF Ledger
<1>4. Ledger'[r] = row
  BY <1>1 DEF Ledger, Workflow!Request
<1> HIDE DEF row
<1>5. Ledger' = [Ledger EXCEPT ![r] = row]
  BY <1>2, <1>3, <1>4 DEF Ledger
<1>6. Ledger[r].group = requests[r].group /\ Ledger[r].requester = requests[r].requester
  BY LedgerShows
<1> QED  BY <1>5, <1>6 DEF row, Workflow!Decide

\* cancel_request and process_stale_requests write the status only.
LEMMA StatusShown ==
  ASSUME TypeOK, NEW r \in DOMAIN requests, NEW status \in Statuses,
         requests' = [requests EXCEPT ![r].status = status]
  PROVE  Ledger' = Workflow!Decide(r, status, Ledger[r].decidedBy)
<1> DEFINE q == [requests[r] EXCEPT !.status = status]
<1>1. requests[r] \in RequestRow
  BY RequestType
<1>2. /\ q \in RequestRow /\ q.group = requests[r].group
      /\ q.requester = requests[r].requester /\ q.expires = requests[r].expires
      /\ q.status = status /\ q.decidedBy = requests[r].decidedBy
  BY <1>1 DEF RequestRow
<1>3. requests' = [requests EXCEPT ![r] = q]
  OBVIOUS
<1> HIDE DEF q
<1>4. Ledger[r].decidedBy = requests[r].decidedBy
  BY LedgerShows
<1>5. Ledger' = Workflow!Decide(r, q.status, q.decidedBy)
  BY <1>2, <1>3, LedgerWritten
<1> QED  BY <1>2, <1>4, <1>5

\* Approval and denial also name who decided.
LEMMA DecisionShown ==
  ASSUME TypeOK, NEW r \in DOMAIN requests, NEW status \in Statuses,
         NEW by \in Identities,
         requests' = [requests EXCEPT ![r].status = status, ![r].decidedBy = by]
  PROVE  Ledger' = Workflow!Decide(r, status, by)
<1> DEFINE q == [requests[r] EXCEPT !.status = status, !.decidedBy = by]
<1>1. requests[r] \in RequestRow
  BY RequestType
<1>2. /\ q \in RequestRow /\ q.group = requests[r].group
      /\ q.requester = requests[r].requester /\ q.expires = requests[r].expires
      /\ q.status = status /\ q.decidedBy = by
  BY <1>1 DEF RequestRow
<1>3. requests' = [requests EXCEPT ![r] = q]
  OBVIOUS
<1> HIDE DEF q
<1>4. Ledger' = Workflow!Decide(r, q.status, q.decidedBy)
  BY <1>2, <1>3, LedgerWritten
<1> QED  BY <1>2, <1>4

\* create_access_request: what was not pending when it looked is not pending now.
LEMMA InsertSubmits ==
  ASSUME IInv, NEW h \in Handlers, Promise(h), CreateInsert(h)
  PROVE  \E g \in Groups, p \in Identities : Workflow!Submit(g, p)
<1>1. PICK g, i : g = job[h].group /\ i = job[h].identity
  OBVIOUS
<1>2. job[h].pc = "create_insert" /\ g \in Groups /\ i \in Identities
  BY <1>1 DEF CreateInsert, Step, At, IInv, LocalsOK, LocalOK
<1>3. ~HasPending(g, i)
  BY <1>1, <1>2 DEF Promise
<1>4. PICK q : /\ q.group = g /\ q.requester = i /\ q.status = "pending"
               /\ q.decidedBy = None /\ requests' = Append(requests, q)
  BY <1>1 DEF CreateInsert
<1>5. TypeOK /\ TypeOK'
  BY NextIInv DEF IInv, Next, Continue
<1>6. UNCHANGED <<Votes, Granted, OwnersOf>>
  <2>1. UNCHANGED <<groups, memberships, approvals>>
    BY DEF CreateInsert
  <2> QED  BY <2>1, SameOwners DEF Votes
<1>7. \A r \in DOMAIN Ledger :
         Workflow!Pending(r) => ~(Ledger[r].group = g /\ Ledger[r].requester = i)
  BY <1>3, <1>5, LedgerShows DEF Workflow!Pending, HasPending
<1>8. Ledger' = Append(Ledger, Workflow!Request(g, i, "pending", None))
  <2> DEFINE row == Workflow!Request(g, i, "pending", None)
             n == Len(requests)
  <2>1. row \in LedgerRow
    BY <1>2 DEF LedgerRow, Workflow!Request, Statuses
  <2>2. /\ n \in Nat /\ Len(requests') = n + 1
        /\ DOMAIN requests = 1..n /\ DOMAIN requests' = 1..(n + 1)
        /\ requests'[n + 1] = q
        /\ \A r \in 1..n : requests'[r] = requests[r]
    BY <1>4, <1>5, LenProperties, AppendProperties DEF TypeOK
  <2>3. Ledger \in Seq(LedgerRow) /\ Len(Ledger) = n
    BY <1>5, LedgerShows
  <2>4. Ledger' \in Seq(LedgerRow) /\ Len(Ledger') = n + 1
    <3>1. Ledger' = Shown(requests') /\ requests' \in Seq(RequestRow)
      BY <1>5 DEF Ledger, Shown, TypeOK
    <3> QED  BY <2>2, <3>1, ShownRows
  <2>5. Ledger'[n + 1] = row
    BY <1>4, <2>2 DEF Ledger, Workflow!Request
  <2>6. \A r \in 1..n : Ledger'[r] = Ledger[r]
    BY <2>2 DEF Ledger
  <2> HIDE DEF row, n
  <2>7. /\ Append(Ledger, row) \in Seq(LedgerRow) /\ Len(Append(Ledger, row)) = n + 1
        /\ Append(Ledger, row)[n + 1] = row
        /\ \A r \in 1..n : Append(Ledger, row)[r] = Ledger[r]
    BY <2>1, <2>3, AppendProperties
  <2>8. \A r \in 1..(n + 1) : Ledger'[r] = Append(Ledger, row)[r]
    <3>1. \A r \in 1..(n + 1) : r \in 1..n \/ r = n + 1
      BY <2>2 DEF n
    <3> QED  BY <2>5, <2>6, <2>7, <3>1
  <2> QED  BY <2>4, <2>7, <2>8, SeqEqual DEF row
<1> QED  BY <1>2, <1>6, <1>7, <1>8 DEF Workflow!Submit

\* The vote of approve_request is an owner's.
LEMMA RecordSupports ==
  ASSUME IInv, NEW h \in Handlers, SerialInv(h), ApproveRecord(h)
  PROVE  \E r \in DOMAIN Ledger, p \in Identities : Workflow!Support(r, p)
<1>1. PICK r, p : r = job[h].row /\ p = job[h].actor
  OBVIOUS
<1>2. job[h].pc = "approve_record" /\ r \in DOMAIN requests /\ p \in Identities
  BY <1>1 DEF ApproveRecord, Step, At, IInv, LocalsOK, LocalOK, OnRequest, Approving
<1>3. requests[r].status = "pending" /\ is_group_owner(p, requests[r].group)
  BY <1>1, <1>2 DEF SerialInv, Promise, HeldArePending, Holds
<1>4. UNCHANGED <<groups, memberships, requests>>
      /\ approvals' = Append(approvals, Workflow!Vote(r, p, "approved"))
  BY <1>1 DEF ApproveRecord, Workflow!Vote
<1>5. TypeOK /\ TypeOK'
  BY NextIInv DEF IInv, Next, Continue
<1>6. Votes' = Votes \union {Workflow!Vote(r, p, "approved")}
  BY <1>4, <1>5, VoteAdded DEF TypeOK
<1>7. UNCHANGED <<Ledger, Granted, OwnersOf>>
  BY <1>4, SameOwners DEF Ledger
<1>8. /\ r \in DOMAIN Ledger /\ Workflow!Pending(r)
      /\ Ledger[r].group = requests[r].group /\ requests[r].group \in Groups
  BY <1>2, <1>3, <1>5, LedgerShows, RequestType DEF Workflow!Pending, RequestRow
<1>9. p \in OwnersOf[Ledger[r].group]
  BY <1>2, <1>3, <1>8 DEF OwnersOf
<1> QED  BY <1>2, <1>6, <1>7, <1>8, <1>9 DEF Workflow!Support

\* deny_request adds an owner's vote and decides.
LEMMA DenyDenies ==
  ASSUME IInv, NEW h \in Handlers, SerialInv(h), DenyWrite(h)
  PROVE  \E r \in DOMAIN Ledger, p \in Identities : Workflow!Deny(r, p)
<1>1. PICK r, p : r = job[h].row /\ p = job[h].actor
  OBVIOUS
<1>2. job[h].pc = "deny_write" /\ r \in DOMAIN requests /\ p \in Identities
  BY <1>1 DEF DenyWrite, Step, At, IInv, LocalsOK, LocalOK, OnRequest
<1>3. requests[r].status = "pending" /\ is_group_owner(p, requests[r].group)
  BY <1>1, <1>2 DEF SerialInv, Promise, HeldArePending, Holds
<1>4. /\ UNCHANGED <<groups, memberships>>
      /\ approvals' = Append(approvals, Workflow!Vote(r, p, "denied"))
      /\ requests' = [requests EXCEPT ![r].status = "denied", ![r].decidedBy = p]
  BY <1>1 DEF DenyWrite, Workflow!Vote
<1>5. TypeOK /\ TypeOK'
  BY NextIInv DEF IInv, Next, Continue
<1>6. Votes' = Votes \union {Workflow!Vote(r, p, "denied")}
  BY <1>4, <1>5, VoteAdded DEF TypeOK
<1>7. Ledger' = Workflow!Decide(r, "denied", p)
  BY <1>2, <1>4, <1>5, DecisionShown DEF Statuses
<1>8. UNCHANGED <<Granted, OwnersOf>>
  BY <1>4, SameOwners
<1>9. /\ r \in DOMAIN Ledger /\ Workflow!Pending(r)
      /\ Ledger[r].group = requests[r].group /\ requests[r].group \in Groups
  BY <1>2, <1>3, <1>5, LedgerShows, RequestType DEF Workflow!Pending, RequestRow
<1>10. p \in OwnersOf[Ledger[r].group]
  BY <1>2, <1>3, <1>9 DEF OwnersOf
<1> QED  BY <1>2, <1>6, <1>7, <1>8, <1>9, <1>10 DEF Workflow!Deny

\* _finalize_approval approves and grants, on the strength of the handler's vote.
LEMMA FinalizeApproves ==
  ASSUME IInv, NEW h \in Handlers, SerialInv(h), ApproveFinalize(h)
  PROVE  \E r \in DOMAIN Ledger, p \in Identities : Workflow!Approve(r, p)
<1>1. PICK r, p : r = job[h].row /\ p = job[h].actor
  OBVIOUS
<1>2. /\ job[h].pc = "approve_finalize" /\ r \in DOMAIN requests /\ p \in Identities
      /\ Voted(r, p)
  BY <1>1 DEF ApproveFinalize, Step, At, IInv, LocalsOK, LocalOK, OnRequest, Approving
<1>3. requests[r].status = "pending"
  BY <1>1, <1>2 DEF SerialInv, HeldArePending, Holds
<1>4. /\ UNCHANGED approvals
      /\ requests' = [requests EXCEPT ![r].status = "approved", ![r].decidedBy = p]
  BY <1>1 DEF ApproveFinalize
<1>5. PICK m : m.via = r /\ memberships' = memberships \union {m}
  BY <1>1 DEF ApproveFinalize, InsertMembership
<1>6. TypeOK /\ r # 0
  BY <1>2, LenProperties DEF IInv, TypeOK
<1>7. Ledger' = Workflow!Decide(r, "approved", p)
  BY <1>2, <1>4, <1>6, DecisionShown DEF Statuses
<1>8. Granted' = Granted \union {r}
  BY <1>5, <1>6 DEF Granted
<1>9. Workflow!Vote(r, p, "approved") \in Votes
  <2>1. PICK k \in DOMAIN approvals : /\ approvals[k].request = r
                                      /\ approvals[k].approver = p
                                      /\ approvals[k].decision = "approved"
    BY <1>2 DEF Voted
  <2>2. approvals[k] \in ApprovalRow
    BY <1>6, <2>1, LenProperties DEF TypeOK
  <2>3. approvals[k] = Workflow!Vote(r, p, "approved")
    BY <2>1, <2>2 DEF ApprovalRow, Workflow!Vote
  <2> QED  BY <2>1, <2>3 DEF Votes
<1>10. r \in DOMAIN Ledger /\ Workflow!Pending(r)
  BY <1>2, <1>3, <1>6, LedgerShows DEF Workflow!Pending
<1>11. UNCHANGED Votes
  BY <1>4 DEF Votes
<1> QED  BY <1>2, <1>7, <1>8, <1>9, <1>10, <1>11, OwnersArePeople DEF Workflow!Approve

\* cancel_request and process_stale_requests close what is pending.
LEMMA WriteCloses ==
  ASSUME IInv, NEW h \in Handlers, SerialInv(h), CancelWrite(h) \/ StaleWrite(h)
  PROVE  \E r \in DOMAIN Ledger, status \in {"cancelled", "expired"} :
            Workflow!Close(r, status)
<1>1. PICK r \in DOMAIN requests, status \in {"cancelled", "expired"} :
         Holds(h, r) /\ requests' = [requests EXCEPT ![r].status = status]
  <2>1. CASE CancelWrite(h)
    <3>1. job[h].pc = "cancel_write" /\ job[h].row \in DOMAIN requests
      BY <2>1 DEF CancelWrite, Step, At, IInv, LocalsOK, LocalOK, OnRequest
    <3>2. PICK r \in DOMAIN requests : r = job[h].row
      BY <3>1
    <3> QED  BY <2>1, <3>1, <3>2 DEF CancelWrite, Holds
  <2>2. CASE StaleWrite(h)
    <3>1. job[h].pc = "stale_write" /\ job[h].todo \subseteq DOMAIN requests
      BY <2>2 DEF StaleWrite, Step, At, IInv, LocalsOK, LocalOK
    <3>2. PICK r \in job[h].todo : requests' = [requests EXCEPT ![r].status = "expired"]
      BY <2>2 DEF StaleWrite
    <3> QED  BY <3>1, <3>2 DEF Holds
  <2> QED  BY <2>1, <2>2
<1>2. UNCHANGED <<groups, memberships, approvals>>
  BY DEF CancelWrite, StaleWrite
<1>3. UNCHANGED <<Votes, Granted, OwnersOf>>
  BY <1>2, SameOwners DEF Votes
<1>4. Ledger' = Workflow!Decide(r, status, Ledger[r].decidedBy)
  BY <1>1, StatusShown DEF IInv, Statuses
<1>5. r \in DOMAIN Ledger /\ Workflow!Pending(r)
  BY <1>1, LedgerShows DEF IInv, Workflow!Pending, SerialInv, HeldArePending
<1> QED  BY <1>3, <1>4, <1>5 DEF Workflow!Close

\* Every other step leaves requests and votes alone, and grants nothing.
LEMMA OthersRevoke ==
  ASSUME IInv, NEW h \in Handlers, Call(h) \/ Continue(h) \/ Crash(h),
         ~CreateInsert(h), ~ApproveRecord(h), ~ApproveFinalize(h), ~DenyWrite(h),
         ~CancelWrite(h), ~StaleWrite(h)
  PROVE  \E rs \in SUBSET Granted : Workflow!Revoke(rs)
<1>1. UNCHANGED <<requests, approvals>>
  <2>1. CASE Call(h) \/ Crash(h)
    BY <2>1 DEF Call, CreateCheckMember, ApproveRead, DenyRead, CancelRead, AddCheck,
       RemoveFind, UpdateGroup, SweepSelect, StaleSelect, Crash, tables
  <2>2. CASE Continue(h)
    <3>1. CASE \/ CreateCheckPending(h) \/ ApproveNext(h) \/ ApproveAuthorize(h)
               \/ ApproveCount(h) \/ ApproveSync(h) \/ DenyAuthorize(h)
      BY <3>1 DEF CreateCheckPending, ApproveNext, ApproveAuthorize, ApproveCount,
         ApproveSync, DenyAuthorize, tables
    <3>2. CASE \/ AddInsert(h) \/ AddSync(h) \/ RemoveSync(h) \/ RemoveDelete(h)
               \/ SweepSync(h) \/ SweepDelete(h)
      BY <3>2 DEF AddInsert, AddSync, RemoveSync, RemoveDelete, SweepSync, SweepDelete
    <3> QED  BY <2>2, <3>1, <3>2 DEF Continue
  <2> QED  BY <2>1, <2>2
<1>2. \A m \in memberships' : m.via # 0 => \E n \in memberships : n.via = m.via
  <2>1. CASE AddInsert(h)
    <3>1. PICK m : m.via = 0 /\ memberships' = memberships \union {m}
      BY <2>1 DEF AddInsert, InsertMembership
    <3> QED  BY <3>1
  <2>2. CASE RemoveDelete(h) \/ SweepDelete(h)
    BY <2>2 DEF RemoveDelete, SweepDelete, DeleteMembership
  <2>3. CASE ~AddInsert(h) /\ ~RemoveDelete(h) /\ ~SweepDelete(h)
    <3>1. UNCHANGED memberships \/ \E m \in memberships : Marked(m)
      BY <2>3, MembershipChange
    <3>2. \A m \in memberships : [m EXCEPT !.synced = TRUE].via = m.via
      BY DEF IInv, TypeOK, MembershipRow
    <3> QED  BY <3>1, <3>2 DEF Marked
  <2> QED  BY <2>1, <2>2, <2>3
<1>3. Granted' \subseteq Granted
  BY <1>2 DEF Granted
<1>4. UNCHANGED <<Ledger, Votes>>
  BY <1>1 DEF Ledger, Votes
<1>5. Granted' = Granted \ (Granted \ Granted')
  BY <1>3
<1>6. PICK rs : rs = Granted \ Granted'
  OBVIOUS
<1>7. rs \in SUBSET Granted /\ Granted' = Granted \ rs
  BY <1>5, <1>6
<1> QED  BY <1>4, <1>7, OwnersArePeople DEF Workflow!Revoke

\* With one handler at a time, which may die between any two of its commits, the
\* service is the workflow: people see every request submitted, voted on by owners,
\* and decided once, with its membership granted in the same step.
THEOREM WorkflowFollowed ==
  ASSUME NEW h, Handlers = {h}
  PROVE  Spec => FollowsWorkflow
<1>1. Init => Workflow!Init
  <2> SUFFICES ASSUME Init
               PROVE  Workflow!Init
    OBVIOUS
  <2>1. Ledger = <<>>
    BY DEF Init, Ledger
  <2>2. Votes = {} /\ Granted = {}
    BY DEF Init, Votes, Granted
  <2>3. OwnersOf \in [Groups -> SUBSET Identities]
    BY DEF OwnersOf
  <2> QED  BY <2>1, <2>2, <2>3 DEF Workflow!Init
<1>2. Init => SerialInv(h)
  BY SerialInit
<1>3. IInv /\ SerialInv(h) /\ [Next]_vars => SerialInv(h)'
  BY SerialStep
<1>4. IInv /\ SerialInv(h) /\ [Next]_vars => [Workflow!Next]_(Workflow!workflow)
  <2> SUFFICES ASSUME IInv, SerialInv(h), [Next]_vars
               PROVE  Workflow!Next \/ UNCHANGED <<Ledger, Votes, Granted, OwnersOf>>
    BY DEF Workflow!workflow
  <2>1. CASE Tick \/ UNCHANGED vars
    <3>1. UNCHANGED <<groups, memberships, requests, approvals>>
      BY <2>1, NoHandler DEF tables
    <3> QED  BY <3>1, SameOwners DEF Ledger, Votes
  <2>2. CASE CreateInsert(h)
    BY <2>2, InsertSubmits DEF SerialInv, Workflow!Next
  <2>3. CASE ApproveRecord(h)
    BY <2>3, RecordSupports DEF Workflow!Next
  <2>4. CASE ApproveFinalize(h)
    BY <2>4, FinalizeApproves DEF Workflow!Next
  <2>5. CASE DenyWrite(h)
    BY <2>5, DenyDenies DEF Workflow!Next
  <2>6. CASE CancelWrite(h) \/ StaleWrite(h)
    BY <2>6, WriteCloses DEF Workflow!Next
  <2>7. CASE /\ Call(h) \/ Continue(h) \/ Crash(h)
             /\ ~CreateInsert(h) /\ ~ApproveRecord(h) /\ ~ApproveFinalize(h)
             /\ ~DenyWrite(h) /\ ~CancelWrite(h) /\ ~StaleWrite(h)
    BY <2>7, OthersRevoke DEF Workflow!Next
  <2> QED  BY <2>1, <2>2, <2>3, <2>4, <2>5, <2>6, <2>7 DEF Next
<1> QED  BY <1>1, <1>2, <1>3, <1>4, Invariance, PTL DEF Spec, FollowsWorkflow, Workflow!Spec

\* The abstract ledger is a sequence of requests.
WorkflowType ==
    /\ Ledger \in Seq([group: Groups, requester: Identities,
                       status: Statuses, decidedBy: Identities \union {None}])
    /\ Workflow!Accounted

\* A step of the workflow decides only what is pending, and grants what it approves.
LEMMA WorkflowStep ==
  ASSUME WorkflowType, Workflow!Next
  PROVE  /\ WorkflowType'
         /\ \A r \in DOMAIN Ledger : ~Workflow!Pending(r) =>
               Ledger'[r] = Ledger[r] /\ (r \notin Granted => r \notin Granted')
<1>1. Ledger \in Seq(LedgerRow)
  BY DEF WorkflowType, LedgerRow
<1>2. Len(Ledger) \in Nat /\ DOMAIN Ledger = 1..Len(Ledger)
  BY <1>1, LenProperties
<1>3. CASE UNCHANGED <<Ledger, Votes>> /\ Granted' \subseteq Granted
  BY <1>3 DEF WorkflowType, Workflow!Accounted
<1>4. ASSUME NEW g \in Groups, NEW p \in Identities, Workflow!Submit(g, p)
      PROVE  /\ WorkflowType'
             /\ \A r \in DOMAIN Ledger :
                   Ledger'[r] = Ledger[r] /\ (r \notin Granted => r \notin Granted')
  <2> DEFINE q == Workflow!Request(g, p, "pending", None)
  <2>1. q \in LedgerRow
    BY DEF LedgerRow, Workflow!Request, Statuses
  <2>2. Ledger' = Append(Ledger, q) /\ UNCHANGED <<Votes, Granted>>
    BY <1>4 DEF Workflow!Submit
  <2> HIDE DEF q
  <2>3. /\ Ledger' \in Seq(LedgerRow) /\ DOMAIN Ledger \subseteq DOMAIN Ledger'
        /\ \A r \in DOMAIN Ledger : Ledger'[r] = Ledger[r]
    BY <1>1, <1>2, <2>1, <2>2, AppendProperties, LenProperties
  <2>4. Workflow!Accounted'
    BY <2>2, <2>3 DEF WorkflowType, Workflow!Accounted
  <2> QED  BY <2>2, <2>3, <2>4 DEF WorkflowType, LedgerRow
<1>5. ASSUME NEW r \in DOMAIN Ledger, NEW status \in Statuses, Workflow!Pending(r),
             NEW by \in Identities \union {None},
             Ledger' = Workflow!Decide(r, status, by),
             Votes \subseteq Votes',
             \/ Granted' = Granted
             \/ /\ Granted' = Granted \union {r} /\ status = "approved"
                /\ Workflow!Vote(r, by, "approved") \in Votes'
      PROVE  /\ WorkflowType'
             /\ \A s \in DOMAIN Ledger : ~Workflow!Pending(s) =>
                   Ledger'[s] = Ledger[s] /\ (s \notin Granted => s \notin Granted')
  <2> DEFINE q == Workflow!Request(Ledger[r].group, Ledger[r].requester, status, by)
  <2>1. Ledger[r] \in LedgerRow
    BY <1>1, <1>2
  <2>2. q \in LedgerRow /\ q.status = status /\ q.decidedBy = by
    BY <2>1 DEF LedgerRow, Workflow!Request
  <2>3. Ledger' = [Ledger EXCEPT ![r] = q]
    BY <1>5 DEF Workflow!Decide
  <2> HIDE DEF q
  <2>4. /\ Ledger' \in Seq(LedgerRow) /\ DOMAIN Ledger' = DOMAIN Ledger
        /\ Ledger'[r] = q
        /\ \A s \in DOMAIN Ledger : s # r => Ledger'[s] = Ledger[s]
    BY <1>1, <1>2, <2>2, <2>3, ExceptSeq, LenProperties
  <2>5. r \notin Granted
    BY <1>5 DEF WorkflowType, Workflow!Accounted, Workflow!Pending
  <2>6. Workflow!Accounted'
    BY <1>5, <2>2, <2>4, <2>5 DEF WorkflowType, Workflow!Accounted
  <2> QED  BY <1>5, <2>4, <2>6 DEF WorkflowType, LedgerRow
<1>6. ASSUME NEW rs \in SUBSET Granted, Workflow!Revoke(rs)
      PROVE  UNCHANGED <<Ledger, Votes>> /\ Granted' \subseteq Granted
  BY <1>6 DEF Workflow!Revoke
<1>7. ASSUME NEW r \in DOMAIN Ledger, NEW p \in Identities, Workflow!Support(r, p)
      PROVE  UNCHANGED <<Ledger, Granted>> /\ Votes \subseteq Votes'
  BY <1>7 DEF Workflow!Support
<1>8. CASE UNCHANGED <<Ledger, Granted>> /\ Votes \subseteq Votes'
  BY <1>8 DEF WorkflowType, Workflow!Accounted
<1>9. ASSUME NEW r \in DOMAIN Ledger, NEW p \in Identities,
             Workflow!Approve(r, p) \/ Workflow!Deny(r, p)
      PROVE  /\ WorkflowType'
             /\ \A s \in DOMAIN Ledger : ~Workflow!Pending(s) =>
                   Ledger'[s] = Ledger[s] /\ (s \notin Granted => s \notin Granted')
  <2>1. CASE Workflow!Approve(r, p)
    BY <1>5, <2>1 DEF Workflow!Approve, Statuses
  <2>2. CASE Workflow!Deny(r, p)
    BY <1>5, <2>2 DEF Workflow!Deny, Statuses
  <2> QED  BY <1>9, <2>1, <2>2
<1>10. ASSUME NEW r \in DOMAIN Ledger, NEW status \in {"cancelled", "expired"},
              Workflow!Close(r, status)
       PROVE  /\ WorkflowType'
              /\ \A s \in DOMAIN Ledger : ~Workflow!Pending(s) =>
                    Ledger'[s] = Ledger[s] /\ (s \notin Granted => s \notin Granted')
  <2>1. Ledger[r].decidedBy \in Identities \union {None}
    <3>1. Ledger[r] \in LedgerRow
      BY <1>1, <1>2
    <3> QED  BY <3>1 DEF LedgerRow
  <2>2. PICK by \in Identities \union {None} : by = Ledger[r].decidedBy
    BY <2>1
  <2>3. /\ Workflow!Pending(r) /\ Ledger' = Workflow!Decide(r, status, by)
        /\ Votes' = Votes /\ Granted' = Granted /\ status \in Statuses
    BY <1>10, <2>2 DEF Workflow!Close, Statuses
  <2> QED  BY <1>5, <2>3
<1> QED  BY <1>3, <1>4, <1>6, <1>7, <1>8, <1>9, <1>10 DEF Workflow!Next

\* The workflow itself: a membership in force was approved by the one who is named,
\* who voted for it; a decision stays; and what has ended is not granted again.
THEOREM WorkflowSettles == Workflow!Spec => []Workflow!Accounted /\ Workflow!Settled
<1>1. Workflow!Init => WorkflowType
  BY DEF Workflow!Init, WorkflowType, Workflow!Accounted
<1>2. WorkflowType /\ [Workflow!Next]_(Workflow!workflow) => WorkflowType'
  <2>1. CASE UNCHANGED Workflow!workflow
    BY <2>1 DEF Workflow!workflow, WorkflowType, Workflow!Accounted
  <2> QED  BY <2>1, WorkflowStep
<1>3. WorkflowType /\ [Workflow!Next]_(Workflow!workflow) =>
        [\A r \in DOMAIN Ledger : ~Workflow!Pending(r) =>
            /\ Ledger'[r] = Ledger[r]
            /\ r \notin Granted => r \notin Granted']_(Workflow!workflow)
  BY WorkflowStep
<1>4. WorkflowType => Workflow!Accounted
  BY DEF WorkflowType
<1> QED  BY <1>1, <1>2, <1>3, <1>4, PTL DEF Workflow!Spec, Workflow!Settled

-----------------------------------------------------------------------------
(***************************************************************************)
(* How much several handlers can do at once                                *)
(*                                                                         *)
(* A handler that has passed its check is counted beside what the check    *)
(* forbids: it adds one row and leaves the count, and none joins it while  *)
(* there is such a row.                                                    *)
(***************************************************************************)
PendingOf(g, i) ==
    {r \in DOMAIN requests :
        /\ requests[r].status = "pending"
        /\ requests[r].group = g /\ requests[r].requester = i}

Inserting(g, i) ==
    {h \in Handlers : /\ job[h].pc = "create_insert"
                      /\ job[h].group = g /\ job[h].identity = i}

PendingLoad ==
    \A g \in Groups, i \in Identities :
        Cardinality(PendingOf(g, i)) + Cardinality(Inserting(g, i)) <= Cardinality(Handlers)

ToGrant == {"approve_owner", "approve_record", "approve_count", "approve_finalize"}

GrantedBy(r) == {m \in memberships : m.via = r}
Approvers(r) == {h \in Handlers : job[h].pc \in ToGrant /\ job[h].row = r}

GrantLoad ==
    \A r \in DOMAIN requests :
        /\ IsFiniteSet(GrantedBy(r))
        /\ Cardinality(GrantedBy(r)) + Cardinality(Approvers(r)) <= Cardinality(Handlers)
        /\ requests[r].status = "pending" => GrantedBy(r) = {}

\* Only a passed check leads to the insert of a request.
LEMMA OnlyCheckLeadsToInsert ==
  ASSUME TypeOK, NEW h \in Handlers, Call(h) \/ Continue(h) \/ Crash(h),
         job'[h].pc = "create_insert"
  PROVE  /\ UNCHANGED tables
         /\ job'[h].group = job[h].group /\ job'[h].identity = job[h].identity
         /\ ~HasPending(job[h].group, job[h].identity)
<1>1. job[h] \in Job /\ job \in [Handlers -> Job]
  BY DEF TypeOK
<1>2. ASSUME NEW p \in Places, Goto(h, p)
      PROVE  /\ job'[h].pc = p
             /\ job'[h].group = job[h].group /\ job'[h].identity = job[h].identity
  <2>1. job'[h] = [job[h] EXCEPT !.pc = p]
    BY <1>2, GotoEffect
  <2> QED  BY <1>1, <2>1 DEF Job
<1>3. ~Finish(h)
  BY FinishEffect DEF Idle
<1>4. ~CreateCheckMember(h) /\ ~AddCheck(h)
  BY <1>1 DEF CreateCheckMember, AddCheck, Begin, Idle
<1>5. ~ApproveAuthorize(h) /\ ~ApproveCount(h) /\ ~DenyAuthorize(h)
  <2>1. {"approve_record", "approve_next", "approve_finalize", "deny_write"} \subseteq Places
    BY DEF Places
  <2>2. \A p \in {"approve_record", "approve_next", "approve_finalize", "deny_write"} :
           ~Goto(h, p)
    BY <1>2, <2>1
  <2> QED  BY <1>3, <2>2 DEF ApproveAuthorize, ApproveCount, DenyAuthorize
<1>6. CreateCheckPending(h)
  BY <1>4, <1>5, Elsewhere DEF Promised
<1>7. Goto(h, "create_insert") /\ ~HasPending(job[h].group, job[h].identity)
  BY <1>3, <1>6 DEF CreateCheckPending
<1>8. UNCHANGED tables
  BY <1>6 DEF CreateCheckPending
<1> QED  BY <1>2, <1>7, <1>8 DEF Places

\* A handler comes to be on its way to a grant only from a pending request.
LEMMA OnlyPendingIsApproved ==
  ASSUME TypeOK, NEW h \in Handlers, Call(h) \/ Continue(h) \/ Crash(h),
         job'[h].pc \in ToGrant
  PROVE  /\ UNCHANGED memberships
         /\ \/ job[h].pc \in ToGrant /\ job'[h].row = job[h].row
            \/ requests[job'[h].row].status = "pending"
<1>1. job[h] \in Job /\ job \in [Handlers -> Job]
  BY DEF TypeOK
<1>2. ASSUME NEW p \in Places, Goto(h, p)
      PROVE  job'[h].pc = p /\ job'[h].row = job[h].row
  <2>1. job'[h] = [job[h] EXCEPT !.pc = p]
    BY <1>2, GotoEffect
  <2> QED  BY <1>1, <2>1 DEF Job
<1>3. ~Finish(h)
  BY FinishEffect DEF Idle, ToGrant
<1>4. \A p \in Places \ ToGrant : ~Goto(h, p)
  BY <1>2
<1>5. CASE ApproveAuthorize(h) \/ ApproveRecord(h) \/ ApproveCount(h)
  <2>1. job[h].pc \in ToGrant /\ UNCHANGED memberships
    BY <1>5 DEF ApproveAuthorize, ApproveRecord, ApproveCount, Step, At, ToGrant, tables
  <2>2. \E p \in Places : Goto(h, p)
    BY <1>5 DEF ApproveAuthorize, ApproveRecord, ApproveCount, Places
  <2> QED  BY <1>2, <2>1, <2>2
<1>6. CASE ApproveRead(h)
  <2>1. PICK a \in Identities, r \in DOMAIN requests, rest \in SUBSET DOMAIN requests :
          /\ requests[r].status = "pending"
          /\ Begin(h, "approve", [Idle EXCEPT !.pc = "approve_owner", !.actor = a,
                                               !.row = r, !.todo = rest])
    BY <1>6 DEF ApproveRead
  <2>2. job'[h].row = r
    BY <1>1, <2>1 DEF Begin, Idle
  <2> QED  BY <1>6, <2>1, <2>2 DEF ApproveRead, tables
<1>7. CASE ApproveNext(h)
  <2>1. PICK r \in job[h].todo :
           job' = [job EXCEPT
               ![h].row = r,
               ![h].todo = @ \ {r},
               ![h].pc = IF requests[r].status = "pending"
                         THEN "approve_owner" ELSE "approve_next"]
    BY <1>3, <1>7 DEF ApproveNext
  <2>2. CASE requests[r].status = "pending"
    BY <1>1, <1>7, <2>1, <2>2 DEF Job, ApproveNext, tables
  <2>3. CASE requests[r].status # "pending"
    <3>1. job'[h].pc = "approve_next"
      BY <1>1, <2>1, <2>3 DEF Job
    <3> QED  BY <3>1 DEF ToGrant
  <2> QED  BY <2>2, <2>3
<1>8. CASE Call(h) /\ ~ApproveRead(h)
  <2>0. ASSUME NEW op, NEW j, Begin(h, op, j), j.pc \notin ToGrant
        PROVE  FALSE
    BY <1>1, <2>0 DEF Begin
  <2>1. ~CreateCheckMember(h)
    BY <2>0 DEF CreateCheckMember, Idle, ToGrant
  <2>2. ~DenyRead(h)
    BY <2>0 DEF DenyRead, Idle, ToGrant
  <2>3. ~CancelRead(h)
    BY <2>0 DEF CancelRead, Idle, ToGrant
  <2>4. ~AddCheck(h)
    BY <2>0 DEF AddCheck, Idle, ToGrant
  <2>5. ~RemoveFind(h)
    BY <2>0 DEF RemoveFind, Idle, ToGrant
  <2>6. ~UpdateGroup(h)
    BY <2>0 DEF UpdateGroup, Idle, ToGrant
  <2>7. ~SweepSelect(h)
    BY <2>0 DEF SweepSelect, Idle, ToGrant
  <2>8. ~StaleSelect(h)
    BY <2>0 DEF StaleSelect, Idle, ToGrant
  <2> QED  BY <1>8, <2>1, <2>2, <2>3, <2>4, <2>5, <2>6, <2>7, <2>8 DEF Call
<1>9. CASE Crash(h)
  BY <1>3, <1>9 DEF Crash
<1>10. CASE SweepSync(h) \/ StaleWrite(h)
  <2>1. SweepSync(h) => job'[h].pc = "sweep_delete"
    BY <1>1 DEF SweepSync, Job
  <2>2. ~StaleWrite(h)
    BY <1>1, <1>3 DEF StaleWrite, Step, At, Job, ToGrant
  <2> QED  BY <1>10, <2>1, <2>2 DEF ToGrant
<1>11. CASE /\ Continue(h) /\ ~ApproveAuthorize(h) /\ ~ApproveRecord(h) /\ ~ApproveCount(h)
            /\ ~ApproveNext(h) /\ ~SweepSync(h) /\ ~StaleWrite(h)
  <2> DEFINE Ends == {"create_insert", "approve_next", "approve_sync", "deny_write",
                      "add_sync", "remove_delete", "sweep_sync"}
  <2>1. Ends \subseteq Places \ ToGrant
    BY DEF Places, ToGrant
  <2>2. CASE \/ CreateCheckPending(h) \/ CreateInsert(h) \/ ApproveFinalize(h)
             \/ ApproveSync(h) \/ DenyAuthorize(h) \/ DenyWrite(h)
    <3>1. Finish(h) \/ \E p \in Ends : Goto(h, p)
      BY <2>2 DEF CreateCheckPending, CreateInsert, ApproveFinalize, ApproveSync,
         DenyAuthorize, DenyWrite
    <3> QED  BY <1>3, <1>4, <2>1, <3>1
  <2>3. CASE \/ CancelWrite(h) \/ AddInsert(h) \/ AddSync(h) \/ RemoveSync(h)
             \/ RemoveDelete(h) \/ SweepDelete(h)
    <3>1. Finish(h) \/ \E p \in Ends : Goto(h, p)
      BY <2>3 DEF CancelWrite, AddInsert, AddSync, RemoveSync, RemoveDelete, SweepDelete
    <3> QED  BY <1>3, <1>4, <2>1, <3>1
  <2> QED  BY <1>11, <2>2, <2>3 DEF Continue
<1> QED  BY <1>5, <1>6, <1>7, <1>8, <1>9, <1>10, <1>11

\* The table of requests is a finite one.
LEMMA PendingFinite ==
  ASSUME requests \in Seq(RequestRow), NEW g, NEW i
  PROVE  IsFiniteSet(PendingOf(g, i))
<1>1. DOMAIN requests = 1..Len(requests) /\ Len(requests) \in Int
  BY LenProperties
<1>2. IsFiniteSet(DOMAIN requests)
  BY <1>1, FS_Interval
<1> QED  BY <1>2, FS_Subset DEF PendingOf

\* Two counts that do not grow keep within the limit.
LEMMA CountsShrink ==
  ASSUME NEW A, NEW B, NEW C, NEW D, NEW n \in Nat, IsFiniteSet(A), IsFiniteSet(B),
         C \subseteq A, D \subseteq B, Cardinality(A) + Cardinality(B) <= n
  PROVE  /\ IsFiniteSet(C) /\ IsFiniteSet(D)
         /\ Cardinality(C) + Cardinality(D) <= n
<1>1. IsFiniteSet(C) /\ Cardinality(C) <= Cardinality(A)
  BY FS_Subset
<1>2. IsFiniteSet(D) /\ Cardinality(D) <= Cardinality(B)
  BY FS_Subset
<1>3. /\ Cardinality(A) \in Nat /\ Cardinality(B) \in Nat
      /\ Cardinality(C) \in Nat /\ Cardinality(D) \in Nat
  BY <1>1, <1>2, FS_CardinalityType
<1> QED  BY <1>1, <1>2, <1>3

\* What one count gains the other has lost.
LEMMA CountsMove ==
  ASSUME NEW A, NEW B, NEW x, NEW h \in B, NEW n \in Nat, IsFiniteSet(A), IsFiniteSet(B),
         Cardinality(A) + Cardinality(B) <= n
  PROVE  /\ IsFiniteSet(A \union {x})
         /\ Cardinality(A \union {x}) + Cardinality(B \ {h}) <= n
<1>1. /\ IsFiniteSet(A \union {x})
      /\ Cardinality(A \union {x}) = IF x \in A THEN Cardinality(A) ELSE Cardinality(A) + 1
  BY FS_AddElement
<1>2. /\ IsFiniteSet(B \ {h})
      /\ Cardinality(B \ {h}) = Cardinality(B) - 1
  BY FS_RemoveElement
<1>3. Cardinality(A) \in Nat /\ Cardinality(B) \in Nat
  BY FS_CardinalityType
<1> QED  BY <1>1, <1>2, <1>3

\* Nothing and part of the handlers are no more than the handlers.
LEMMA NothingAndSome ==
  ASSUME NEW S, NEW B, IsFiniteSet(S), B \subseteq S
  PROVE  Cardinality({}) + Cardinality(B) <= Cardinality(S)
<1>1. /\ IsFiniteSet(B) /\ Cardinality(B) <= Cardinality(S)
      /\ Cardinality(S) \in Nat
  BY FS_Subset, FS_CardinalityType
<1>2. Cardinality(B) \in Nat /\ Cardinality({}) = 0
  BY <1>1, FS_CardinalityType, FS_EmptySet
<1> QED  BY <1>1, <1>2

\* A step of a handler that is not an insert: what is pending was so before.
LEMMA PendingKept ==
  ASSUME NoNewPending, NEW g, NEW i
  PROVE  PendingOf(g, i)' \subseteq PendingOf(g, i)
  BY DEF NoNewPending, PendingOf

\* A step keeps the pending requests, and the inserts on their way, within the
\* number of handlers.
LEMMA PendingLoadStep ==
  ASSUME IsFiniteSet(Handlers), IInv, PendingLoad, [Next]_vars
  PROVE  PendingLoad'
<1> SUFFICES ASSUME NEW g \in Groups, NEW i \in Identities
             PROVE  Cardinality(PendingOf(g, i)') + Cardinality(Inserting(g, i)')
                       <= Cardinality(Handlers)
  BY DEF PendingLoad
<1>1. /\ TypeOK /\ requests \in Seq(RequestRow) /\ Cardinality(Handlers) \in Nat
      /\ Cardinality(PendingOf(g, i)) + Cardinality(Inserting(g, i)) <= Cardinality(Handlers)
  BY FS_CardinalityType DEF IInv, TypeOK, PendingLoad
<1>2. IsFiniteSet(PendingOf(g, i)) /\ IsFiniteSet(Inserting(g, i))
  BY <1>1, PendingFinite, FS_Subset DEF Inserting
<1>3. CASE Tick \/ UNCHANGED vars
  <2>1. UNCHANGED <<requests, job>>
    BY <1>3, NoHandler DEF tables
  <2>2. PendingOf(g, i)' = PendingOf(g, i) /\ Inserting(g, i)' = Inserting(g, i)
    BY <2>1 DEF PendingOf, Inserting
  <2> QED  BY <1>1, <2>2
<1>4. ASSUME NEW h \in Handlers, Call(h) \/ Continue(h) \/ Crash(h)
      PROVE  Cardinality(PendingOf(g, i)') + Cardinality(Inserting(g, i)')
                <= Cardinality(Handlers)
  <2>1. Inserting(g, i)' \subseteq Inserting(g, i) \union {h}
    BY <1>1, <1>4, OneMoves DEF OthersWait, Inserting
  <2>2. CASE CreateInsert(h)
    <3>1. job'[h].pc = "idle"
      BY <1>1, <2>2, FinishEffect DEF CreateInsert, Idle
    <3>2. h \notin Inserting(g, i)'
      BY <3>1 DEF Inserting
    <3>3. PICK q : /\ q.group = job[h].group /\ q.requester = job[h].identity
                   /\ requests' = Append(requests, q)
      BY <2>2 DEF CreateInsert
    <3>4. requests' \in Seq(RequestRow)
      BY <1>4, NextIInv DEF IInv, TypeOK, Next
    <3>5. /\ DOMAIN requests' = 1..(Len(requests) + 1) /\ DOMAIN requests = 1..Len(requests)
          /\ Len(requests) \in Nat
          /\ requests'[Len(requests) + 1] = q
          /\ \A r \in DOMAIN requests : requests'[r] = requests[r]
      BY <1>1, <3>3, <3>4, LenProperties, AppendProperties
    <3>6. \A r \in DOMAIN requests' : r \in DOMAIN requests \/ r = Len(requests) + 1
      BY <3>5
    <3>7. CASE job[h].group = g /\ job[h].identity = i
      <4>1. h \in Inserting(g, i)
        BY <2>2, <3>7 DEF CreateInsert, Step, At, Inserting
      <4>2. PendingOf(g, i)' \subseteq PendingOf(g, i) \union {Len(requests) + 1}
        BY <3>5, <3>6 DEF PendingOf
      <4>3. Inserting(g, i)' \subseteq Inserting(g, i) \ {h}
        BY <2>1, <3>2
      <4>4. /\ IsFiniteSet(PendingOf(g, i) \union {Len(requests) + 1})
            /\ IsFiniteSet(Inserting(g, i) \ {h})
            /\ Cardinality(PendingOf(g, i) \union {Len(requests) + 1})
                  + Cardinality(Inserting(g, i) \ {h}) <= Cardinality(Handlers)
        BY <1>1, <1>2, <4>1, CountsMove, FS_RemoveElement
      <4> QED  BY <1>1, <4>2, <4>3, <4>4, CountsShrink
    <3>8. CASE ~(job[h].group = g /\ job[h].identity = i)
      <4>1. PendingOf(g, i)' \subseteq PendingOf(g, i)
        BY <3>3, <3>5, <3>6, <3>8 DEF PendingOf
      <4>2. Inserting(g, i)' \subseteq Inserting(g, i)
        BY <2>1, <3>2
      <4> QED  BY <1>1, <1>2, <4>1, <4>2, CountsShrink
    <3> QED  BY <3>7, <3>8
  <2>3. CASE ~CreateInsert(h)
    <3>1. PendingOf(g, i)' \subseteq PendingOf(g, i)
      BY <1>4, <2>3, OnlyInsertPends, PendingKept
    <3>2. CASE h \in Inserting(g, i)'
      <4>1. job'[h].pc = "create_insert" /\ job'[h].group = g /\ job'[h].identity = i
        BY <3>2 DEF Inserting
      <4>2. ~HasPending(g, i)
        BY <1>1, <1>4, <4>1, OnlyCheckLeadsToInsert
      <4>3. PendingOf(g, i)' = {}
        BY <3>1, <4>2 DEF HasPending, PendingOf
      <4>4. Inserting(g, i)' \subseteq Handlers
        BY DEF Inserting
      <4> QED  BY <4>3, <4>4, NothingAndSome
    <3>3. CASE h \notin Inserting(g, i)'
      <4>1. Inserting(g, i)' \subseteq Inserting(g, i)
        BY <2>1, <3>3
      <4> QED  BY <1>1, <1>2, <3>1, <4>1, CountsShrink
    <3> QED  BY <3>2, <3>3
  <2> QED  BY <2>2, <2>3
<1> QED  BY <1>3, <1>4 DEF Next

\* For any number of handlers, a person has no more pending requests for a group
\* than there are handlers: a check is made while none is pending, and each handler
\* has passed at most one check it has not used.
THEOREM PendingPerHandlerTheorem ==
  ASSUME IsFiniteSet(Handlers)
  PROVE  Spec => []PendingPerHandler
<1>1. Init => PendingLoad
  <2> SUFFICES ASSUME Init, NEW g \in Groups, NEW i \in Identities
               PROVE  Cardinality(PendingOf(g, i)) + Cardinality(Inserting(g, i))
                         <= Cardinality(Handlers)
    BY DEF PendingLoad
  <2>1. PendingOf(g, i) = {} /\ Inserting(g, i) \subseteq Handlers
    BY DEF Init, PendingOf, Inserting
  <2> QED  BY <2>1, NothingAndSome
<1>2. IInv /\ PendingLoad /\ [Next]_vars => PendingLoad'
  BY PendingLoadStep
<1>3. IInv /\ PendingLoad => PendingPerHandler
  <2> SUFFICES ASSUME IInv, PendingLoad, NEW g \in Groups, NEW i \in Identities
               PROVE  Cardinality(PendingOf(g, i)) <= Cardinality(Handlers)
    BY DEF PendingPerHandler, PendingOf
  <2>1. /\ Cardinality(Handlers) \in Nat
        /\ Cardinality(PendingOf(g, i)) + Cardinality(Inserting(g, i)) <= Cardinality(Handlers)
    BY FS_CardinalityType DEF PendingLoad
  <2>2. IsFiniteSet(PendingOf(g, i)) /\ IsFiniteSet(Inserting(g, i))
    BY PendingFinite, FS_Subset DEF IInv, TypeOK, Inserting
  <2>3. Cardinality(PendingOf(g, i)) \in Nat /\ Cardinality(Inserting(g, i)) \in Nat
    BY <2>2, FS_CardinalityType
  <2> QED  BY <2>1, <2>3
<1> QED  BY <1>1, <1>2, <1>3, Invariance, PTL DEF Spec

-----------------------------------------------------------------------------
\* Memberships that are marked or deleted, or given by an administrator, grant
\* no request more than before.
LEMMA NoNewGrant ==
  ASSUME TypeOK, NEW h \in Handlers, Call(h) \/ Continue(h) \/ Crash(h), NEW r \in Nat \ {0},
         IsFiniteSet(GrantedBy(r)), ~(ApproveFinalize(h) /\ job[h].row = r)
  PROVE  /\ IsFiniteSet(GrantedBy(r)') /\ Cardinality(GrantedBy(r)') <= Cardinality(GrantedBy(r))
         /\ GrantedBy(r) = {} => GrantedBy(r)' = {}
<1>1. ASSUME GrantedBy(r)' \subseteq GrantedBy(r)
      PROVE  /\ IsFiniteSet(GrantedBy(r)')
             /\ Cardinality(GrantedBy(r)') <= Cardinality(GrantedBy(r))
             /\ GrantedBy(r) = {} => GrantedBy(r)' = {}
  BY <1>1, FS_Subset
<1>2. CASE memberships' \subseteq memberships
  BY <1>1, <1>2 DEF GrantedBy
<1>3. CASE RemoveDelete(h) \/ SweepDelete(h)
  <2>1. memberships' \subseteq memberships
    BY <1>3 DEF RemoveDelete, SweepDelete, DeleteMembership
  <2> QED  BY <1>2, <2>1
<1>4. CASE AddInsert(h)
  <2>1. PICK row : row.via = 0 /\ memberships' = memberships \union {row}
    BY <1>4 DEF AddInsert, InsertMembership
  <2>2. GrantedBy(r)' \subseteq GrantedBy(r)
    BY <2>1 DEF GrantedBy
  <2> QED  BY <1>1, <2>2
<1>5. CASE ApproveFinalize(h)
  <2>1. PICK row : row.via = job[h].row /\ memberships' = memberships \union {row}
    BY <1>5 DEF ApproveFinalize, InsertMembership
  <2>2. job[h].row # r
    BY <1>5
  <2>3. GrantedBy(r)' \subseteq GrantedBy(r)
    BY <2>1, <2>2 DEF GrantedBy
  <2> QED  BY <1>1, <2>3
<1>6. ASSUME NEW x \in memberships, Marked(x)
      PROVE  /\ IsFiniteSet(GrantedBy(r)')
             /\ Cardinality(GrantedBy(r)') <= Cardinality(GrantedBy(r))
             /\ GrantedBy(r) = {} => GrantedBy(r)' = {}
  <2> DEFINE y == [x EXCEPT !.synced = TRUE]
  <2>1. y.via = x.via
    BY DEF TypeOK, MembershipRow
  <2>2. memberships' = (memberships \ {x}) \union {y}
    BY <1>6 DEF Marked
  <2> HIDE DEF y
  <2>3. CASE x.via = r
    <3>1. x \in GrantedBy(r)
      BY <2>3 DEF GrantedBy
    <3>2. GrantedBy(r)' = (GrantedBy(r) \ {x}) \union {y}
      BY <2>1, <2>2, <2>3 DEF GrantedBy
    <3>3. /\ IsFiniteSet(GrantedBy(r) \ {x})
          /\ Cardinality(GrantedBy(r) \ {x}) = Cardinality(GrantedBy(r)) - 1
          /\ Cardinality(GrantedBy(r)) \in Nat
      BY <3>1, FS_RemoveElement, FS_CardinalityType
    <3>4. /\ IsFiniteSet((GrantedBy(r) \ {x}) \union {y})
          /\ Cardinality((GrantedBy(r) \ {x}) \union {y})
                \in {Cardinality(GrantedBy(r) \ {x}), Cardinality(GrantedBy(r) \ {x}) + 1}
      BY <3>3, FS_AddElement
    <3> QED  BY <3>1, <3>2, <3>3, <3>4
  <2>4. CASE x.via # r
    <3>1. GrantedBy(r)' \subseteq GrantedBy(r)
      BY <2>1, <2>2, <2>4 DEF GrantedBy
    <3> QED  BY <1>1, <3>1
  <2> QED  BY <2>3, <2>4
<1> QED  BY <1>2, <1>3, <1>4, <1>5, <1>6, MembershipChange

\* The request a finalizing handler decides is pending no more.
LEMMA FinalizeDecides ==
  ASSUME IInv, NEW h \in Handlers, ApproveFinalize(h)
  PROVE  /\ job[h].row \in DOMAIN requests
         /\ requests'[job[h].row].status # "pending"
<1>1. PICK r : r = job[h].row
  OBVIOUS
<1>2. r \in DOMAIN requests /\ job[h].actor \in Identities
  BY <1>1 DEF ApproveFinalize, Step, At, IInv, LocalsOK, LocalOK, OnRequest, Approving
<1>3. requests[r] \in RequestRow
  BY <1>2, RequestType DEF IInv
<1> DEFINE q == [requests[r] EXCEPT !.status = "approved", !.decidedBy = job[h].actor]
<1>4. /\ q \in RequestRow /\ q.status = "approved" /\ q.group = requests[r].group
      /\ q.requester = requests[r].requester /\ q.expires = requests[r].expires
  BY <1>2, <1>3 DEF RequestRow, Statuses
<1>5. requests' = [requests EXCEPT ![r] = q]
  BY <1>1 DEF ApproveFinalize
<1> HIDE DEF q
<1>6. requests'[r].status # "pending"
  BY <1>2, <1>4, <1>5, UpdateRequest DEF IInv
<1> QED  BY <1>1, <1>2, <1>6

\* What a step of one handler makes of the load of a request that was there before.
LEMMA GrantLoadOfOne ==
  ASSUME IsFiniteSet(Handlers), IInv, GrantLoad,
         NEW h \in Handlers, Call(h) \/ Continue(h) \/ Crash(h), NEW r \in DOMAIN requests
  PROVE  /\ IsFiniteSet(GrantedBy(r)')
         /\ Cardinality(GrantedBy(r)') + Cardinality(Approvers(r)') <= Cardinality(Handlers)
<1>1. /\ TypeOK /\ r \in Nat \ {0} /\ Cardinality(Handlers) \in Nat
      /\ IsFiniteSet(GrantedBy(r)) /\ IsFiniteSet(Approvers(r))
      /\ Cardinality(GrantedBy(r)) + Cardinality(Approvers(r)) <= Cardinality(Handlers)
  <2>1. TypeOK /\ r \in 1..Len(requests)
    BY RequestType DEF IInv
  <2> QED  BY <2>1, FS_CardinalityType, FS_Subset DEF GrantLoad, Approvers
<1>2. Approvers(r)' \subseteq Approvers(r) \union {h}
  BY <1>1, OneMoves DEF OthersWait, Approvers
<1>3. CASE ApproveFinalize(h) /\ job[h].row = r
  <2>1. h \in Approvers(r)
    BY <1>3 DEF ApproveFinalize, Step, At, Approvers, ToGrant
  <2>2. h \notin Approvers(r)'
    <3>1. PICK p \in {"approve_sync", "approve_next"} : Goto(h, p)
      BY <1>3 DEF ApproveFinalize
    <3>2. p \in Places
      BY <3>1 DEF Places
    <3>3. job'[h] = [job[h] EXCEPT !.pc = p]
      BY <1>1, <3>1, <3>2, GotoEffect
    <3>4. job'[h].pc = p
      BY <1>1, <3>3 DEF TypeOK, Job
    <3> QED  BY <3>1, <3>4 DEF Approvers, ToGrant
  <2>3. PICK row : memberships' = memberships \union {row}
    BY <1>3 DEF ApproveFinalize, InsertMembership
  <2>4. GrantedBy(r)' \subseteq GrantedBy(r) \union {row}
    BY <2>3 DEF GrantedBy
  <2>5. Approvers(r)' \subseteq Approvers(r) \ {h}
    BY <1>2, <2>2
  <2>6. /\ IsFiniteSet(GrantedBy(r) \union {row}) /\ IsFiniteSet(Approvers(r) \ {h})
        /\ Cardinality(GrantedBy(r) \union {row}) + Cardinality(Approvers(r) \ {h})
              <= Cardinality(Handlers)
    BY <1>1, <2>1, CountsMove, FS_RemoveElement
  <2>7. PICK A, B : A = GrantedBy(r) \union {row} /\ B = Approvers(r) \ {h}
    OBVIOUS
  <2>8. /\ IsFiniteSet(A) /\ IsFiniteSet(B)
        /\ Cardinality(A) + Cardinality(B) <= Cardinality(Handlers)
        /\ GrantedBy(r)' \subseteq A /\ Approvers(r)' \subseteq B
    BY <2>4, <2>5, <2>6, <2>7
  <2> QED  BY <1>1, <2>8, CountsShrink
<1>4. CASE ~(ApproveFinalize(h) /\ job[h].row = r)
  <2>1. /\ IsFiniteSet(GrantedBy(r)') /\ Cardinality(GrantedBy(r)') <= Cardinality(GrantedBy(r))
        /\ GrantedBy(r) = {} => GrantedBy(r)' = {}
    BY <1>1, <1>4, NoNewGrant
  <2>2. CASE Approvers(r)' \subseteq Approvers(r)
    <3>1. IsFiniteSet(Approvers(r)') /\ Cardinality(Approvers(r)') <= Cardinality(Approvers(r))
      BY <1>1, <2>2, FS_Subset
    <3>2. /\ Cardinality(GrantedBy(r)) \in Nat /\ Cardinality(GrantedBy(r)') \in Nat
          /\ Cardinality(Approvers(r)) \in Nat /\ Cardinality(Approvers(r)') \in Nat
      BY <1>1, <2>1, <3>1, FS_CardinalityType
    <3> QED  BY <1>1, <2>1, <3>1, <3>2
  <2>3. CASE ~(Approvers(r)' \subseteq Approvers(r))
    <3>1. h \in Approvers(r)' /\ h \notin Approvers(r)
      BY <1>2, <2>3
    <3>2. job'[h].pc \in ToGrant /\ job'[h].row = r
      BY <3>1 DEF Approvers
    <3>3. requests[r].status = "pending"
      BY <1>1, <3>1, <3>2, OnlyPendingIsApproved DEF Approvers
    <3>4. GrantedBy(r)' = {}
      BY <2>1, <3>3 DEF GrantLoad
    <3>5. Approvers(r)' \subseteq Handlers
      BY DEF Approvers
    <3> QED  BY <2>1, <3>4, <3>5, NothingAndSome
  <2> QED  BY <2>2, <2>3
<1> QED  BY <1>3, <1>4

\* What a step of one handler makes of what has been granted on pending requests.
LEMMA PendingStaysUngranted ==
  ASSUME IsFiniteSet(Handlers), IInv, GrantLoad, NEW h \in Handlers,
         Call(h) \/ Continue(h) \/ Crash(h), ~CreateInsert(h),
         NEW r \in DOMAIN requests, requests'[r].status = "pending"
  PROVE  GrantedBy(r)' = {}
<1>1. requests[r].status = "pending"
  BY OnlyInsertPends DEF NoNewPending
<1>2. GrantedBy(r) = {} /\ IsFiniteSet(GrantedBy(r))
  BY <1>1 DEF GrantLoad
<1>3. ~(ApproveFinalize(h) /\ job[h].row = r)
  BY FinalizeDecides
<1>4. TypeOK /\ r \in Nat \ {0}
  <2>1. TypeOK /\ r \in 1..Len(requests)
    BY RequestType DEF IInv
  <2> QED  BY <2>1
<1> QED  BY <1>2, <1>3, <1>4, NoNewGrant

\* A step keeps the grants of a request, and the handlers on their way to one, within
\* the number of handlers.
LEMMA GrantLoadStep ==
  ASSUME IsFiniteSet(Handlers), IInv, GrantLoad, [Next]_vars
  PROVE  GrantLoad'
<1>1. CASE Tick \/ UNCHANGED vars
  <2>1. UNCHANGED <<requests, job, memberships>>
    BY <1>1, NoHandler DEF tables
  <2>2. \A r : GrantedBy(r)' = GrantedBy(r) /\ Approvers(r)' = Approvers(r)
    BY <2>1 DEF GrantedBy, Approvers
  <2> QED  BY <2>1, <2>2 DEF GrantLoad
<1>2. ASSUME NEW h \in Handlers, Call(h) \/ Continue(h) \/ Crash(h)
      PROVE  GrantLoad'
  <2>1. CASE ~CreateInsert(h)
    <3>1. DOMAIN requests' = DOMAIN requests
      BY <1>2, <2>1, OnlyInsertPends DEF NoNewPending
    <3> QED  BY <1>2, <2>1, <3>1, GrantLoadOfOne, PendingStaysUngranted DEF GrantLoad
  <2>2. CASE CreateInsert(h)
    <3>1. PICK q : requests' = Append(requests, q)
      BY <2>2 DEF CreateInsert
    <3>2. requests \in Seq(RequestRow) /\ requests' \in Seq(RequestRow)
      BY <1>2, NextIInv DEF IInv, TypeOK, Next
    <3>3. /\ DOMAIN requests' = 1..(Len(requests) + 1) /\ DOMAIN requests = 1..Len(requests)
          /\ Len(requests) \in Nat
          /\ \A r \in DOMAIN requests : requests'[r] = requests[r]
      BY <3>1, <3>2, LenProperties, AppendProperties
    <3>4. UNCHANGED memberships
      BY <2>2 DEF CreateInsert
    <3> SUFFICES ASSUME NEW r \in DOMAIN requests'
                 PROVE  /\ IsFiniteSet(GrantedBy(r)')
                        /\ Cardinality(GrantedBy(r)') + Cardinality(Approvers(r)')
                              <= Cardinality(Handlers)
                        /\ requests'[r].status = "pending" => GrantedBy(r)' = {}
      BY DEF GrantLoad
    <3>5. CASE r \in DOMAIN requests
      <4>1. requests'[r].status = "pending" => GrantedBy(r)' = {}
        BY <3>3, <3>4, <3>5 DEF GrantLoad, GrantedBy
      <4> QED  BY <1>2, <3>5, <4>1, GrantLoadOfOne
    <3>6. CASE r \notin DOMAIN requests
      <4>1. r # 0
        BY <3>3
      <4>2. GrantedBy(r)' = {}
        BY <3>4, <3>6, <4>1 DEF IInv, GrantsTraceToApproval, GrantedBy
      <4>3. Approvers(r)' \subseteq Handlers
        BY DEF Approvers
      <4> QED  BY <4>2, <4>3, NothingAndSome, FS_EmptySet
    <3> QED  BY <3>5, <3>6
  <2> QED  BY <2>1, <2>2
<1> QED  BY <1>1, <1>2 DEF Next

\* For any number of handlers, a request grants no more memberships than there are
\* handlers: each is counted once, as on its way or as a membership, because none
\* sets out for a request that has been granted.
THEOREM GrantsPerHandlerTheorem ==
  ASSUME IsFiniteSet(Handlers)
  PROVE  Spec => []GrantsPerHandler
<1>1. Init => GrantLoad
  BY DEF Init, GrantLoad
<1>2. IInv /\ GrantLoad /\ [Next]_vars => GrantLoad'
  BY GrantLoadStep
<1>3. GrantLoad => GrantsPerHandler
  <2> SUFFICES ASSUME GrantLoad, NEW r \in DOMAIN requests
               PROVE  Cardinality(GrantedBy(r)) <= Cardinality(Handlers)
    BY DEF GrantsPerHandler, GrantedBy
  <2>1. /\ IsFiniteSet(GrantedBy(r)) /\ IsFiniteSet(Approvers(r))
        /\ Cardinality(GrantedBy(r)) + Cardinality(Approvers(r)) <= Cardinality(Handlers)
    BY FS_Subset DEF GrantLoad, Approvers
  <2>2. /\ Cardinality(GrantedBy(r)) \in Nat /\ Cardinality(Approvers(r)) \in Nat
        /\ Cardinality(Handlers) \in Nat
    BY <2>1, FS_CardinalityType
  <2> QED  BY <2>1, <2>2
<1> QED  BY <1>1, <1>2, <1>3, Invariance, PTL DEF Spec

-----------------------------------------------------------------------------
(***************************************************************************)
(* Every handler comes to its end                                          *)
(*                                                                         *)
(* What a handler has before it is a number, and each of its steps makes   *)
(* it smaller: bulk approvals go on when one of them fails, and the jobs   *)
(* work off lists that others write to, but nothing is done twice.         *)
(***************************************************************************)
Rank(place) ==
    IF place \in {"idle", "stale_write", "sweep_sync"} THEN 0
    ELSE IF place \in {"create_insert", "approve_next", "deny_write", "cancel_write",
                       "add_sync", "remove_delete", "sweep_delete"} THEN 1
    ELSE IF place \in {"create_pending", "approve_sync", "deny_owner", "add_insert",
                       "remove_sync"} THEN 2
    ELSE IF place = "approve_finalize" THEN 3
    ELSE IF place = "approve_count" THEN 4
    ELSE IF place = "approve_record" THEN 5 ELSE 6

Work(j) == Rank(j.pc) + 6 * Cardinality(j.todo) + 2 * Cardinality(j.expired)

\* The lists of a handler are finite, and at the places that take the next element
\* of a list without looking there is one.
ListsOK(j) ==
    /\ IsFiniteSet(j.todo) /\ IsFiniteSet(j.expired)
    /\ j.pc = "stale_write" => j.todo # {}
    /\ j.pc = "sweep_sync" => j.expired # {}

WorkInv ==
    /\ IsFiniteSet(memberships)
    /\ \A h \in Handlers : ListsOK(job[h])

WorkShrinks ==
    [][\A h \in Handlers :
          (job[h].pc # "idle" /\ job'[h] # job[h]) => Work(job'[h]) < Work(job[h])]_vars

\* The work before a handler is a natural number, and none if and only if it is idle.
LEMMA WorkType ==
  ASSUME NEW j \in Job, ListsOK(j)
  PROVE  /\ Work(j) \in Nat /\ Rank(j.pc) \in Nat
         /\ Cardinality(j.todo) \in Nat /\ Cardinality(j.expired) \in Nat
         /\ j.pc # "idle" => Work(j) > 0
<1>1. Cardinality(j.todo) \in Nat /\ Cardinality(j.expired) \in Nat
  BY FS_CardinalityType DEF ListsOK
<1>2. Rank(j.pc) \in Nat
  BY DEF Rank
<1>3. j.pc = "stale_write" => Cardinality(j.todo) > 0
  BY <1>1, FS_EmptySet DEF ListsOK
<1>4. j.pc = "sweep_sync" => Cardinality(j.expired) > 0
  BY <1>1, FS_EmptySet DEF ListsOK
<1>5. Rank(j.pc) > 0 \/ j.pc \in {"idle", "stale_write", "sweep_sync"}
  BY DEF Rank
<1>6. PICK a, b, c : a = Rank(j.pc) /\ b = Cardinality(j.todo) /\ c = Cardinality(j.expired)
  OBVIOUS
<1>7. a \in Nat /\ b \in Nat /\ c \in Nat /\ Work(j) = a + 6 * b + 2 * c
  BY <1>1, <1>2, <1>6 DEF Work
<1>8. Work(j) \in Nat
  BY <1>7
<1>9. (a > 0 \/ b > 0 \/ c > 0) => Work(j) > 0
  BY <1>7
<1> QED  BY <1>1, <1>2, <1>3, <1>4, <1>5, <1>6, <1>8, <1>9

\* A handler that has ended has no work before it.
LEMMA IdleWork == ListsOK(Idle) /\ Work(Idle) = 0
  BY FS_EmptySet DEF ListsOK, Work, Idle, Rank

\* What a step of h does for its work.
Shrinks(h) ==
    /\ ListsOK(job'[h])
    /\ job[h].pc # "idle" => Work(job'[h]) < Work(job[h])

\* Ending is progress.
LEMMA FinishShrinks ==
  ASSUME TypeOK, WorkInv, NEW h \in Handlers, Finish(h)
  PROVE  Shrinks(h)
<1>1. job'[h] = Idle /\ job[h] \in Job /\ ListsOK(job[h])
  BY FinishEffect DEF TypeOK, WorkInv
<1>2. Work(job[h]) \in Nat /\ (job[h].pc # "idle" => Work(job[h]) > 0)
  BY <1>1, WorkType
<1>3. ListsOK(Idle) /\ Work(Idle) = 0
  BY IdleWork
<1> QED  BY <1>1, <1>2, <1>3 DEF Shrinks

\* Going on to a place of lower rank is progress.
LEMMA GotoShrinks ==
  ASSUME TypeOK, WorkInv, NEW h \in Handlers, NEW p \in Places, Goto(h, p),
         Rank(p) < Rank(job[h].pc), p # "stale_write",
         p = "sweep_sync" => job[h].expired # {}
  PROVE  Shrinks(h)
<1>1. job'[h] = [job[h] EXCEPT !.pc = p] /\ job[h] \in Job /\ ListsOK(job[h])
  BY GotoEffect DEF TypeOK, WorkInv
<1>2. job'[h].pc = p /\ job'[h].todo = job[h].todo /\ job'[h].expired = job[h].expired
  BY <1>1 DEF Job
<1>3. /\ Rank(job[h].pc) \in Nat /\ Rank(p) \in Nat
      /\ Cardinality(job[h].todo) \in Nat /\ Cardinality(job[h].expired) \in Nat
  BY <1>1, WorkType DEF Rank
<1>4. Work(job'[h]) < Work(job[h])
  BY <1>2, <1>3 DEF Work
<1>5. ListsOK(job'[h])
  BY <1>1, <1>2 DEF ListsOK
<1> QED  BY <1>4, <1>5 DEF Shrinks

\* A handler begins with lists that are finite.
LEMMA BeginShrinks ==
  ASSUME TypeOK, NEW h \in Handlers, NEW op, NEW j, Begin(h, op, j), ListsOK(j)
  PROVE  Shrinks(h)
<1>1. job'[h] = j /\ job[h].pc = "idle"
  BY DEF TypeOK, Begin, At
<1> QED  BY <1>1 DEF Shrinks

\* A step that takes one element from a list is progress.
LEMMA TakeShrinks ==
  ASSUME TypeOK, WorkInv, NEW h \in Handlers, NEW r, r \in job[h].todo, NEW p \in Places,
         job'[h].pc = p, job'[h].todo = job[h].todo \ {r},
         job'[h].expired = job[h].expired,
         \/ p \in {"approve_owner", "approve_next"} /\ job[h].pc = "approve_next"
         \/ p = "stale_write" /\ job[h].pc = "stale_write" /\ job[h].todo # {r}
  PROVE  Shrinks(h)
<1>1. job[h] \in Job /\ ListsOK(job[h])
  BY DEF TypeOK, WorkInv
<1>2. /\ Cardinality(job[h].todo) \in Nat /\ Cardinality(job[h].expired) \in Nat
      /\ IsFiniteSet(job[h].todo \ {r})
      /\ Cardinality(job[h].todo \ {r}) = Cardinality(job[h].todo) - 1
  BY <1>1, WorkType, FS_RemoveElement DEF ListsOK
<1>3. p = "stale_write" => job[h].todo \ {r} # {}
  <2>1. CASE p = "stale_write"
    <3>1. job[h].todo # {r}
      BY <2>1
    <3> QED  BY <3>1
  <2> QED  BY <2>1
<1>4. ListsOK(job'[h])
  BY <1>1, <1>2, <1>3 DEF ListsOK
<1>5. Work(job'[h]) < Work(job[h])
  BY <1>2 DEF Work, Rank
<1> QED  BY <1>4, <1>5 DEF Shrinks

\* The steps that read and decide, and those that write one table, are progress.
LEMMA OneWayShrinks ==
  ASSUME TypeOK, WorkInv, NEW h \in Handlers,
         \/ CreateCheckPending(h) \/ CreateInsert(h)
         \/ ApproveAuthorize(h) \/ ApproveRecord(h) \/ ApproveCount(h)
         \/ ApproveFinalize(h) \/ ApproveSync(h)
         \/ DenyAuthorize(h) \/ DenyWrite(h) \/ CancelWrite(h)
         \/ AddInsert(h) \/ AddSync(h) \/ RemoveSync(h) \/ RemoveDelete(h)
  PROVE  Shrinks(h)
<1>1. CASE Finish(h)
  BY <1>1, FinishShrinks
<1>2. ASSUME NEW p \in Places, Goto(h, p), p # "stale_write", p # "sweep_sync",
             Rank(p) < Rank(job[h].pc)
      PROVE  Shrinks(h)
  BY <1>2, GotoShrinks
<1>3. CASE CreateCheckPending(h) \/ ApproveAuthorize(h)
  <2>1. Finish(h) \/ \E p \in Places : /\ Goto(h, p) /\ p # "stale_write" /\ p # "sweep_sync"
                                       /\ Rank(p) < Rank(job[h].pc)
    BY <1>3 DEF CreateCheckPending, ApproveAuthorize, Step, At, Rank, Places
  <2> QED  BY <1>1, <1>2, <2>1
<1>4. CASE ApproveRecord(h) \/ ApproveCount(h) \/ ApproveFinalize(h) \/ ApproveSync(h)
  <2>1. CASE ApproveRecord(h)
    BY <1>2, <2>1 DEF ApproveRecord, Step, At, Rank, Places
  <2>2. CASE ApproveCount(h)
    BY <1>2, <2>2 DEF ApproveCount, Step, At, Rank, Places
  <2>3. CASE ApproveFinalize(h)
    <3>1. \E p \in {"approve_sync", "approve_next"} : Goto(h, p)
      BY <2>3 DEF ApproveFinalize
    <3>2. job[h].pc = "approve_finalize"
      BY <2>3 DEF ApproveFinalize, Step, At
    <3> QED  BY <1>2, <3>1, <3>2 DEF Rank, Places
  <2>4. CASE ApproveSync(h)
    BY <1>2, <2>4 DEF ApproveSync, Step, At, Rank, Places
  <2> QED  BY <1>4, <2>1, <2>2, <2>3, <2>4
<1>5. CASE DenyAuthorize(h) \/ AddInsert(h) \/ RemoveSync(h)
  <2>1. Finish(h) \/ \E p \in Places : /\ Goto(h, p) /\ p # "stale_write" /\ p # "sweep_sync"
                                       /\ Rank(p) < Rank(job[h].pc)
    BY <1>5 DEF DenyAuthorize, AddInsert, RemoveSync, Step, At, Rank, Places
  <2> QED  BY <1>1, <1>2, <2>1
<1>6. CASE CreateInsert(h) \/ DenyWrite(h) \/ CancelWrite(h) \/ AddSync(h) \/ RemoveDelete(h)
  BY <1>1, <1>6 DEF CreateInsert, DenyWrite, CancelWrite, AddSync, RemoveDelete
<1> QED  BY <1>3, <1>4, <1>5, <1>6

\* The steps that work off a list are progress.
LEMMA ListShrinks ==
  ASSUME TypeOK, WorkInv, NEW h \in Handlers,
         ApproveNext(h) \/ SweepSync(h) \/ SweepDelete(h) \/ StaleWrite(h)
  PROVE  Shrinks(h)
<1>1. CASE Finish(h)
  BY <1>1, FinishShrinks
<1>2. job[h] \in Job /\ job \in [Handlers -> Job] /\ ListsOK(job[h])
  BY DEF TypeOK, WorkInv
<1>3. CASE ApproveNext(h)
  <2>1. ASSUME NEW r \in job[h].todo, NEW p \in {"approve_owner", "approve_next"},
               job' = [job EXCEPT ![h].row = r, ![h].todo = @ \ {r}, ![h].pc = p]
        PROVE  Shrinks(h)
    <3>1. /\ job'[h].pc = p /\ job'[h].todo = job[h].todo \ {r}
          /\ job'[h].expired = job[h].expired
      BY <1>2, <2>1 DEF Job
    <3>2. p \in Places /\ job[h].pc = "approve_next" /\ r \in job[h].todo
      BY <1>3, <2>1 DEF ApproveNext, Step, At, Places
    <3>3. \/ p \in {"approve_owner", "approve_next"} /\ job[h].pc = "approve_next"
          \/ p = "stale_write" /\ job[h].pc = "stale_write" /\ job[h].todo # {r}
      BY <2>1, <3>2
    <3> QED  BY <3>1, <3>2, <3>3, TakeShrinks
  <2>2. ASSUME ~Finish(h)
        PROVE  Shrinks(h)
    <3>1. PICK r \in job[h].todo :
             job' = [job EXCEPT
                 ![h].row = r,
                 ![h].todo = @ \ {r},
                 ![h].pc = IF requests[r].status = "pending"
                           THEN "approve_owner" ELSE "approve_next"]
      BY <1>3, <2>2 DEF ApproveNext
    <3>2. CASE requests[r].status = "pending"
      <4>1. job' = [job EXCEPT ![h].row = r, ![h].todo = @ \ {r},
                               ![h].pc = "approve_owner"]
        BY <3>1, <3>2
      <4>2. PICK p \in {"approve_owner", "approve_next"} : p = "approve_owner"
        OBVIOUS
      <4>3. job' = [job EXCEPT ![h].row = r, ![h].todo = @ \ {r}, ![h].pc = p]
        BY <4>1, <4>2
      <4> QED  BY <2>1, <4>3
    <3>3. CASE requests[r].status # "pending"
      <4>1. job' = [job EXCEPT ![h].row = r, ![h].todo = @ \ {r},
                               ![h].pc = "approve_next"]
        BY <3>1, <3>3
      <4> QED  BY <2>1, <4>1
    <3> QED  BY <3>2, <3>3
  <2> QED  BY <1>1, <2>2
<1>4. CASE SweepSync(h)
  <2>1. PICK m \in job[h].expired :
          job' = [job EXCEPT ![h].pc = "sweep_delete", ![h].row = m.id,
                             ![h].expired = @ \ {m}]
    BY <1>4 DEF SweepSync
  <2>2. /\ job'[h].pc = "sweep_delete" /\ job'[h].todo = job[h].todo
        /\ job'[h].expired = job[h].expired \ {m} /\ job[h].pc = "sweep_sync"
    BY <1>2, <1>4, <2>1 DEF Job, SweepSync, Step, At
  <2>3. /\ Cardinality(job[h].todo) \in Nat /\ Cardinality(job[h].expired) \in Nat
        /\ IsFiniteSet(job[h].expired \ {m})
        /\ Cardinality(job[h].expired \ {m}) = Cardinality(job[h].expired) - 1
    BY <1>2, WorkType, FS_RemoveElement DEF ListsOK
  <2>4. ListsOK(job'[h])
    BY <1>2, <2>2, <2>3 DEF ListsOK
  <2>5. Work(job'[h]) < Work(job[h])
    BY <2>2, <2>3 DEF Work, Rank
  <2> QED  BY <2>4, <2>5 DEF Shrinks
<1>5. CASE SweepDelete(h)
  <2>1. job[h].pc = "sweep_delete"
    BY <1>5 DEF SweepDelete, Step, At
  <2>2. Finish(h) \/ (Goto(h, "sweep_sync") /\ job[h].expired # {})
    BY <1>5 DEF SweepDelete
  <2>3. "sweep_sync" \in Places /\ Rank("sweep_sync") < Rank("sweep_delete")
    BY DEF Places, Rank
  <2> QED  BY <1>1, <2>1, <2>2, <2>3, GotoShrinks
<1>6. CASE StaleWrite(h)
  <2>1. PICK r \in job[h].todo :
           IF job[h].todo = {r} THEN Finish(h)
           ELSE job' = [job EXCEPT ![h].todo = @ \ {r}]
    BY <1>6 DEF StaleWrite
  <2>2. job[h].pc = "stale_write"
    BY <1>6 DEF StaleWrite, Step, At
  <2>3. CASE job[h].todo # {r}
    <3>1. /\ job'[h].pc = "stale_write" /\ job'[h].todo = job[h].todo \ {r}
          /\ job'[h].expired = job[h].expired
      BY <1>2, <2>1, <2>2, <2>3 DEF Job
    <3> QED  BY <2>2, <2>3, <3>1, TakeShrinks DEF Places
  <2> QED  BY <1>1, <2>1, <2>3
<1> QED  BY <1>3, <1>4, <1>5, <1>6

\* Handlers begin with finite lists.
LEMMA CallShrinks ==
  ASSUME TypeOK, WorkInv, NEW h \in Handlers, Call(h)
  PROVE  Shrinks(h)
<1>0. SUFFICES job[h].pc = "idle" /\ ListsOK(job'[h])
  BY DEF Shrinks
<1>1. ASSUME NEW op, NEW j, Begin(h, op, j)
      PROVE  job[h].pc = "idle" /\ job'[h] = j
  BY <1>1 DEF TypeOK, Begin, At
<1>2. IsFiniteSet(DOMAIN requests) /\ IsFiniteSet(memberships) /\ IsFiniteSet({})
  BY LenProperties, FS_Interval, FS_EmptySet DEF TypeOK, WorkInv
<1>3. ASSUME job[h].pc = "idle", job'[h].pc \notin {"stale_write", "sweep_sync"},
             IsFiniteSet(job'[h].todo), job'[h].expired = {}
      PROVE  job[h].pc = "idle" /\ ListsOK(job'[h])
  BY <1>2, <1>3 DEF ListsOK
<1>4. CASE CreateCheckMember(h)
  <2>1. PICK g, i, e :
          Begin(h, "create", [Idle EXCEPT !.pc = "create_pending", !.group = g, !.identity = i, !.expires = e])
    BY <1>4 DEF CreateCheckMember
  <2>2. job[h].pc = "idle" /\ job'[h] = [Idle EXCEPT !.pc = "create_pending", !.group = g, !.identity = i, !.expires = e]
    BY <2>1, <1>1
  <2>3. /\ job'[h].pc \notin {"stale_write", "sweep_sync"}
        /\ job'[h].todo = {} /\ job'[h].expired = {}
    BY <2>2 DEF Idle
  <2> QED  BY <1>2, <1>3, <2>2, <2>3
<1>5. CASE ApproveRead(h)
  <2>1. PICK a \in Identities, r \in DOMAIN requests, rest \in SUBSET DOMAIN requests :
          Begin(h, "approve", [Idle EXCEPT !.pc = "approve_owner", !.actor = a, !.row = r, !.todo = rest])
    BY <1>5 DEF ApproveRead
  <2>2. job[h].pc = "idle" /\ job'[h] = [Idle EXCEPT !.pc = "approve_owner", !.actor = a, !.row = r, !.todo = rest]
    BY <2>1, <1>1
  <2>3. /\ job'[h].pc \notin {"stale_write", "sweep_sync"}
        /\ job'[h].todo = rest /\ job'[h].expired = {}
    BY <2>2 DEF Idle
  <2>4. IsFiniteSet(rest)
    BY <1>2, FS_Subset
  <2> QED  BY <1>2, <1>3, <2>2, <2>3, <2>4
<1>6. CASE DenyRead(h)
  <2>1. PICK a, r :
          Begin(h, "deny", [Idle EXCEPT !.pc = "deny_owner", !.actor = a, !.row = r])
    BY <1>6 DEF DenyRead
  <2>2. job[h].pc = "idle" /\ job'[h] = [Idle EXCEPT !.pc = "deny_owner", !.actor = a, !.row = r]
    BY <2>1, <1>1
  <2>3. /\ job'[h].pc \notin {"stale_write", "sweep_sync"}
        /\ job'[h].todo = {} /\ job'[h].expired = {}
    BY <2>2 DEF Idle
  <2> QED  BY <1>2, <1>3, <2>2, <2>3
<1>7. CASE CancelRead(h)
  <2>1. PICK r :
          Begin(h, "cancel", [Idle EXCEPT !.pc = "cancel_write", !.row = r, !.actor = requests[r].requester])
    BY <1>7 DEF CancelRead
  <2>2. job[h].pc = "idle" /\ job'[h] = [Idle EXCEPT !.pc = "cancel_write", !.row = r, !.actor = requests[r].requester]
    BY <2>1, <1>1
  <2>3. /\ job'[h].pc \notin {"stale_write", "sweep_sync"}
        /\ job'[h].todo = {} /\ job'[h].expired = {}
    BY <2>2 DEF Idle
  <2> QED  BY <1>2, <1>3, <2>2, <2>3
<1>8. CASE AddCheck(h)
  <2>1. PICK g, i, e, linked :
          Begin(h, "add", [Idle EXCEPT !.pc = "add_insert", !.group = g, !.identity = i, !.expires = e, !.linked = linked])
    BY <1>8 DEF AddCheck
  <2>2. job[h].pc = "idle" /\ job'[h] = [Idle EXCEPT !.pc = "add_insert", !.group = g, !.identity = i, !.expires = e, !.linked = linked]
    BY <2>1, <1>1
  <2>3. /\ job'[h].pc \notin {"stale_write", "sweep_sync"}
        /\ job'[h].todo = {} /\ job'[h].expired = {}
    BY <2>2 DEF Idle
  <2> QED  BY <1>2, <1>3, <2>2, <2>3
<1>9. CASE RemoveFind(h)
  <2>1. PICK m : Begin(h, "remove",
                   [Idle EXCEPT !.pc = IF groups[m.group].synced
                                       THEN "remove_sync" ELSE "remove_delete",
                                !.group = m.group, !.identity = m.identity, !.row = m.id])
    BY <1>9 DEF RemoveFind
  <2>2. PICK p : p = IF groups[m.group].synced THEN "remove_sync" ELSE "remove_delete"
    OBVIOUS
  <2>3. p \in {"remove_sync", "remove_delete"}
    BY <2>2
  <2>4. /\ job[h].pc = "idle"
        /\ job'[h] = [Idle EXCEPT !.pc = p, !.group = m.group,
                                  !.identity = m.identity, !.row = m.id]
    BY <1>1, <2>1, <2>2
  <2>5. /\ job'[h].pc \notin {"stale_write", "sweep_sync"}
        /\ job'[h].todo = {} /\ job'[h].expired = {}
    BY <2>3, <2>4 DEF Idle
  <2> QED  BY <1>2, <1>3, <2>4, <2>5
<1>10. CASE UpdateGroup(h)
  <2>1. Begin(h, "update", Idle)
    BY <1>10 DEF UpdateGroup
  <2> QED  BY <1>1, <2>1, IdleWork
<1>11. CASE SweepSelect(h)
  <2>1. PICK rows : rows = {m \in memberships : Lapsed(m)}
    OBVIOUS
  <2>2. rows # {} /\ Begin(h, "sweep", [Idle EXCEPT !.pc = "sweep_sync", !.expired = rows])
    BY <1>11, <2>1 DEF SweepSelect
  <2>3. job[h].pc = "idle" /\ job'[h] = [Idle EXCEPT !.pc = "sweep_sync", !.expired = rows]
    BY <1>1, <2>2
  <2>4. job'[h].pc = "sweep_sync" /\ job'[h].todo = {} /\ job'[h].expired = rows
    BY <2>3 DEF Idle
  <2>5. IsFiniteSet(rows)
    BY <1>2, <2>1, FS_Subset
  <2> QED  BY <1>2, <2>2, <2>3, <2>4, <2>5 DEF ListsOK
<1>12. CASE StaleSelect(h)
  <2>1. PICK stale : /\ stale \subseteq DOMAIN requests /\ stale # {}
                     /\ Begin(h, "stale", [Idle EXCEPT !.pc = "stale_write", !.todo = stale])
    BY <1>12 DEF StaleSelect
  <2>2. job[h].pc = "idle" /\ job'[h] = [Idle EXCEPT !.pc = "stale_write", !.todo = stale]
    BY <1>1, <2>1
  <2>3. job'[h].pc = "stale_write" /\ job'[h].todo = stale /\ job'[h].expired = {}
    BY <2>2 DEF Idle
  <2>4. IsFiniteSet(stale)
    BY <1>2, <2>1, FS_Subset
  <2> QED  BY <1>2, <2>1, <2>2, <2>3, <2>4 DEF ListsOK
<1> QED
  BY <1>4, <1>5, <1>6, <1>7, <1>8, <1>9, <1>10, <1>11, <1>12 DEF Call

\* A step adds one membership at most.
LEMMA MembershipsStayFinite ==
  ASSUME IsFiniteSet(memberships), NEW h \in Handlers, Call(h) \/ Continue(h) \/ Crash(h)
  PROVE  IsFiniteSet(memberships')
<1>1. CASE \E row : memberships' = memberships \union {row}
  BY <1>1, FS_AddElement
<1>2. CASE memberships' \subseteq memberships
  BY <1>2, FS_Subset
<1>3. ASSUME NEW x \in memberships, Marked(x)
      PROVE  IsFiniteSet(memberships')
  <2>1. IsFiniteSet(memberships \ {x})
    BY FS_RemoveElement
  <2>2. PICK S, y : S = memberships \ {x} /\ memberships' = S \union {y}
    BY <1>3 DEF Marked
  <2> QED  BY <2>1, <2>2, FS_AddElement
<1>4. CASE RemoveDelete(h) \/ SweepDelete(h)
  BY <1>2, <1>4 DEF RemoveDelete, SweepDelete, DeleteMembership
<1>5. CASE ApproveFinalize(h) \/ AddInsert(h)
  BY <1>1, <1>5 DEF ApproveFinalize, AddInsert, InsertMembership
<1> QED  BY <1>2, <1>3, <1>4, <1>5, MembershipChange

\* The table of memberships is finite at the start.
LEMMA MembershipsBeginFinite ==
  ASSUME Init
  PROVE  IsFiniteSet(memberships)
<1> DEFINE f == [k \in DOMAIN InitMembers |->
                   [id |-> k, group |-> InitMembers[k][1], identity |-> InitMembers[k][2],
                    via |-> 0, expires |-> None, linked |-> FALSE, synced |-> FALSE]]
<1>1. DOMAIN InitMembers = 1..Len(InitMembers) /\ Len(InitMembers) \in Int
  BY ConstantsAssumption, LenProperties
<1>2. IsFiniteSet(DOMAIN InitMembers)
  BY <1>1, FS_Interval
<1>3. f \in Surjection(DOMAIN InitMembers, memberships)
  BY DEF Init, Surjection
<1> QED  BY <1>2, <1>3, FS_Surjection

\* Every step of a handler is progress, and the lists stay finite.
LEMMA WorkStep ==
  ASSUME TypeOK, WorkInv, [Next]_vars
  PROVE  /\ WorkInv'
         /\ \A h \in Handlers :
               (job[h].pc # "idle" /\ job'[h] # job[h]) => Work(job'[h]) < Work(job[h])
<1>1. CASE Tick \/ UNCHANGED vars
  BY <1>1, NoHandler DEF WorkInv, tables
<1>2. ASSUME NEW h \in Handlers, Call(h) \/ Continue(h) \/ Crash(h)
      PROVE  /\ WorkInv'
             /\ \A k \in Handlers :
                   (job[k].pc # "idle" /\ job'[k] # job[k]) => Work(job'[k]) < Work(job[k])
  <2>1. Shrinks(h)
    <3>1. CASE Crash(h)
      BY <3>1, FinishShrinks DEF Crash
    <3> QED  BY <1>2, <3>1, CallShrinks, OneWayShrinks, ListShrinks DEF Continue
  <2>2. \A k \in Handlers \ {h} : job'[k] = job[k]
    BY <1>2, OneMoves DEF OthersWait
  <2>3. IsFiniteSet(memberships')
    BY <1>2, MembershipsStayFinite DEF WorkInv
  <2> QED  BY <2>1, <2>2, <2>3 DEF WorkInv, Shrinks
<1> QED  BY <1>1, <1>2 DEF Next

\* No handler runs for ever: each step of one that has begun, and of a job over a list
\* or a bulk call too, leaves it with less work than before, whatever the others do.
THEOREM HandlersEnd == Spec => WorkShrinks
<1>1. Init => WorkInv
  <2> SUFFICES ASSUME Init
               PROVE  WorkInv
    OBVIOUS
  <2>1. \A h \in Handlers : job[h] = Idle
    BY DEF Init
  <2> QED  BY <2>1, IdleWork, MembershipsBeginFinite DEF WorkInv
<1>2. TypeOK /\ WorkInv /\ [Next]_vars => WorkInv'
  BY WorkStep
<1>3. TypeOK /\ WorkInv /\ [Next]_vars =>
        [\A h \in Handlers :
            (job[h].pc # "idle" /\ job'[h] # job[h]) => Work(job'[h]) < Work(job[h])]_vars
  BY WorkStep
<1> QED  BY <1>1, <1>2, <1>3, TypeCorrect, PTL DEF Spec, WorkShrinks

-----------------------------------------------------------------------------
(***************************************************************************)
(* A vote that is enough is acted on                                       *)
(*                                                                         *)
(* The vote is committed before the votes are counted.  Where one is       *)
(* enough and no process dies, whoever cast it is still there to count it  *)
(* and to decide, whatever the others do to the request meanwhile.         *)
(***************************************************************************)
Deciding(r) ==
    \E h \in Handlers : /\ job[h].pc \in {"approve_count", "approve_finalize"}
                        /\ job[h].row = r

VotesName == \A k \in DOMAIN approvals : approvals[k].request \in DOMAIN requests

VoteInHand ==
    \A k \in DOMAIN approvals :
        LET r == approvals[k].request
        IN  (/\ approvals[k].decision = "approved"
             /\ requests[r].status = "pending"
             /\ groups[requests[r].group].mode = "any")
            => Deciding(r)

\* A request that is there keeps its group and is not made pending again.
LEMMA NeverReopened ==
  ASSUME IInv, NEW h \in Handlers, Call(h) \/ Continue(h) \/ Crash(h),
         NEW r \in DOMAIN requests
  PROVE  /\ r \in DOMAIN requests'
         /\ requests'[r].group = requests[r].group
         /\ requests'[r].status = "pending" => requests[r].status = "pending"
<1>1. CASE ~CreateInsert(h)
  BY <1>1, OnlyInsertPends DEF NoNewPending
<1>2. CASE CreateInsert(h)
  <2>1. PICK q : requests' = Append(requests, q)
    BY <1>2 DEF CreateInsert
  <2>2. requests \in Seq(RequestRow) /\ requests' \in Seq(RequestRow)
    BY <1>2, NextIInv DEF IInv, TypeOK, Next
  <2>3. r \in DOMAIN requests' /\ requests'[r] = requests[r]
    <3>1. /\ Len(requests) \in Nat /\ Len(requests') = Len(requests) + 1
          /\ r \in 1..Len(requests) /\ DOMAIN requests' = 1..Len(requests')
      BY <2>1, <2>2, LenProperties
    <3> QED  BY <2>1, <2>2, <3>1, AppendProperties
  <2> QED  BY <2>3
<1> QED  BY <1>1, <1>2

\* Only approve_request and deny_request add a vote, whoever else is at work.
LEMMA OnlyVotersRecord ==
  ASSUME NEW h \in Handlers, Call(h) \/ Continue(h) \/ Crash(h),
         ~ApproveRecord(h), ~DenyWrite(h)
  PROVE  UNCHANGED approvals
<1>1. CASE Call(h) \/ Crash(h)
  BY <1>1 DEF Call, CreateCheckMember, ApproveRead, DenyRead, CancelRead, AddCheck,
     RemoveFind, UpdateGroup, SweepSelect, StaleSelect, Crash, tables
<1>2. CASE Continue(h)
  <2>1. CASE \/ CreateCheckPending(h) \/ CreateInsert(h) \/ ApproveNext(h)
             \/ ApproveAuthorize(h) \/ ApproveCount(h) \/ ApproveFinalize(h)
             \/ ApproveSync(h) \/ DenyAuthorize(h) \/ CancelWrite(h)
    BY <2>1 DEF CreateCheckPending, CreateInsert, ApproveNext, ApproveAuthorize,
       ApproveCount, ApproveFinalize, ApproveSync, DenyAuthorize, CancelWrite, tables
  <2>2. CASE \/ AddInsert(h) \/ AddSync(h) \/ RemoveSync(h) \/ RemoveDelete(h)
             \/ SweepSync(h) \/ SweepDelete(h) \/ StaleWrite(h)
    BY <2>2 DEF AddInsert, AddSync, RemoveSync, RemoveDelete, SweepSync, SweepDelete,
       StaleWrite
  <2> QED  BY <1>2, <2>1, <2>2 DEF Continue
<1> QED  BY <1>1, <1>2

\* A vote is one that was there before, or the one the handler that moves records on
\* the request in its hands.
LEMMA WhoseVote ==
  ASSUME IInv, NEW h \in Handlers, Call(h) \/ Continue(h) \/ Crash(h),
         NEW k \in DOMAIN approvals'
  PROVE  \/ k \in DOMAIN approvals /\ approvals'[k] = approvals[k]
         \/ /\ ApproveRecord(h) \/ DenyWrite(h)
            /\ approvals'[k].request = job[h].row /\ job[h].row \in DOMAIN requests
            /\ DenyWrite(h) => approvals'[k].decision = "denied"
<1>1. CASE ApproveRecord(h) \/ DenyWrite(h)
  <2>1. job[h].row \in DOMAIN requests
    BY <1>1 DEF ApproveRecord, DenyWrite, Step, At, IInv, LocalsOK, LocalOK, OnRequest
  <2>2. PICK v : /\ v.request = job[h].row /\ (DenyWrite(h) => v.decision = "denied")
                 /\ approvals' = Append(approvals, v)
    BY <1>1 DEF ApproveRecord, DenyWrite, Step, At
  <2>3. approvals \in Seq(ApprovalRow) /\ approvals' \in Seq(ApprovalRow)
    BY NextIInv DEF IInv, TypeOK, Next
  <2>4. /\ DOMAIN approvals' = 1..(Len(approvals) + 1)
        /\ DOMAIN approvals = 1..Len(approvals) /\ Len(approvals) \in Nat
        /\ approvals'[Len(approvals) + 1] = v
        /\ \A l \in DOMAIN approvals : approvals'[l] = approvals[l]
    BY <2>2, <2>3, LenProperties, AppendProperties
  <2>5. k \in DOMAIN approvals \/ k = Len(approvals) + 1
    BY <2>4
  <2> QED  BY <1>1, <2>1, <2>2, <2>4, <2>5
<1>2. CASE ~ApproveRecord(h) /\ ~DenyWrite(h)
  BY <1>2, OnlyVotersRecord
<1> QED  BY <1>1, <1>2

\* Every vote is on a request there is.
LEMMA VotesNameStep ==
  ASSUME IInv, VotesName, NEW h \in Handlers, Call(h) \/ Continue(h) \/ Crash(h)
  PROVE  VotesName'
<1> SUFFICES ASSUME NEW k \in DOMAIN approvals'
             PROVE  approvals'[k].request \in DOMAIN requests'
  BY DEF VotesName
<1>1. approvals'[k].request \in DOMAIN requests
  BY WhoseVote DEF VotesName
<1> QED  BY <1>1, NeverReopened

\* Where one approval is enough, there is enough of them once there is one.
LEMMA OneIsEnough ==
  ASSUME IInv, NEW k \in DOMAIN approvals, approvals[k].decision = "approved",
         NEW r, r = approvals[k].request, groups[requests[r].group].mode = "any"
  PROVE  check_approval_complete(r)
<1>1. IsFiniteSet(DOMAIN approvals)
  <2>1. approvals \in Seq(ApprovalRow)
    BY DEF IInv, TypeOK
  <2>2. DOMAIN approvals = 1..Len(approvals) /\ Len(approvals) \in Int
    BY <2>1, LenProperties
  <2> QED  BY <2>2, FS_Interval
<1>2. IsFiniteSet(ApprovalsOf(r))
  BY <1>1, FS_Subset DEF ApprovalsOf
<1>3. k \in ApprovalsOf(r)
  BY DEF ApprovalsOf
<1>4. Cardinality(ApprovalsOf(r)) \in Nat /\ Cardinality(ApprovalsOf(r)) # 0
  BY <1>2, <1>3, FS_CardinalityType, FS_EmptySet
<1>5. Cardinality(ApprovalsOf(r)) >= 1
  BY <1>4
<1> QED  BY <1>5 DEF check_approval_complete

\* The handler that has the request in its hands goes on to decide it.
LEMMA DecidingStep ==
  ASSUME IInv, ~Crashes, NEW h \in Handlers, Call(h) \/ Continue(h) \/ Crash(h),
         NEW r \in DOMAIN requests, Deciding(r),
         check_approval_complete(r), requests'[r].status = "pending"
  PROVE  Deciding(r)'
<1>1. PICK w \in Handlers : /\ job[w].pc \in {"approve_count", "approve_finalize"}
                            /\ job[w].row = r
  BY DEF Deciding
<1>2. CASE w # h
  <2>1. job'[w] = job[w]
    BY <1>2, OneMoves DEF OthersWait, IInv
  <2> QED  BY <1>1, <2>1 DEF Deciding
<1>3. CASE w = h
  <2>1. ~Crash(h)
    BY DEF Crash
  <2>2. ~Call(h)
    BY <1>1, <1>3 DEF Call, CreateCheckMember, ApproveRead, DenyRead, CancelRead, AddCheck,
       RemoveFind, UpdateGroup, SweepSelect, StaleSelect, Begin, At
  <2>3. ApproveCount(h) \/ ApproveFinalize(h)
    BY <1>1, <1>3, <2>1, <2>2 DEF Continue, CreateCheckPending, CreateInsert, ApproveNext,
       ApproveAuthorize, ApproveRecord, ApproveSync, DenyAuthorize, DenyWrite, CancelWrite,
       AddInsert, AddSync, RemoveSync, RemoveDelete, SweepSync, SweepDelete, StaleWrite,
       Step, At
  <2>4. ~ApproveFinalize(h)
    BY <1>1, <1>3, FinalizeDecides
  <2>5. Goto(h, "approve_finalize")
    BY <1>1, <1>3, <2>3, <2>4 DEF ApproveCount
  <2>6. job'[h].pc = "approve_finalize" /\ job'[h].row = r
    BY <1>1, <1>3, <2>5 DEF Goto, IInv, TypeOK, Job
  <2> QED  BY <2>6 DEF Deciding
<1> QED  BY <1>2, <1>3

\* A step keeps the votes in hand.
LEMMA VoteInHandStep ==
  ASSUME IInv, VotesName, VoteInHand, ~Crashes, "update" \notin Ops,
         NEW h \in Handlers, Call(h) \/ Continue(h) \/ Crash(h)
  PROVE  VoteInHand'
<1> SUFFICES ASSUME NEW k \in DOMAIN approvals', NEW r, r = approvals'[k].request,
                    approvals'[k].decision = "approved",
                    requests'[r].status = "pending",
                    groups'[requests'[r].group].mode = "any"
             PROVE  Deciding(r)'
  BY DEF VoteInHand
<1>1. UNCHANGED groups
  <2>1. ~UpdateGroup(h)
    BY DEF UpdateGroup, Begin
  <2>2. CASE Call(h) \/ Crash(h)
    BY <2>1, <2>2 DEF Call, CreateCheckMember, ApproveRead, DenyRead, CancelRead, AddCheck,
       RemoveFind, SweepSelect, StaleSelect, Crash, tables
  <2>3. CASE \/ CreateCheckPending(h) \/ CreateInsert(h) \/ ApproveNext(h)
             \/ ApproveAuthorize(h) \/ ApproveRecord(h) \/ ApproveCount(h)
             \/ ApproveFinalize(h) \/ ApproveSync(h)
             \/ DenyAuthorize(h) \/ DenyWrite(h) \/ CancelWrite(h)
    BY <2>3 DEF CreateCheckPending, CreateInsert, ApproveNext, ApproveAuthorize,
       ApproveRecord, ApproveCount, ApproveFinalize, ApproveSync, DenyAuthorize, DenyWrite,
       CancelWrite, tables
  <2>4. CASE \/ AddInsert(h) \/ AddSync(h) \/ RemoveSync(h) \/ RemoveDelete(h)
             \/ SweepSync(h) \/ SweepDelete(h) \/ StaleWrite(h)
    BY <2>4 DEF AddInsert, AddSync, RemoveSync, RemoveDelete, SweepSync, SweepDelete,
       StaleWrite
  <2> QED  BY <2>2, <2>3, <2>4 DEF Continue
<1>2. CASE k \in DOMAIN approvals /\ approvals'[k] = approvals[k]
  <2>1. r \in DOMAIN requests
    BY <1>2 DEF VotesName
  <2>2. requests[r].status = "pending" /\ groups[requests[r].group].mode = "any"
    BY <1>1, <2>1, NeverReopened
  <2>3. Deciding(r) /\ check_approval_complete(r)
    BY <1>2, <2>1, <2>2, OneIsEnough DEF VoteInHand
  <2> QED  BY <2>1, <2>3, DecidingStep
<1>3. CASE ApproveRecord(h) /\ r = job[h].row
  <2>1. job'[h].pc = "approve_count" /\ job'[h].row = job[h].row
    BY <1>3 DEF ApproveRecord, Goto, IInv, TypeOK, Job
  <2> QED  BY <1>3, <2>1 DEF Deciding
<1> QED  BY <1>2, <1>3, WhoseVote

\* Where one approval is enough, no process dies and the modes stay as they are, a
\* request that was approved by somebody and is pending is in the hands of a handler
\* about to decide it: no vote is left behind uncounted.
THEOREM VotesInHand ==
  ASSUME ~Crashes, "update" \notin Ops
  PROVE  Spec => []VoteInHand
<1>1. Init => VotesName /\ VoteInHand
  BY DEF Init, VotesName, VoteInHand
<1>2. IInv /\ VotesName /\ VoteInHand /\ [Next]_vars => VotesName' /\ VoteInHand'
  <2> SUFFICES ASSUME IInv, VotesName, VoteInHand, [Next]_vars
               PROVE  VotesName' /\ VoteInHand'
    OBVIOUS
  <2>1. CASE Tick \/ UNCHANGED vars
    BY <2>1, NoHandler DEF VotesName, VoteInHand, Deciding, tables
  <2>2. CASE \E h \in Handlers : Call(h) \/ Continue(h) \/ Crash(h)
    BY <2>2, VotesNameStep, VoteInHandStep
  <2> QED  BY <2>1, <2>2 DEF Next
<1> QED  BY <1>1, <1>2, Invariance, PTL DEF Spec

-----------------------------------------------------------------------------
(***************************************************************************)
(* Memberships from administrators, counted like the requests: add_member  *)
(* checks that nobody is a member yet and inserts later.                   *)
(***************************************************************************)
DirectOf(g, i) == {m \in memberships : m.via = 0 /\ m.group = g /\ m.identity = i}

Adding(g, i) ==
    {h \in Handlers : /\ job[h].pc = "add_insert"
                      /\ job[h].group = g /\ job[h].identity = i}

DirectLoad ==
    \A g \in Groups, i \in Identities :
        /\ IsFiniteSet(DirectOf(g, i))
        /\ Cardinality(DirectOf(g, i)) + Cardinality(Adding(g, i)) <= Cardinality(Handlers)

\* The memberships of a person in a group that administrators have given, as far
\* as they are still there, are no more than the handlers.
DirectPerHandler ==
    \A g \in Groups, i \in Identities :
        Cardinality({m \in memberships :
            m.via = 0 /\ m.group = g /\ m.identity = i}) <= Cardinality(Handlers)

\* Only a passed check leads to the insert of a membership.
LEMMA OnlyCheckLeadsToAdd ==
  ASSUME TypeOK, NEW h \in Handlers, Call(h) \/ Continue(h) \/ Crash(h),
         job'[h].pc = "add_insert"
  PROVE  UNCHANGED memberships /\ ~IsMember(job'[h].group, job'[h].identity)
<1>1. job[h] \in Job /\ job \in [Handlers -> Job]
  BY DEF TypeOK
<1>2. ASSUME NEW p \in Places, Goto(h, p)
      PROVE  job'[h].pc = p
  <2>1. job'[h] = [job[h] EXCEPT !.pc = p]
    BY <1>2, GotoEffect
  <2> QED  BY <1>1, <2>1 DEF Job
<1>3. ~Finish(h)
  BY FinishEffect DEF Idle
<1>4. ~CreateCheckMember(h)
  BY <1>1 DEF CreateCheckMember, Begin, Idle
<1>5. /\ ~ApproveAuthorize(h) /\ ~ApproveCount(h) /\ ~DenyAuthorize(h)
      /\ ~CreateCheckPending(h)
  <2> DEFINE Ends == {"approve_record", "approve_next", "approve_finalize", "deny_write",
                      "create_insert"}
  <2>1. Ends \subseteq Places
    BY DEF Places
  <2>2. \A p \in Ends : ~Goto(h, p)
    BY <1>2, <2>1
  <2> QED  BY <1>3, <2>2 DEF ApproveAuthorize, ApproveCount, DenyAuthorize, CreateCheckPending
<1>6. AddCheck(h)
  BY <1>4, <1>5, Elsewhere DEF Promised
<1>7. PICK g \in Groups, i \in Identities, e \in Expiries, linked \in BOOLEAN :
        /\ ~IsMember(g, i)
        /\ Begin(h, "add", [Idle EXCEPT !.pc = "add_insert", !.group = g,
                              !.identity = i, !.expires = e, !.linked = linked])
  BY <1>6 DEF AddCheck
<1>8. job'[h].group = g /\ job'[h].identity = i
  BY <1>1, <1>7 DEF Begin, Idle
<1>9. UNCHANGED memberships
  BY <1>6 DEF AddCheck, tables
<1> QED  BY <1>7, <1>8, <1>9

\* Other steps than the insert give a person no further membership from an
\* administrator.
LEMMA NoNewDirect ==
  ASSUME TypeOK, NEW h \in Handlers, Call(h) \/ Continue(h) \/ Crash(h), NEW g, NEW i,
         IsFiniteSet(DirectOf(g, i)),
         ~(AddInsert(h) /\ job[h].group = g /\ job[h].identity = i),
         ApproveFinalize(h) => job[h].row # 0
  PROVE  /\ IsFiniteSet(DirectOf(g, i)')
         /\ Cardinality(DirectOf(g, i)') <= Cardinality(DirectOf(g, i))
<1>1. ASSUME DirectOf(g, i)' \subseteq DirectOf(g, i)
      PROVE  /\ IsFiniteSet(DirectOf(g, i)')
             /\ Cardinality(DirectOf(g, i)') <= Cardinality(DirectOf(g, i))
  BY <1>1, FS_Subset
<1>2. CASE memberships' \subseteq memberships
  BY <1>1, <1>2 DEF DirectOf
<1>3. CASE RemoveDelete(h) \/ SweepDelete(h)
  <2>1. memberships' \subseteq memberships
    BY <1>3 DEF RemoveDelete, SweepDelete, DeleteMembership
  <2> QED  BY <1>2, <2>1
<1>4. CASE AddInsert(h)
  <2>1. PICK row : /\ row.group = job[h].group /\ row.identity = job[h].identity
                   /\ memberships' = memberships \union {row}
    BY <1>4 DEF AddInsert, InsertMembership
  <2>2. ~(row.group = g /\ row.identity = i)
    BY <1>4, <2>1
  <2>3. DirectOf(g, i)' \subseteq DirectOf(g, i)
    BY <2>1, <2>2 DEF DirectOf
  <2> QED  BY <1>1, <2>3
<1>5. CASE ApproveFinalize(h)
  <2>1. PICK row : row.via = job[h].row /\ memberships' = memberships \union {row}
    BY <1>5 DEF ApproveFinalize, InsertMembership
  <2>2. row.via # 0
    BY <1>5, <2>1
  <2>3. DirectOf(g, i)' \subseteq DirectOf(g, i)
    BY <2>1, <2>2 DEF DirectOf
  <2> QED  BY <1>1, <2>3
<1>6. ASSUME NEW x \in memberships, Marked(x)
      PROVE  /\ IsFiniteSet(DirectOf(g, i)')
             /\ Cardinality(DirectOf(g, i)') <= Cardinality(DirectOf(g, i))
  <2> DEFINE y == [x EXCEPT !.synced = TRUE]
  <2>1. y.via = x.via /\ y.group = x.group /\ y.identity = x.identity
    BY DEF TypeOK, MembershipRow
  <2>2. memberships' = (memberships \ {x}) \union {y}
    BY <1>6 DEF Marked
  <2> HIDE DEF y
  <2>3. CASE x \in DirectOf(g, i)
    <3>1. DirectOf(g, i)' = (DirectOf(g, i) \ {x}) \union {y}
      BY <2>1, <2>2, <2>3 DEF DirectOf
    <3>2. /\ IsFiniteSet(DirectOf(g, i) \ {x})
          /\ Cardinality(DirectOf(g, i) \ {x}) = Cardinality(DirectOf(g, i)) - 1
          /\ Cardinality(DirectOf(g, i)) \in Nat
      BY <2>3, FS_RemoveElement, FS_CardinalityType
    <3>3. /\ IsFiniteSet((DirectOf(g, i) \ {x}) \union {y})
          /\ Cardinality((DirectOf(g, i) \ {x}) \union {y})
                \in {Cardinality(DirectOf(g, i) \ {x}), Cardinality(DirectOf(g, i) \ {x}) + 1}
      BY <3>2, FS_AddElement
    <3> QED  BY <3>1, <3>2, <3>3
  <2>4. CASE x \notin DirectOf(g, i)
    <3>1. DirectOf(g, i)' \subseteq DirectOf(g, i)
      BY <2>1, <2>2, <2>4 DEF DirectOf
    <3> QED  BY <1>1, <3>1
  <2> QED  BY <2>3, <2>4
<1> QED  BY <1>2, <1>3, <1>4, <1>5, <1>6, MembershipChange

\* A step keeps the memberships from administrators, and the inserts on their way,
\* within the number of handlers.
LEMMA DirectLoadStep ==
  ASSUME IsFiniteSet(Handlers), IInv, DirectLoad, [Next]_vars
  PROVE  DirectLoad'
<1> SUFFICES ASSUME NEW g \in Groups, NEW i \in Identities
             PROVE  /\ IsFiniteSet(DirectOf(g, i)')
                    /\ Cardinality(DirectOf(g, i)') + Cardinality(Adding(g, i)')
                          <= Cardinality(Handlers)
  BY DEF DirectLoad
<1>1. /\ TypeOK /\ Cardinality(Handlers) \in Nat /\ IsFiniteSet(DirectOf(g, i))
      /\ Cardinality(DirectOf(g, i)) + Cardinality(Adding(g, i)) <= Cardinality(Handlers)
  BY FS_CardinalityType DEF IInv, DirectLoad
<1>2. IsFiniteSet(Adding(g, i))
  BY FS_Subset DEF Adding
<1>3. CASE Tick \/ UNCHANGED vars
  <2>1. UNCHANGED <<memberships, job>>
    BY <1>3, NoHandler DEF tables
  <2>2. DirectOf(g, i)' = DirectOf(g, i) /\ Adding(g, i)' = Adding(g, i)
    BY <2>1 DEF DirectOf, Adding
  <2> QED  BY <1>1, <2>2
<1>4. ASSUME NEW h \in Handlers, Call(h) \/ Continue(h) \/ Crash(h)
      PROVE  /\ IsFiniteSet(DirectOf(g, i)')
             /\ Cardinality(DirectOf(g, i)') + Cardinality(Adding(g, i)')
                   <= Cardinality(Handlers)
  <2>1. Adding(g, i)' \subseteq Adding(g, i) \union {h}
    BY <1>1, <1>4, OneMoves DEF OthersWait, Adding
  <2>2. CASE AddInsert(h) /\ job[h].group = g /\ job[h].identity = i
    <3>1. h \in Adding(g, i)
      BY <2>2 DEF AddInsert, Step, At, Adding
    <3>2. job'[h].pc # "add_insert"
      <4>1. CASE Finish(h)
        BY <1>1, <4>1, FinishEffect DEF Idle
      <4>2. CASE Goto(h, "add_sync")
        <5>1. job'[h] = [job[h] EXCEPT !.pc = "add_sync"]
          BY <1>1, <4>2, GotoEffect DEF Places
        <5> QED  BY <1>1, <5>1 DEF TypeOK, Job
      <4> QED  BY <2>2, <4>1, <4>2 DEF AddInsert
    <3>3. PICK row : memberships' = memberships \union {row}
      BY <2>2 DEF AddInsert, InsertMembership
    <3>4. PICK A, B : A = DirectOf(g, i) \union {row} /\ B = Adding(g, i) \ {h}
      OBVIOUS
    <3>5. DirectOf(g, i)' \subseteq A
      BY <3>3, <3>4 DEF DirectOf
    <3>6. h \notin Adding(g, i)'
      BY <3>2 DEF Adding
    <3>7. Adding(g, i)' \subseteq B
      BY <2>1, <3>4, <3>6
    <3>8. /\ IsFiniteSet(A) /\ IsFiniteSet(B)
          /\ Cardinality(A) + Cardinality(B) <= Cardinality(Handlers)
      BY <1>1, <1>2, <3>1, <3>4, CountsMove, FS_RemoveElement
    <3> QED  BY <1>1, <3>5, <3>7, <3>8, CountsShrink
  <2>3. CASE ~(AddInsert(h) /\ job[h].group = g /\ job[h].identity = i)
    <3>1. ApproveFinalize(h) => job[h].row # 0
      <4> SUFFICES ASSUME ApproveFinalize(h) PROVE job[h].row # 0
        OBVIOUS
      <4>1. PICK r : r = job[h].row /\ r \in DOMAIN requests
        BY FinalizeDecides
      <4>2. r \in 1..Len(requests)
        BY <4>1, RequestType DEF IInv
      <4> QED  BY <4>1, <4>2
    <3>2. /\ IsFiniteSet(DirectOf(g, i)')
          /\ Cardinality(DirectOf(g, i)') <= Cardinality(DirectOf(g, i))
      BY <1>1, <1>4, <2>3, <3>1, NoNewDirect
    <3>3. CASE Adding(g, i)' \subseteq Adding(g, i)
      <4>1. IsFiniteSet(Adding(g, i)') /\ Cardinality(Adding(g, i)') <= Cardinality(Adding(g, i))
        BY <1>2, <3>3, FS_Subset
      <4>2. /\ Cardinality(DirectOf(g, i)) \in Nat /\ Cardinality(DirectOf(g, i)') \in Nat
            /\ Cardinality(Adding(g, i)) \in Nat /\ Cardinality(Adding(g, i)') \in Nat
        BY <1>1, <1>2, <3>2, <4>1, FS_CardinalityType
      <4> QED  BY <1>1, <3>2, <4>1, <4>2
    <3>4. CASE ~(Adding(g, i)' \subseteq Adding(g, i))
      <4>1. h \in Adding(g, i)'
        BY <2>1, <3>4
      <4>2. job'[h].pc = "add_insert" /\ job'[h].group = g /\ job'[h].identity = i
        BY <4>1 DEF Adding
      <4>3. UNCHANGED memberships /\ ~IsMember(g, i)
        BY <1>1, <1>4, <4>2, OnlyCheckLeadsToAdd
      <4>4. DirectOf(g, i)' = {}
        BY <4>3 DEF IsMember, DirectOf
      <4>5. Adding(g, i)' \subseteq Handlers
        BY DEF Adding
      <4> QED  BY <3>2, <4>4, <4>5, NothingAndSome
    <3> QED  BY <3>3, <3>4
  <2> QED  BY <2>2, <2>3
<1> QED  BY <1>3, <1>4 DEF Next

\* For any number of handlers, a person who was a member once at most to begin with
\* has no more memberships of a group from administrators than there are handlers:
\* add_member checks while there is none, and each handler inserts at most one
\* row for a check.
THEOREM DirectPerHandlerTheorem ==
  ASSUME IsFiniteSet(Handlers), Handlers # {}, DistinctMembers
  PROVE  Spec => []DirectPerHandler
<1>1. Init => DirectLoad
  <2> SUFFICES ASSUME Init, NEW g \in Groups, NEW i \in Identities
               PROVE  /\ IsFiniteSet(DirectOf(g, i))
                      /\ Cardinality(DirectOf(g, i)) + Cardinality(Adding(g, i))
                            <= Cardinality(Handlers)
    BY DEF DirectLoad
  <2>1. \A m \in memberships : \E k \in DOMAIN InitMembers :
           m = [id |-> k, group |-> InitMembers[k][1], identity |-> InitMembers[k][2],
                via |-> 0, expires |-> None, linked |-> FALSE, synced |-> FALSE]
    BY DEF Init
  <2>2. \A m, n \in DirectOf(g, i) : m = n
    <3> SUFFICES ASSUME NEW m \in DirectOf(g, i), NEW n \in DirectOf(g, i) PROVE m = n
      OBVIOUS
    <3>1. PICK j \in DOMAIN InitMembers :
             m = [id |-> j, group |-> InitMembers[j][1], identity |-> InitMembers[j][2],
                  via |-> 0, expires |-> None, linked |-> FALSE, synced |-> FALSE]
      BY <2>1 DEF DirectOf
    <3>2. PICK k \in DOMAIN InitMembers :
             n = [id |-> k, group |-> InitMembers[k][1], identity |-> InitMembers[k][2],
                  via |-> 0, expires |-> None, linked |-> FALSE, synced |-> FALSE]
      BY <2>1 DEF DirectOf
    <3>3. InitMembers[j][1] = InitMembers[k][1] /\ InitMembers[j][2] = InitMembers[k][2]
      BY <3>1, <3>2 DEF DirectOf
    <3> QED  BY <3>1, <3>2, <3>3 DEF DistinctMembers
  <2>3. Adding(g, i) = {}
    BY DEF Init, Idle, Adding
  <2>4. Cardinality(Handlers) \in Nat /\ Cardinality(Handlers) # 0
    BY FS_CardinalityType, FS_EmptySet
  <2>5. DirectOf(g, i) = {} \/ \E m : DirectOf(g, i) = {m}
    BY <2>2
  <2>6. IsFiniteSet(DirectOf(g, i)) /\ Cardinality(DirectOf(g, i)) \in {0, 1}
    BY <2>5, FS_EmptySet, FS_Singleton
  <2>7. Cardinality(Adding(g, i)) = 0
    BY <2>3, FS_EmptySet
  <2> QED  BY <2>4, <2>6, <2>7
<1>2. IInv /\ DirectLoad /\ [Next]_vars => DirectLoad'
  BY DirectLoadStep
<1>3. DirectLoad => DirectPerHandler
  <2> SUFFICES ASSUME DirectLoad, NEW g \in Groups, NEW i \in Identities
               PROVE  Cardinality(DirectOf(g, i)) <= Cardinality(Handlers)
    BY DEF DirectPerHandler, DirectOf
  <2>1. /\ IsFiniteSet(DirectOf(g, i)) /\ IsFiniteSet(Adding(g, i))
        /\ Cardinality(DirectOf(g, i)) + Cardinality(Adding(g, i)) <= Cardinality(Handlers)
    BY FS_Subset DEF DirectLoad, Adding
  <2>2. /\ Cardinality(DirectOf(g, i)) \in Nat /\ Cardinality(Adding(g, i)) \in Nat
        /\ Cardinality(Handlers) \in Nat
    BY <2>1, FS_CardinalityType
  <2> QED  BY <2>1, <2>2
<1> QED  BY <1>1, <1>2, <1>3, Invariance, PTL DEF Spec
=============================================================================
