----------------------- MODULE WebhookDeliveryProofs -----------------------
(***************************************************************************)
(* Theorems about WebhookDelivery, for every value of its constants, and   *)
(* that it implements DeliveryPromise.                                     *)
(*                                                                         *)
(* A worker writes an outcome on the strength of an answer it got earlier; *)
(* LocalOK says what its locals promise at each place: the row it works on *)
(* was inserted, an answer "ok" means that the receiver has accepted, and  *)
(* posted is set exactly while a request waits to be recorded.             *)
(***************************************************************************)
EXTENDS WebhookDelivery, FiniteSetTheorems, SequenceTheorems, TLAPS

\* What worker h can rely on at the place it has reached.
LocalOK(h) ==
    /\ job[h].pc \in {"deliver_read", "deliver_insert"} => job[h].hook \in Hooks
    /\ job[h].pc = "deliver_insert" => job[h].event \in Events
    /\ job[h].pc \in {"post", "record"} => job[h].delivery \in DOMAIN deliveries
    /\ job[h].pc = "record" =>
          job[h].posted /\ (job[h].answer = "ok" => job[h].delivery \in accepted)
    /\ job[h].pc \notin {"record", "dead"} => ~job[h].posted
    /\ job[h].posted => job[h].delivery \in DOMAIN deliveries

LocalsOK == \A h \in Handlers : LocalOK(h)

\* Success is written of accepted deliveries only, and the ids suffice.
Backed ==
    /\ Len(deliveries) <= MaxDeliveries
    /\ \A d \in DOMAIN deliveries : deliveries[d].success = TRUE => d \in accepted

IInv == TypeOK /\ LocalsOK /\ Backed /\ NoOrphans

OthersWait(h) == \A k \in Handlers \ {h} : job'[k] = job[k]

\* No delivery and no acceptance is lost.
Grows == DOMAIN deliveries \subseteq DOMAIN deliveries' /\ accepted \subseteq accepted'

-----------------------------------------------------------------------------
(***************************************************************************)
(* Worker bookkeeping                                                      *)
(***************************************************************************)
\* An idle worker has the type of a worker.
LEMMA IdleType == Idle \in Job
  BY DEF Idle, Job, Places

\* Moving on changes where one worker stands and nothing else of it.
LEMMA GotoEffect ==
  ASSUME TypeOK, NEW h \in Handlers, NEW p \in Places, Goto(h, p)
  PROVE  /\ job' \in [Handlers -> Job]
         /\ job'[h] = [job[h] EXCEPT !.pc = p]
         /\ OthersWait(h)
  BY DEF TypeOK, Goto, Job, OthersWait

\* A worker that finishes is idle, and the others stay where they are.
LEMMA FinishEffect ==
  ASSUME TypeOK, NEW h \in Handlers, Finish(h)
  PROVE  /\ job' \in [Handlers -> Job]
         /\ job'[h] = Idle
         /\ OthersWait(h)
  BY IdleType DEF TypeOK, Finish, OthersWait

\* An operation that begins gives its worker the locals it starts with.
LEMMA BeginEffect ==
  ASSUME TypeOK, NEW h \in Handlers, NEW j \in Job, Begin(h, j)
  PROVE  /\ job' \in [Handlers -> Job]
         /\ job'[h] = j
         /\ OthersWait(h)
         /\ calls' \in Nat
  BY DEF TypeOK, Begin, OthersWait

\* What the type of the table says of its rows.
LEMMA RowTypes ==
  ASSUME TypeOK
  PROVE  \A d \in DOMAIN deliveries :
            deliveries[d] \in DeliveryRow /\ deliveries[d].hook \in Hooks
<1>1. \A d \in DOMAIN deliveries : deliveries[d] \in DeliveryRow
  BY DEF TypeOK
<1> QED
  BY <1>1 DEF DeliveryRow

\* Nothing is promised of an idle worker.
LEMMA IdleLocalOK ==
  ASSUME NEW h \in Handlers, job'[h] = Idle
  PROVE  LocalOK(h)'
  BY DEF LocalOK, Idle

\* What a worker relies on survives the steps of others.
LEMMA StillOK ==
  ASSUME Grows, NEW k \in Handlers, LocalOK(k), job'[k] = job[k]
  PROVE  LocalOK(k)'
  BY DEF Grows, LocalOK

\* After a step of one worker only its own locals have to be looked at.
LEMMA LocalsFromOne ==
  ASSUME LocalsOK, Grows, NEW h \in Handlers, OthersWait(h), LocalOK(h)'
  PROVE  LocalsOK'
  BY StillOK DEF LocalsOK, OthersWait

\* What is left to show of a step that leaves hooks and deliveries alone.
LEMMA RowsAlone ==
  ASSUME IInv, NEW h \in Handlers, UNCHANGED <<hooks, deliveries, sent, accepted>>,
         OthersWait(h), job' \in [Handlers -> Job], calls' \in Nat, LocalOK(h)'
  PROVE  IInv'
<1>1. TypeOK'
  BY DEF IInv, TypeOK
<1>2. Grows
  BY DEF Grows
<1>3. LocalsOK'
  BY <1>2, LocalsFromOne DEF IInv
<1>4. Backed' /\ NoOrphans'
  BY DEF IInv, Backed, NoOrphans, Kept, Live
<1> QED
  BY <1>1, <1>3, <1>4 DEF IInv

-----------------------------------------------------------------------------
(***************************************************************************)
(* The operations on webhooks                                              *)
(***************************************************************************)
\* A new webhook takes nothing from the rows there are.
LEMMA CreateHookStep ==
  ASSUME IInv, NEW h \in Handlers, CreateHook(h)
  PROVE  IInv'
<1>1. PICK w \in Hooks, es \in EventSets \ {{}} :
         /\ hooks[w].state = "unused"
         /\ Begin(h, Idle)
         /\ hooks' = [hooks EXCEPT ![w] = [state |-> "live", enabled |-> TRUE,
                                           events |-> es]]
         /\ UNCHANGED <<deliveries, sent, accepted>>
  BY DEF CreateHook
<1>2. /\ job' \in [Handlers -> Job] /\ job'[h] = Idle
      /\ OthersWait(h) /\ calls' \in Nat
  BY <1>1, IdleType, BeginEffect DEF IInv
<1>3. hooks' \in [Hooks -> HookRow]
  BY <1>1, ConstantsAssumption DEF IInv, TypeOK, HookRow, HookStates
<1>4. TypeOK'
  BY <1>1, <1>2, <1>3 DEF IInv, TypeOK
<1>5. LocalsOK'
  BY <1>1, <1>2, IdleLocalOK, LocalsFromOne DEF IInv, Grows
<1>6. \A x \in Hooks : Live(x) => hooks'[x].state = "live"
  BY <1>1 DEF IInv, TypeOK, Live
<1>7. \A d \in DOMAIN deliveries : deliveries[d].hook \in Hooks
  BY RowTypes DEF IInv
<1>8. Backed' /\ NoOrphans'
  BY <1>1, <1>6, <1>7 DEF IInv, Backed, NoOrphans, Kept, Live
<1> QED
  BY <1>4, <1>5, <1>8 DEF IInv

\* An update changes neither the state of a webhook nor a row.
LEMMA UpdateHookStep ==
  ASSUME IInv, NEW h \in Handlers, UpdateHook(h)
  PROVE  IInv'
<1>1. PICK w \in Hooks, on \in BOOLEAN, es \in EventSets :
         /\ Live(w)
         /\ Begin(h, Idle)
         /\ hooks' = [hooks EXCEPT ![w].enabled = on, ![w].events = es]
         /\ UNCHANGED <<deliveries, sent, accepted>>
  BY DEF UpdateHook
<1>2. /\ job' \in [Handlers -> Job] /\ job'[h] = Idle
      /\ OthersWait(h) /\ calls' \in Nat
  BY <1>1, IdleType, BeginEffect DEF IInv
<1>3. es \in SUBSET Events
  BY <1>1, ConstantsAssumption
<1>4. \A x \in Hooks : /\ hooks'[x] \in HookRow
                       /\ hooks'[x].state = hooks[x].state
  BY <1>1, <1>3 DEF IInv, TypeOK, HookRow
<1>5. hooks' \in [Hooks -> HookRow]
  BY <1>1, <1>4 DEF IInv, TypeOK
<1>6. TypeOK'
  BY <1>1, <1>2, <1>5 DEF IInv, TypeOK
<1>7. LocalsOK'
  BY <1>1, <1>2, IdleLocalOK, LocalsFromOne DEF IInv, Grows
<1>8. \A d \in DOMAIN deliveries : deliveries[d].hook \in Hooks
  BY RowTypes DEF IInv
<1>9. Backed' /\ NoOrphans'
  BY <1>1, <1>4, <1>8 DEF IInv, Backed, NoOrphans, Kept, Live
<1> QED
  BY <1>6, <1>7, <1>9 DEF IInv

\* The rows of a deleted webhook go with it, and the other rows stay.
LEMMA DeleteHookRows ==
  ASSUME TypeOK, NEW w \in Hooks,
         deliveries' = [d \in DOMAIN deliveries |->
              IF deliveries[d].hook = w
              THEN [deliveries[d] EXCEPT !.kept = FALSE] ELSE deliveries[d]]
  PROVE  /\ DOMAIN deliveries' = DOMAIN deliveries
         /\ Len(deliveries') = Len(deliveries)
         /\ deliveries' \in Seq(DeliveryRow)
         /\ \A d \in DOMAIN deliveries :
               /\ deliveries'[d].hook = deliveries[d].hook
               /\ deliveries'[d].success = deliveries[d].success
               /\ deliveries'[d].attempts = deliveries[d].attempts
               /\ deliveries'[d].kept <=> Kept(d) /\ deliveries[d].hook # w
<1>1. deliveries \in Seq(DeliveryRow)
  BY DEF TypeOK
<1>2. \A d \in DOMAIN deliveries : deliveries[d] \in DeliveryRow
  BY <1>1
<1>3. \A d \in DOMAIN deliveries :
         /\ deliveries'[d] \in DeliveryRow
         /\ deliveries'[d].hook = deliveries[d].hook
         /\ deliveries'[d].success = deliveries[d].success
         /\ deliveries'[d].attempts = deliveries[d].attempts
         /\ deliveries'[d].kept <=> Kept(d) /\ deliveries[d].hook # w
  BY <1>2 DEF DeliveryRow, Kept
<1>4. DOMAIN deliveries' = 1..Len(deliveries) /\ Len(deliveries) \in Nat
  BY <1>1
<1>5. deliveries' \in [1..Len(deliveries) -> DeliveryRow]
  BY <1>3, <1>4
<1>6. deliveries' \in Seq(DeliveryRow)
  BY <1>4, <1>5, SeqDef
<1>7. Len(deliveries') = Len(deliveries)
  BY <1>4, <1>6, LenProperties
<1> QED
  BY <1>1, <1>3, <1>4, <1>6, <1>7

\* What a deletion does.
LEMMA DeleteHookStep ==
  ASSUME IInv, NEW h \in Handlers, DeleteHook(h)
  PROVE  IInv'
<1>1. PICK w \in Hooks :
         /\ Live(w)
         /\ Begin(h, Idle)
         /\ hooks' = [hooks EXCEPT ![w].state = "deleted"]
         /\ deliveries' = [d \in DOMAIN deliveries |->
              IF deliveries[d].hook = w
              THEN [deliveries[d] EXCEPT !.kept = FALSE] ELSE deliveries[d]]
         /\ UNCHANGED <<sent, accepted>>
  BY DEF DeleteHook
<1>2. /\ job' \in [Handlers -> Job] /\ job'[h] = Idle
      /\ OthersWait(h) /\ calls' \in Nat
  BY <1>1, IdleType, BeginEffect DEF IInv
<1>3. /\ DOMAIN deliveries' = DOMAIN deliveries
      /\ Len(deliveries') = Len(deliveries)
      /\ deliveries' \in Seq(DeliveryRow)
      /\ \A d \in DOMAIN deliveries :
            /\ deliveries'[d].hook = deliveries[d].hook
            /\ deliveries'[d].success = deliveries[d].success
            /\ deliveries'[d].kept <=> Kept(d) /\ deliveries[d].hook # w
  BY <1>1, DeleteHookRows DEF IInv
<1>4. \A x \in Hooks : hooks'[x] \in HookRow /\ (x # w => hooks'[x] = hooks[x])
  BY <1>1 DEF IInv, TypeOK, HookRow, HookStates
<1>5. hooks' \in [Hooks -> HookRow]
  BY <1>1, <1>4 DEF IInv, TypeOK
<1>6. TypeOK'
  BY <1>1, <1>2, <1>3, <1>5 DEF IInv, TypeOK
<1>7. LocalsOK'
  BY <1>1, <1>2, <1>3, IdleLocalOK, LocalsFromOne DEF IInv, Grows
<1>8. \A d \in DOMAIN deliveries : deliveries[d].hook \in Hooks
  BY RowTypes DEF IInv
<1>9. NoOrphans'
  BY <1>3, <1>4, <1>8 DEF IInv, NoOrphans, Kept, Live
<1>10. Backed'
  BY <1>1, <1>3 DEF IInv, Backed
<1> QED
  BY <1>6, <1>7, <1>9, <1>10 DEF IInv

-----------------------------------------------------------------------------
(***************************************************************************)
(* Deliveries                                                              *)
(***************************************************************************)
\* The calls that write nothing; a redelivery names a row that is kept.
LEMMA CallStep ==
  ASSUME IInv, NEW h \in Handlers,
         TestCall(h) \/ BroadcastCall(h) \/ RedeliverCall(h)
  PROVE  IInv'
<1>1. CASE TestCall(h)
  <2>1. PICK w \in Hooks :
          /\ \E e \in IF hooks[w].events = {} THEN {TestEvent} ELSE hooks[w].events :
               Begin(h, [Idle EXCEPT !.pc = "deliver_read", !.hook = w, !.event = e])
          /\ UNCHANGED <<hooks, deliveries, sent, accepted>>
    BY <1>1 DEF TestCall
  <2>2. PICK e \in Events \union {TestEvent} :
          Begin(h, [Idle EXCEPT !.pc = "deliver_read", !.hook = w, !.event = e])
    BY <2>1 DEF IInv, TypeOK, HookRow
  <2> DEFINE j == [Idle EXCEPT !.pc = "deliver_read", !.hook = w, !.event = e]
  <2>3. j \in Job
    BY DEF Idle, Job, Places
  <2>4. /\ job' \in [Handlers -> Job] /\ job'[h] = j
        /\ OthersWait(h) /\ calls' \in Nat
    BY <2>2, <2>3, BeginEffect DEF IInv
  <2>5. LocalOK(h)'
    BY <2>4 DEF LocalOK, Idle
  <2> QED
    BY <2>1, <2>4, <2>5, RowsAlone
<1>2. CASE BroadcastCall(h)
  BY <1>2, IdleType, IdleLocalOK, BeginEffect, RowsAlone DEF IInv, BroadcastCall
<1>3. CASE RedeliverCall(h)
  <2>1. PICK d \in DOMAIN deliveries :
          /\ Begin(h, [Idle EXCEPT !.pc = "post", !.hook = deliveries[d].hook,
                                   !.event = deliveries[d].event, !.delivery = d,
                                   !.again = TRUE])
          /\ UNCHANGED <<hooks, deliveries, sent, accepted>>
    BY <1>3 DEF RedeliverCall
  <2> DEFINE j == [Idle EXCEPT !.pc = "post", !.hook = deliveries[d].hook,
                               !.event = deliveries[d].event, !.delivery = d,
                               !.again = TRUE]
  <2>2. deliveries[d] \in DeliveryRow /\ d \in Nat
    BY RowTypes DEF IInv, TypeOK
  <2>3. j \in Job
    BY <2>2 DEF Idle, Job, Places, DeliveryRow
  <2>4. /\ job' \in [Handlers -> Job] /\ job'[h] = j
        /\ OthersWait(h) /\ calls' \in Nat
    BY <2>1, <2>3, BeginEffect DEF IInv
  <2>5. LocalOK(h)'
    BY <2>1, <2>4 DEF LocalOK, Idle
  <2> QED
    BY <2>1, <2>4, <2>5, RowsAlone
<1> QED
  BY <1>1, <1>2, <1>3

\* A subscribed event is one people subscribe to.
LEMMA DeliverReadStep ==
  ASSUME IInv, NEW h \in Handlers, DeliverRead(h)
  PROVE  IInv'
<1>1. calls' \in Nat /\ UNCHANGED <<hooks, deliveries, sent, accepted>>
  BY DEF IInv, TypeOK, DeliverRead, At
<1>2. CASE Finish(h)
  BY <1>1, <1>2, FinishEffect, IdleLocalOK, RowsAlone DEF IInv
<1>3. CASE job[h].event \in hooks[job[h].hook].events /\ Goto(h, "deliver_insert")
  <2>1. job[h].hook \in Hooks /\ job[h].pc = "deliver_read" /\ job[h] \in Job
    BY DEF IInv, LocalsOK, LocalOK, DeliverRead, At, TypeOK
  <2>2. job[h].event \in Events
    BY <1>3, <2>1 DEF IInv, TypeOK, HookRow
  <2>3. /\ job' \in [Handlers -> Job]
        /\ job'[h] = [job[h] EXCEPT !.pc = "deliver_insert"]
        /\ OthersWait(h)
    BY <1>3, GotoEffect DEF IInv, Places
  <2>4. ~job[h].posted
    BY <2>1 DEF IInv, LocalsOK, LocalOK
  <2>5. LocalOK(h)'
    BY <2>1, <2>2, <2>3, <2>4 DEF LocalOK, Job
  <2> QED
    BY <1>1, <2>3, <2>5, RowsAlone
<1> QED
  BY <1>2, <1>3 DEF DeliverRead

\* What appending a row does to the tables.
LEMMA AppendRow ==
  ASSUME TypeOK, NEW row \in DeliveryRow,
         deliveries' = Append(deliveries, row), sent' = Append(sent, 0)
  PROVE  /\ deliveries' \in Seq(DeliveryRow) /\ sent' \in Seq(Nat)
         /\ Len(deliveries') = Len(deliveries) + 1 /\ Len(sent') = Len(deliveries')
         /\ Len(deliveries) \in Nat
         /\ DOMAIN deliveries = 1..Len(deliveries)
         /\ DOMAIN deliveries' = 1..(Len(deliveries) + 1)
         /\ \A d \in DOMAIN deliveries :
               deliveries'[d] = deliveries[d] /\ sent'[d] = sent[d]
         /\ deliveries'[Len(deliveries) + 1] = row
         /\ sent'[Len(deliveries) + 1] = 0
  BY DEF TypeOK

\* A new row names a webhook that is there, and its worker is about to send it.
LEMMA DeliverInsertStep ==
  ASSUME IInv, NEW h \in Handlers, DeliverInsert(h)
  PROVE  IInv'
<1>1. /\ calls' \in Nat /\ UNCHANGED <<hooks, accepted>>
      /\ job[h].pc = "deliver_insert" /\ job[h] \in Job
  BY DEF IInv, TypeOK, DeliverInsert, At
<1>2. job[h].hook \in Hooks /\ job[h].event \in Events /\ ~job[h].posted
  BY <1>1 DEF IInv, LocalsOK, LocalOK
<1>3. CASE Finish(h) /\ UNCHANGED <<deliveries, sent>>
  BY <1>1, <1>3, FinishEffect, IdleLocalOK, RowsAlone DEF IInv
<1>4. CASE /\ Live(job[h].hook)
           /\ Len(deliveries) < MaxDeliveries
           /\ deliveries' = Append(deliveries,
                [hook |-> job[h].hook, event |-> job[h].event, attempts |-> 0,
                 success |-> None, delivered |-> FALSE, kept |-> TRUE])
           /\ sent' = Append(sent, 0)
           /\ job' = [job EXCEPT ![h] = [@ EXCEPT !.pc = "post",
                                                  !.delivery = Len(deliveries) + 1]]
  <2> DEFINE row == [hook |-> job[h].hook, event |-> job[h].event, attempts |-> 0,
                     success |-> None, delivered |-> FALSE, kept |-> TRUE]
             n == Len(deliveries) + 1
  <2>1. row \in DeliveryRow
    BY <1>2 DEF DeliveryRow
  <2>2. /\ deliveries' \in Seq(DeliveryRow) /\ sent' \in Seq(Nat)
        /\ Len(deliveries') = n /\ Len(sent') = Len(deliveries')
        /\ Len(deliveries) \in Nat
        /\ DOMAIN deliveries = 1..Len(deliveries)
        /\ DOMAIN deliveries' = 1..n
        /\ \A d \in DOMAIN deliveries : deliveries'[d] = deliveries[d]
        /\ deliveries'[n] = row
    BY <1>4, <2>1, AppendRow DEF IInv
  <2>3. /\ job' \in [Handlers -> Job] /\ OthersWait(h)
        /\ job'[h] = [job[h] EXCEPT !.pc = "post", !.delivery = n]
    <3> DEFINE new == [job[h] EXCEPT !.pc = "post", !.delivery = n]
    <3>1. job' = [job EXCEPT ![h] = new]
      BY <1>4
    <3>2. new \in Job
      <4>1. n \in Nat
        BY <2>2
      <4> HIDE DEF n, row
      <4> QED
        BY <1>1, <4>1 DEF Job, Places
    <3> HIDE DEF new
    <3>3. job' \in [Handlers -> Job] /\ OthersWait(h) /\ job'[h] = new
      BY <3>1, <3>2 DEF OthersWait, IInv, TypeOK
    <3> QED
      BY <3>3 DEF new
  <2>4. TypeOK'
    BY <1>1, <2>2, <2>3 DEF IInv, TypeOK
  <2>5. job'[h].pc = "post" /\ job'[h].delivery = n /\ ~job'[h].posted
    BY <1>1, <1>2, <2>3 DEF Job
  <2>6. LocalOK(h)'
    BY <2>2, <2>5 DEF LocalOK
  <2>7. LocalsOK'
    BY <1>1, <2>2, <2>3, <2>6, LocalsFromOne DEF IInv, Grows
  <2>8. \A d \in DOMAIN deliveries' : d \in DOMAIN deliveries \/ d = n
    BY <2>2
  <2>9. row.success # TRUE /\ row.hook = job[h].hook
    BY ConstantsAssumption
  <2>10. Backed'
    <3>1. Len(deliveries') <= MaxDeliveries
      BY <1>4, <2>2, ConstantsAssumption
    <3>2. \A d \in DOMAIN deliveries' : deliveries'[d].success = TRUE => d \in accepted'
      BY <1>1, <2>2, <2>8, <2>9 DEF IInv, Backed
    <3> QED
      BY <3>1, <3>2 DEF Backed
  <2>11. NoOrphans'
    BY <1>1, <1>4, <2>2, <2>8, <2>9 DEF IInv, NoOrphans, Kept, Live
  <2> QED
    BY <2>4, <2>7, <2>10, <2>11 DEF IInv
<1> QED
  BY <1>3, <1>4 DEF DeliverInsert
\* A request leaves the rows alone; "ok" comes from a receiver that accepted.
LEMMA PostEffect ==
  ASSUME IInv, NEW h \in Handlers, Post(h)
  PROVE  /\ job[h].pc = "post" /\ job[h].delivery \in DOMAIN deliveries
         /\ sent' = [sent EXCEPT ![job[h].delivery] = @ + 1]
         /\ accepted' \in {accepted, accepted \union {job[h].delivery}}
         /\ UNCHANGED <<hooks, deliveries, calls>>
         /\ job' \in [Handlers -> Job] /\ OthersWait(h)
         /\ job'[h].pc = "record" /\ job'[h].posted
         /\ job'[h].delivery = job[h].delivery
         /\ job'[h].answer = "ok" => job[h].delivery \in accepted'
<1>1. /\ job[h].pc = "post" /\ job[h].delivery \in DOMAIN deliveries
      /\ job[h] \in Job /\ job \in [Handlers -> Job]
      /\ UNCHANGED <<hooks, deliveries, calls>>
  BY DEF Post, At, IInv, LocalsOK, LocalOK, TypeOK
<1>2. PICK answer \in Answers :
        /\ sent' = [sent EXCEPT ![job[h].delivery] = @ + 1]
        /\ job' = [job EXCEPT ![h] = [@ EXCEPT !.pc = "record", !.posted = TRUE,
                                               !.answer = answer]]
        /\ \/ accepted' = accepted \union {job[h].delivery}
           \/ answer # "ok" /\ accepted' = accepted
  BY DEF Post, Answers
<1> DEFINE new == [job[h] EXCEPT !.pc = "record", !.posted = TRUE, !.answer = answer]
<1>3. job' = [job EXCEPT ![h] = new]
  BY <1>2
<1>4. /\ new \in Job /\ new.pc = "record" /\ new.posted
      /\ new.delivery = job[h].delivery /\ new.answer = answer
  BY <1>1 DEF Job, Places
<1> HIDE DEF new
<1>5. job' \in [Handlers -> Job] /\ job'[h] = new /\ OthersWait(h)
  BY <1>1, <1>3, <1>4 DEF OthersWait
<1> QED
  BY <1>1, <1>2, <1>4, <1>5

\* Counting a request keeps the counters' type.
LEMMA SentType ==
  ASSUME TypeOK, NEW d \in DOMAIN deliveries, sent' = [sent EXCEPT ![d] = @ + 1]
  PROVE  /\ sent' \in Seq(Nat) /\ Len(sent') = Len(deliveries)
         /\ sent'[d] = sent[d] + 1 /\ sent[d] \in Nat
         /\ \A c \in DOMAIN deliveries \ {d} : sent'[c] = sent[c]
<1>1. d \in 1..Len(sent) /\ sent \in Seq(Nat)
  BY DEF TypeOK
<1>2. sent[d] + 1 \in Nat
  BY <1>1
<1>3. sent' \in Seq(Nat) /\ Len(sent') = Len(sent) /\ DOMAIN sent' = DOMAIN sent
  BY <1>1, <1>2, ExceptSeq
<1> QED
  BY <1>1, <1>2, <1>3 DEF TypeOK

\* What a request does.
LEMMA PostStep ==
  ASSUME IInv, NEW h \in Handlers, Post(h)
  PROVE  IInv'
<1> DEFINE d == job[h].delivery
<1>1. /\ d \in DOMAIN deliveries /\ d \in Nat
      /\ sent' = [sent EXCEPT ![d] = @ + 1]
      /\ accepted' \in {accepted, accepted \union {d}}
      /\ UNCHANGED <<hooks, deliveries, calls>>
      /\ job' \in [Handlers -> Job] /\ OthersWait(h)
      /\ job'[h].pc = "record" /\ job'[h].posted /\ job'[h].delivery = d
      /\ job'[h].answer = "ok" => d \in accepted'
  BY PostEffect DEF IInv, TypeOK
<1> HIDE DEF d
<1>2. sent' \in Seq(Nat) /\ Len(sent') = Len(deliveries)
  BY <1>1, SentType DEF IInv
<1>3. TypeOK'
  BY <1>1, <1>2 DEF IInv, TypeOK
<1>4. Grows
  BY <1>1 DEF Grows
<1>5. LocalOK(h)'
  BY <1>1 DEF LocalOK
<1>6. LocalsOK'
  BY <1>1, <1>4, <1>5, LocalsFromOne DEF IInv
<1>7. Backed' /\ NoOrphans'
  BY <1>1 DEF IInv, Backed, NoOrphans, Kept, Live
<1> QED
  BY <1>3, <1>6, <1>7 DEF IInv

\* What an outcome changes of its row.
LEMMA OutcomeRow ==
  ASSUME NEW row \in DeliveryRow, NEW j \in Job
  PROVE  /\ Outcome(row, j) \in DeliveryRow
         /\ Outcome(row, j).hook = row.hook
         /\ Outcome(row, j).kept = row.kept
         /\ Outcome(row, j).attempts = row.attempts + 1
         /\ Outcome(row, j).success = (j.answer = "ok")
<1> DEFINE ok == j.answer = "ok"
           at == IF j.answer = "error" THEN row.delivered ELSE ok
<1>1. ok \in BOOLEAN
  OBVIOUS
<1>2. row.delivered \in BOOLEAN /\ row.attempts + 1 \in Nat
  BY DEF DeliveryRow
<1>3. at \in BOOLEAN
  BY <1>1, <1>2, Zenon
<1>4. Outcome(row, j) = [row EXCEPT !.attempts = row.attempts + 1, !.success = ok,
                                    !.delivered = at]
  BY DEF Outcome
<1> HIDE DEF ok, at
<1>5. /\ Outcome(row, j) \in DeliveryRow
      /\ Outcome(row, j).hook = row.hook /\ Outcome(row, j).kept = row.kept
      /\ Outcome(row, j).attempts = row.attempts + 1
      /\ Outcome(row, j).success = ok
  BY <1>1, <1>2, <1>3, <1>4 DEF DeliveryRow
<1> QED
  BY <1>5 DEF ok

\* Recording an outcome touches one row, and only if it is kept.
LEMMA RecordEffect ==
  ASSUME IInv, NEW h \in Handlers, Record(h)
  PROVE  /\ job[h].pc = "record" /\ job[h].posted
         /\ job[h].delivery \in DOMAIN deliveries
         /\ UNCHANGED <<hooks, sent, accepted, calls>>
         /\ job' \in [Handlers -> Job] /\ job'[h] = Idle /\ OthersWait(h)
         /\ deliveries' \in Seq(DeliveryRow) /\ Len(deliveries') = Len(deliveries)
         /\ DOMAIN deliveries' = DOMAIN deliveries
         /\ \A d \in DOMAIN deliveries :
               deliveries'[d] = IF d = job[h].delivery /\ Kept(d)
                                THEN Outcome(deliveries[d], job[h])
                                ELSE deliveries[d]
<1> DEFINE d == job[h].delivery
<1>1. /\ job[h].pc = "record" /\ job[h].posted /\ d \in DOMAIN deliveries
      /\ UNCHANGED <<hooks, sent, accepted, calls>>
      /\ job[h] \in Job
  BY DEF Record, At, IInv, LocalsOK, LocalOK, TypeOK
<1>2. job' \in [Handlers -> Job] /\ job'[h] = Idle /\ OthersWait(h)
  BY FinishEffect DEF Record, IInv
<1>3. deliveries \in Seq(DeliveryRow) /\ deliveries[d] \in DeliveryRow
  BY <1>1, RowTypes DEF IInv, TypeOK
<1>4. Outcome(deliveries[d], job[h]) \in DeliveryRow
  BY <1>1, <1>3, OutcomeRow
<1>5. CASE Kept(d)
  <2>1. deliveries' = [deliveries EXCEPT ![d] = Outcome(deliveries[d], job[h])]
    BY <1>5 DEF Record
  <2>2. /\ deliveries' \in Seq(DeliveryRow) /\ Len(deliveries') = Len(deliveries)
        /\ DOMAIN deliveries' = DOMAIN deliveries
    BY <1>1, <1>3, <1>4, <2>1, ExceptSeq
  <2> QED
    BY <1>1, <1>2, <1>5, <2>1, <2>2
<1>6. CASE ~Kept(d)
  <2>1. deliveries' = deliveries
    BY <1>6 DEF Record
  <2> QED
    BY <1>1, <1>2, <1>3, <1>6, <2>1
<1> QED
  BY <1>5, <1>6

\* What recording an outcome does.
LEMMA RecordStep ==
  ASSUME IInv, NEW h \in Handlers, Record(h)
  PROVE  IInv'
<1>1. /\ job[h].pc = "record" /\ job[h].delivery \in DOMAIN deliveries
      /\ UNCHANGED <<hooks, sent, accepted, calls>>
      /\ job' \in [Handlers -> Job] /\ job'[h] = Idle /\ OthersWait(h)
      /\ deliveries' \in Seq(DeliveryRow) /\ Len(deliveries') = Len(deliveries)
      /\ DOMAIN deliveries' = DOMAIN deliveries
      /\ \A d \in DOMAIN deliveries :
            deliveries'[d] = IF d = job[h].delivery /\ Kept(d)
                             THEN Outcome(deliveries[d], job[h])
                             ELSE deliveries[d]
  BY RecordEffect
<1>2. job[h].answer = "ok" => job[h].delivery \in accepted
  BY <1>1 DEF IInv, LocalsOK, LocalOK
<1>3. \A d \in DOMAIN deliveries :
         /\ deliveries'[d].hook = deliveries[d].hook
         /\ deliveries'[d].kept = deliveries[d].kept
         /\ deliveries'[d].success =
               IF d = job[h].delivery /\ Kept(d)
               THEN job[h].answer = "ok" ELSE deliveries[d].success
  BY <1>1, RowTypes, OutcomeRow DEF IInv, TypeOK
<1>4. TypeOK'
  BY <1>1 DEF IInv, TypeOK
<1>5. LocalsOK'
  BY <1>1, IdleLocalOK, LocalsFromOne DEF IInv, Grows
<1>6. Backed'
  BY <1>1, <1>2, <1>3 DEF IInv, Backed
<1>7. NoOrphans'
  BY <1>1, <1>3 DEF IInv, NoOrphans, Kept, Live
<1> QED
  BY <1>4, <1>5, <1>6, <1>7 DEF IInv

\* A worker that dies takes its locals with it and changes nothing else.
LEMMA DieStep ==
  ASSUME IInv, NEW h \in Handlers, Die(h)
  PROVE  IInv'
<1>1. /\ UNCHANGED <<hooks, deliveries, sent, accepted, calls>>
      /\ job' \in [Handlers -> Job] /\ OthersWait(h)
      /\ job'[h] = [job[h] EXCEPT !.pc = "dead"]
  BY GotoEffect DEF IInv, Die, Places
<1>2. job[h] \in Job /\ LocalOK(h)
  BY DEF IInv, TypeOK, LocalsOK
<1>3. LocalOK(h)'
  BY <1>1, <1>2 DEF LocalOK, Job
<1> QED
  BY <1>1, <1>3, RowsAlone DEF IInv, TypeOK

-----------------------------------------------------------------------------
(***************************************************************************)
(* The invariant                                                           *)
(***************************************************************************)
\* The invariant holds at the start.
LEMMA InitHolds == Init => IInv
<1> SUFFICES ASSUME Init PROVE IInv
  OBVIOUS
<1>1. TypeOK
  BY IdleType, ConstantsAssumption DEF Init, TypeOK, HookRow, HookStates
<1>2. LocalsOK
  BY DEF Init, LocalsOK, LocalOK, Idle
<1>3. Backed /\ NoOrphans
  BY ConstantsAssumption DEF Init, Backed, NoOrphans
<1> QED
  BY <1>1, <1>2, <1>3 DEF IInv

\* Every step keeps it.
LEMMA NextHolds == IInv /\ [Next]_vars => IInv'
<1> SUFFICES ASSUME IInv, [Next]_vars PROVE IInv'
  OBVIOUS
<1>1. CASE UNCHANGED vars
  BY <1>1 DEF vars, IInv, TypeOK, LocalsOK, LocalOK, Backed, NoOrphans, Kept, Live
<1>2. ASSUME NEW h \in Handlers, Call(h) PROVE IInv'
  BY <1>2, CreateHookStep, UpdateHookStep, DeleteHookStep, CallStep DEF Call
<1>3. ASSUME NEW h \in Handlers, Continue(h) PROVE IInv'
  BY <1>3, DeliverReadStep, DeliverInsertStep, PostStep, RecordStep DEF Continue
<1>4. ASSUME NEW h \in Handlers, Die(h) PROVE IInv'
  BY <1>4, DieStep
<1> QED
  BY <1>1, <1>2, <1>3, <1>4 DEF Next

\* The inductive invariant holds of every reachable state.
LEMMA Invariance == Spec => []IInv
  BY InitHolds, NextHolds, PTL DEF Spec

\* Every table and every worker's locals have their type.
THEOREM TypeCorrect == Spec => []TypeOK
<1>1. IInv => TypeOK
  BY DEF IInv
<1> QED
  BY <1>1, Invariance, PTL

\* The history has no row of a webhook that is not there.
THEOREM OrphansNever == Spec => []NoOrphans
<1>1. IInv => NoOrphans
  BY DEF IInv
<1> QED
  BY <1>1, Invariance, PTL
-----------------------------------------------------------------------------
(***************************************************************************)
(* Deleted rows                                                            *)
(***************************************************************************)
\* What h sends after a step in which it does not begin to send, it sent before.
LEMMA SendsNothingNew ==
  ASSUME NEW h \in Handlers, OthersWait(h), job'[h].pc # "post"
  PROVE  \A k \in Handlers : \A d : Sending(k, d)' => Sending(k, d)
  BY DEF OthersWait, Sending

\* A deleted history stays deleted and gathers no new requests.
THEOREM DeletedGathersNothingTheorem == Spec => DeletedGathersNothing
<1> DEFINE Silent == \A d \in DOMAIN deliveries : ~Kept(d) =>
                        /\ ~deliveries'[d].kept
                        /\ \A h \in Handlers : Sending(h, d)' => Sending(h, d)
<1>1. ASSUME IInv, NEW h \in Handlers, CreateHook(h) \/ UpdateHook(h) \/ BroadcastCall(h)
      PROVE  Silent
  <2>1. Begin(h, Idle) /\ UNCHANGED deliveries
    BY <1>1 DEF CreateHook, UpdateHook, BroadcastCall
  <2>2. job'[h] = Idle /\ OthersWait(h)
    BY <1>1, <2>1, IdleType, BeginEffect DEF IInv
  <2> QED
    BY <2>1, <2>2, SendsNothingNew DEF Idle, Kept
<1>2. ASSUME IInv, NEW h \in Handlers, DeleteHook(h) PROVE Silent
  <2>1. PICK w \in Hooks :
          /\ Begin(h, Idle)
          /\ deliveries' = [d \in DOMAIN deliveries |->
                IF deliveries[d].hook = w
                THEN [deliveries[d] EXCEPT !.kept = FALSE] ELSE deliveries[d]]
    BY <1>2 DEF DeleteHook
  <2>2. job'[h] = Idle /\ OthersWait(h)
    BY <1>2, <2>1, IdleType, BeginEffect DEF IInv
  <2>3. \A d \in DOMAIN deliveries : ~Kept(d) => ~deliveries'[d].kept
    BY <1>2, <2>1, DeleteHookRows DEF IInv
  <2> QED
    BY <2>2, <2>3, SendsNothingNew DEF Idle
<1>3. ASSUME IInv, NEW h \in Handlers, TestCall(h) PROVE Silent
  <2>1. PICK w \in Hooks, e \in Events \union {TestEvent} :
          /\ Begin(h, [Idle EXCEPT !.pc = "deliver_read", !.hook = w, !.event = e])
          /\ UNCHANGED deliveries
    BY <1>3 DEF TestCall, IInv, TypeOK, HookRow
  <2>2. job'[h].pc = "deliver_read" /\ OthersWait(h)
    BY <1>3, <2>1 DEF Begin, Idle, OthersWait, IInv, TypeOK
  <2> QED
    BY <2>1, <2>2, SendsNothingNew DEF Kept
<1>4. ASSUME IInv, NEW h \in Handlers, RedeliverCall(h) PROVE Silent
  <2>1. PICK d \in DOMAIN deliveries :
          /\ Kept(d)
          /\ Begin(h, [Idle EXCEPT !.pc = "post", !.hook = deliveries[d].hook,
                                   !.event = deliveries[d].event, !.delivery = d,
                                   !.again = TRUE])
          /\ UNCHANGED deliveries
    BY <1>4 DEF RedeliverCall
  <2>2. job'[h].delivery = d /\ OthersWait(h)
    BY <1>4, <2>1 DEF Begin, Idle, OthersWait, IInv, TypeOK
  <2> QED
    BY <2>1, <2>2 DEF OthersWait, Sending, Kept
<1>5. ASSUME IInv, NEW h \in Handlers, DeliverRead(h) PROVE Silent
  <2>1. job'[h].pc # "post" /\ OthersWait(h) /\ UNCHANGED deliveries
    BY <1>5 DEF DeliverRead, Goto, Finish, Idle, OthersWait, IInv, TypeOK, Job
  <2> QED
    BY <2>1, SendsNothingNew DEF Kept
<1>6. ASSUME IInv, NEW h \in Handlers, DeliverInsert(h) PROVE Silent
  <2>1. CASE Finish(h) /\ UNCHANGED deliveries
    <3>1. job'[h] = Idle /\ OthersWait(h)
      BY <1>6, <2>1, FinishEffect DEF IInv
    <3> QED
      BY <2>1, <3>1, SendsNothingNew DEF Idle, Kept
  <2>2. CASE \E row : /\ deliveries' = Append(deliveries, row)
                      /\ job' = [job EXCEPT ![h] = [@ EXCEPT !.pc = "post",
                                                  !.delivery = Len(deliveries) + 1]]
    <3>1. /\ \A d \in DOMAIN deliveries : deliveries'[d] = deliveries[d]
          /\ Len(deliveries) + 1 \notin DOMAIN deliveries
      BY <1>6, <2>2 DEF IInv, TypeOK
    <3>2. job'[h].delivery = Len(deliveries) + 1 /\ OthersWait(h)
      BY <1>6, <2>2 DEF IInv, TypeOK, Job, OthersWait
    <3> QED
      BY <3>1, <3>2 DEF OthersWait, Sending, Kept
  <2> QED
    BY <1>6, <2>1, <2>2 DEF DeliverInsert
<1>7. ASSUME IInv, NEW h \in Handlers, Post(h) PROVE Silent
  BY <1>7, PostEffect, SendsNothingNew DEF Kept
<1>8. ASSUME IInv, NEW h \in Handlers, Record(h) PROVE Silent
  <2>1. /\ job[h].delivery \in DOMAIN deliveries
        /\ job'[h] = Idle /\ OthersWait(h)
        /\ \A d \in DOMAIN deliveries : ~Kept(d) => deliveries'[d] = deliveries[d]
    BY <1>8, RecordEffect
  <2> QED
    BY <2>1, SendsNothingNew DEF Idle, Kept
<1>9. ASSUME IInv, NEW h \in Handlers, Die(h) PROVE Silent
  <2>1. job'[h].pc # "post" /\ OthersWait(h) /\ UNCHANGED deliveries
    BY <1>9 DEF Die, Goto, OthersWait, IInv, TypeOK, Job
  <2> QED
    BY <2>1, SendsNothingNew DEF Kept
<1>10. IInv /\ [Next]_vars => [Silent]_vars
  BY <1>1, <1>2, <1>3, <1>4, <1>5, <1>6, <1>7, <1>8, <1>9
     DEF Next, Call, Continue
<1> QED
  BY <1>10, Invariance, PTL DEF Spec, DeletedGathersNothing
-----------------------------------------------------------------------------
(***************************************************************************)
(* The count of requests                                                   *)
(***************************************************************************)
\* The workers that wait for delivery d to be answered, when their locals are j.
Waiting(j, d) == {h \in Handlers : j[h].delivery = d /\ j[h].posted}

\* Every request is counted, of these tables and locals.
Counted(rows, requests, j) ==
    \A d \in DOMAIN rows : rows[d].kept =>
        rows[d].attempts + Cardinality(Waiting(j, d)) = requests[d]

\* This is what EveryPostCounted says, before a step and after it.
LEMMA CountedForm ==
  /\ EveryPostCounted <=> Counted(deliveries, sent, job)
  /\ EveryPostCounted' <=> Counted(deliveries', sent', job')
  BY DEF EveryPostCounted, Counted, Waiting, Unrecorded, Kept

\* The unrecorded requests of a delivery are those of the workers there are.
LEMMA UnrecordedFinite ==
  ASSUME NEW j, NEW d
  PROVE  IsFiniteSet(Waiting(j, d)) /\ Cardinality(Waiting(j, d)) \in Nat
<1>1. Waiting(j, d) \subseteq Handlers
  BY DEF Waiting
<1> QED
  BY <1>1, ConstantsAssumption, FS_Subset, FS_CardinalityType

\* A worker that waits for no answer before or after its step adds no request.
LEMMA UnrecordedAlone ==
  ASSUME NEW h \in Handlers, OthersWait(h),
         \/ ~job[h].posted /\ ~job'[h].posted
         \/ /\ job'[h].posted = job[h].posted
            /\ job'[h].delivery = job[h].delivery
  PROVE  \A d : Waiting(job', d) = Waiting(job, d)
  BY DEF OthersWait, Waiting

\* The count stands where the rows that stay keep their numbers.
LEMMA CountStands ==
  ASSUME EveryPostCounted, \A d : Waiting(job', d) = Waiting(job, d),
         \A d \in DOMAIN deliveries' : Kept(d)' =>
            /\ d \in DOMAIN deliveries /\ Kept(d)
            /\ deliveries'[d].attempts = deliveries[d].attempts
            /\ sent'[d] = sent[d]
  PROVE  EveryPostCounted'
  BY CountedForm DEF Counted, Kept

\* Operations that begin neither send nor record.
LEMMA CallCounts ==
  ASSUME IInv, EveryPostCounted, NEW h \in Handlers, Call(h)
  PROVE  EveryPostCounted'
<1>1. ASSUME NEW j \in Job, Begin(h, j), ~j.posted
      PROVE  \A d : Waiting(job', d) = Waiting(job, d)
  <2>1. ~job[h].posted
    BY <1>1 DEF IInv, LocalsOK, LocalOK, Begin
  <2>2. job'[h] = j /\ OthersWait(h)
    BY <1>1, BeginEffect DEF IInv
  <2> QED
    BY <1>1, <2>1, <2>2, UnrecordedAlone
<1>2. ~Idle.posted
  BY DEF Idle
<1>3. CASE CreateHook(h) \/ UpdateHook(h) \/ BroadcastCall(h)
  <2>1. Begin(h, Idle) /\ UNCHANGED <<deliveries, sent>>
    BY <1>3 DEF CreateHook, UpdateHook, BroadcastCall
  <2>2. \A d : Waiting(job', d) = Waiting(job, d)
    BY <1>1, <1>2, <2>1, IdleType
  <2> QED
    BY <2>1, <2>2, CountStands DEF Kept
<1>4. CASE DeleteHook(h)
  <2>1. PICK w \in Hooks :
          /\ Begin(h, Idle)
          /\ deliveries' = [d \in DOMAIN deliveries |->
                IF deliveries[d].hook = w
                THEN [deliveries[d] EXCEPT !.kept = FALSE] ELSE deliveries[d]]
          /\ UNCHANGED sent
    BY <1>4 DEF DeleteHook
  <2>2. \A d : Waiting(job', d) = Waiting(job, d)
    BY <1>1, <1>2, <2>1, IdleType
  <2>3. /\ DOMAIN deliveries' = DOMAIN deliveries
        /\ \A d \in DOMAIN deliveries :
              /\ deliveries'[d].attempts = deliveries[d].attempts
              /\ deliveries'[d].kept => Kept(d)
    BY <2>1, DeleteHookRows DEF IInv
  <2> QED
    BY <2>1, <2>2, <2>3, CountStands DEF Kept
<1>5. CASE TestCall(h)
  <2>1. PICK w \in Hooks :
          \E e \in IF hooks[w].events = {} THEN {TestEvent} ELSE hooks[w].events :
              Begin(h, [Idle EXCEPT !.pc = "deliver_read", !.hook = w, !.event = e])
    BY <1>5 DEF TestCall
  <2>2. PICK e \in Events \union {TestEvent} :
          Begin(h, [Idle EXCEPT !.pc = "deliver_read", !.hook = w, !.event = e])
    BY <2>1 DEF IInv, TypeOK, HookRow
  <2> DEFINE j == [Idle EXCEPT !.pc = "deliver_read", !.hook = w, !.event = e]
  <2>3. j \in Job /\ ~j.posted
    BY DEF Idle, Job, Places
  <2>4. \A d : Waiting(job', d) = Waiting(job, d)
    BY <1>1, <2>2, <2>3
  <2>5. UNCHANGED <<deliveries, sent>>
    BY <1>5 DEF TestCall
  <2> QED
    BY <2>4, <2>5, CountStands DEF Kept
<1>6. CASE RedeliverCall(h)
  <2>1. PICK d \in DOMAIN deliveries :
          /\ Begin(h, [Idle EXCEPT !.pc = "post", !.hook = deliveries[d].hook,
                                   !.event = deliveries[d].event, !.delivery = d,
                                   !.again = TRUE])
          /\ UNCHANGED <<deliveries, sent>>
    BY <1>6 DEF RedeliverCall
  <2> DEFINE j == [Idle EXCEPT !.pc = "post", !.hook = deliveries[d].hook,
                               !.event = deliveries[d].event, !.delivery = d,
                               !.again = TRUE]
  <2>2. deliveries[d] \in DeliveryRow /\ d \in Nat
    BY RowTypes DEF IInv, TypeOK
  <2>3. j \in Job /\ ~j.posted
    BY <2>2 DEF Idle, Job, Places, DeliveryRow
  <2>4. \A c : Waiting(job', c) = Waiting(job, c)
    BY <1>1, <2>1, <2>3
  <2> QED
    BY <2>1, <2>4, CountStands DEF Kept
<1> QED
  BY <1>3, <1>4, <1>5, <1>6 DEF Call

\* Reading, inserting a row and dying send nothing; a new row starts at nought.
LEMMA QuietCounts ==
  ASSUME IInv, EveryPostCounted, NEW h \in Handlers,
         DeliverRead(h) \/ DeliverInsert(h) \/ Die(h)
  PROVE  EveryPostCounted'
<1>1. job[h] \in Job /\ (job[h].pc \notin {"record", "dead"} => ~job[h].posted)
  BY DEF IInv, TypeOK, LocalsOK, LocalOK
<1>2. CASE DeliverRead(h) \/ Die(h)
  <2>1. /\ OthersWait(h) /\ UNCHANGED <<deliveries, sent>>
        /\ \/ ~job[h].posted /\ ~job'[h].posted
           \/ /\ job'[h].posted = job[h].posted
              /\ job'[h].delivery = job[h].delivery
    BY <1>1, <1>2
       DEF DeliverRead, Die, At, Goto, Finish, Idle, OthersWait, IInv, TypeOK, Job
  <2> QED
    BY <2>1, UnrecordedAlone, CountStands DEF Kept
<1>3. CASE DeliverInsert(h) /\ Finish(h) /\ UNCHANGED <<deliveries, sent>>
  <2>1. ~job[h].posted /\ ~job'[h].posted /\ OthersWait(h)
    BY <1>1, <1>3, FinishEffect DEF IInv, DeliverInsert, At, Idle
  <2> QED
    BY <1>3, <2>1, UnrecordedAlone, CountStands DEF Kept
<1>4. CASE /\ job[h].pc = "deliver_insert"
           /\ deliveries' = Append(deliveries,
                [hook |-> job[h].hook, event |-> job[h].event, attempts |-> 0,
                 success |-> None, delivered |-> FALSE, kept |-> TRUE])
           /\ sent' = Append(sent, 0)
           /\ job' = [job EXCEPT ![h] = [@ EXCEPT !.pc = "post",
                                                  !.delivery = Len(deliveries) + 1]]
  <2> DEFINE row == [hook |-> job[h].hook, event |-> job[h].event, attempts |-> 0,
                     success |-> None, delivered |-> FALSE, kept |-> TRUE]
             n == Len(deliveries) + 1
  <2>1. job[h].hook \in Hooks /\ job[h].event \in Events /\ ~job[h].posted
    BY <1>4 DEF IInv, LocalsOK, LocalOK
  <2>2. row \in DeliveryRow /\ row.attempts = 0
    BY <2>1 DEF DeliveryRow
  <2>3. /\ DOMAIN deliveries = 1..Len(deliveries) /\ DOMAIN deliveries' = 1..n
        /\ Len(deliveries) \in Nat
        /\ \A d \in DOMAIN deliveries :
              deliveries'[d] = deliveries[d] /\ sent'[d] = sent[d]
        /\ deliveries'[n] = row /\ sent'[n] = 0
    BY <1>4, <2>2, AppendRow DEF IInv
  <2> HIDE DEF row
  <2>4. ~job'[h].posted /\ OthersWait(h)
    BY <1>1, <1>4, <2>1 DEF IInv, TypeOK, Job, OthersWait
  <2>5. \A d : Waiting(job', d) = Waiting(job, d)
    BY <2>1, <2>4, UnrecordedAlone
  <2>6. Waiting(job, n) = {} /\ n \notin DOMAIN deliveries
    BY <2>3 DEF Waiting, IInv, LocalsOK, LocalOK
  <2>7. Cardinality(Waiting(job', n)) = 0
    BY <2>5, <2>6, FS_EmptySet
  <2> SUFFICES ASSUME NEW d \in DOMAIN deliveries', Kept(d)'
               PROVE  deliveries'[d].attempts + Cardinality(Waiting(job', d)) = sent'[d]
    BY CountedForm DEF Counted, Kept
  <2>8. CASE d = n
    BY <2>2, <2>3, <2>7, <2>8
  <2>9. CASE d # n
    <3>1. d \in DOMAIN deliveries
      BY <2>3, <2>9
    <3> QED
      BY <2>3, <2>5, <3>1, CountedForm DEF Counted, Kept
  <2> QED
    BY <2>8, <2>9
<1> QED
  BY <1>2, <1>3, <1>4 DEF DeliverInsert, At

\* A request is counted among the unrecorded until its worker records it.
LEMMA PostCounts ==
  ASSUME IInv, EveryPostCounted, NEW h \in Handlers, Post(h)
  PROVE  EveryPostCounted'
<1> DEFINE p == job[h].delivery
<1>1. /\ job[h].pc = "post" /\ p \in DOMAIN deliveries
      /\ sent' = [sent EXCEPT ![p] = @ + 1]
      /\ UNCHANGED deliveries /\ OthersWait(h)
      /\ job'[h].posted /\ job'[h].delivery = p
  BY PostEffect
<1>a. p = job[h].delivery
  OBVIOUS
<1>2. ~job[h].posted
  BY <1>1 DEF IInv, LocalsOK, LocalOK
<1> HIDE DEF p
<1>3. /\ sent'[p] = sent[p] + 1 /\ sent[p] \in Nat
      /\ \A d \in DOMAIN deliveries \ {p} : sent'[d] = sent[d]
  BY <1>1, SentType DEF IInv
<1>4. /\ Waiting(job', p) = Waiting(job, p) \union {h} /\ h \notin Waiting(job, p)
      /\ \A d : d # p => Waiting(job', d) = Waiting(job, d)
  BY <1>1, <1>2, <1>a DEF Waiting, OthersWait
<1>5. Cardinality(Waiting(job', p)) = Cardinality(Waiting(job, p)) + 1
  BY <1>4, UnrecordedFinite, FS_AddElement
<1> SUFFICES ASSUME NEW d \in DOMAIN deliveries', Kept(d)'
             PROVE  deliveries'[d].attempts + Cardinality(Waiting(job', d)) = sent'[d]
  BY CountedForm DEF Counted, Kept
<1>6. /\ d \in DOMAIN deliveries /\ deliveries'[d] = deliveries[d]
      /\ deliveries[d].attempts + Cardinality(Waiting(job, d)) = sent[d]
  BY <1>1, CountedForm DEF Counted, Kept
<1>7. deliveries[d].attempts \in Nat /\ Cardinality(Waiting(job, d)) \in Nat
  BY <1>6, RowTypes, UnrecordedFinite DEF IInv, DeliveryRow
<1>8. CASE d = p
  <2>1. /\ Cardinality(Waiting(job', d)) = Cardinality(Waiting(job, d)) + 1
        /\ sent'[d] = sent[d] + 1
    BY <1>3, <1>5, <1>8
  <2> QED
    BY <1>6, <1>7, <2>1
<1>9. CASE d # p
  BY <1>3, <1>4, <1>6, <1>9
<1> QED
  BY <1>8, <1>9

\* Recording turns an unrecorded request into an attempt.
LEMMA RecordCounts ==
  ASSUME IInv, EveryPostCounted, NEW h \in Handlers, Record(h)
  PROVE  EveryPostCounted'
<1> DEFINE p == job[h].delivery
<1>1. /\ job[h].posted /\ p \in DOMAIN deliveries
      /\ UNCHANGED sent
      /\ job'[h] = Idle /\ OthersWait(h)
      /\ DOMAIN deliveries' = DOMAIN deliveries
      /\ \A d \in DOMAIN deliveries :
            deliveries'[d] = IF d = p /\ Kept(d)
                             THEN Outcome(deliveries[d], job[h])
                             ELSE deliveries[d]
  BY RecordEffect
<1>a. p = job[h].delivery
  OBVIOUS
<1>2. h \in Waiting(job, p)
  BY <1>1 DEF Waiting
<1> HIDE DEF p
<1>3. /\ Waiting(job', p) = Waiting(job, p) \ {h}
      /\ \A d : d # p => Waiting(job', d) = Waiting(job, d)
  BY <1>1, <1>2, <1>a DEF Waiting, OthersWait, Idle
<1>4. Cardinality(Waiting(job', p)) = Cardinality(Waiting(job, p)) - 1
  BY <1>2, <1>3, UnrecordedFinite, FS_RemoveElement
<1> SUFFICES ASSUME NEW d \in DOMAIN deliveries', Kept(d)'
             PROVE  deliveries'[d].attempts + Cardinality(Waiting(job', d)) = sent'[d]
  BY CountedForm DEF Counted, Kept
<1>5. deliveries[d] \in DeliveryRow /\ job[h] \in Job
  BY <1>1, RowTypes DEF IInv, TypeOK
<1>6. /\ Outcome(deliveries[d], job[h]).attempts = deliveries[d].attempts + 1
      /\ Outcome(deliveries[d], job[h]).kept = deliveries[d].kept
  BY <1>5, OutcomeRow
<1>7. Kept(d)
  BY <1>1, <1>6 DEF Kept
<1>8. deliveries'[d].attempts = IF d = p THEN deliveries[d].attempts + 1
                                ELSE deliveries[d].attempts
  BY <1>1, <1>6, <1>7
<1>9. /\ deliveries[d].attempts + Cardinality(Waiting(job, d)) = sent[d]
      /\ deliveries[d].attempts \in Nat /\ Cardinality(Waiting(job, d)) \in Nat
  BY <1>1, <1>5, <1>7, UnrecordedFinite, CountedForm DEF Counted, DeliveryRow, Kept
<1>10. CASE d = p
  <2>1. /\ Cardinality(Waiting(job', d)) = Cardinality(Waiting(job, d)) - 1
        /\ deliveries'[d].attempts = deliveries[d].attempts + 1
    BY <1>4, <1>8, <1>10
  <2> QED
    BY <1>1, <1>9, <2>1
<1>11. CASE d # p
  BY <1>1, <1>3, <1>8, <1>9, <1>11
<1> QED
  BY <1>10, <1>11

\* Every request is counted once, however many workers send the same delivery.
THEOREM EveryPostCountedTheorem == Spec => []EveryPostCounted
<1>1. Init => EveryPostCounted
  BY DEF Init, EveryPostCounted
<1>2. IInv /\ EveryPostCounted /\ [Next]_vars => EveryPostCounted'
  <2> SUFFICES ASSUME IInv, EveryPostCounted, [Next]_vars PROVE EveryPostCounted'
    OBVIOUS
  <2>1. CASE UNCHANGED vars
    BY <2>1 DEF vars, EveryPostCounted, Kept, Unrecorded
  <2>2. ASSUME NEW h \in Handlers, Call(h) \/ Continue(h) \/ Die(h)
        PROVE  EveryPostCounted'
    BY <2>2, CallCounts, QuietCounts, PostCounts, RecordCounts DEF Continue
  <2> QED
    BY <2>1, <2>2 DEF Next
<1> QED
  BY <1>1, <1>2, Invariance, PTL DEF Spec
-----------------------------------------------------------------------------
(***************************************************************************)
(* The refinement                                                          *)
(***************************************************************************)
\* The history as a function, which Promise knows as claim.
History == [d \in Ids |-> Claim(deliveries, d)]

\* What a row makes of the claim.
LEMMA ClaimOfRow ==
  ASSUME TypeOK, NEW d \in DOMAIN deliveries
  PROVE  /\ Claim(deliveries, d) \in Promise!Shown \union {"gone"}
         /\ Kept(d) => Claim(deliveries, d) \in Promise!Shown
  BY DEF Claim, Says, Kept, Promise!Shown

\* A step that leaves rows and acceptances alone is none of the history.
LEMMA QuietStutters ==
  ASSUME UNCHANGED <<deliveries, accepted>>
  PROVE  UNCHANGED <<accepted, History>>
  BY DEF History, Claim, Says, Kept

\* The initial history is empty.
LEMMA PromiseInit == Init => Promise!Init
  BY DEF Init, Promise!Init, Claim, Says

\* A deletion forgets the rows of the webhook.
LEMMA DeleteForgets ==
  ASSUME IInv, NEW h \in Handlers, DeleteHook(h)
  PROVE  \E ds \in SUBSET Ids : Promise!Forget(ds)
<1>1. PICK w \in Hooks :
        /\ deliveries' = [d \in DOMAIN deliveries |->
              IF deliveries[d].hook = w
              THEN [deliveries[d] EXCEPT !.kept = FALSE] ELSE deliveries[d]]
        /\ UNCHANGED accepted
  BY DEF DeleteHook
<1> DEFINE ds == {d \in Ids : d \in DOMAIN deliveries /\ deliveries[d].hook = w}
<1>2. /\ DOMAIN deliveries' = DOMAIN deliveries
      /\ \A d \in DOMAIN deliveries :
            /\ deliveries'[d].success = deliveries[d].success
            /\ deliveries'[d].kept <=> Kept(d) /\ deliveries[d].hook # w
  BY <1>1, DeleteHookRows DEF IInv
<1>3. TypeOK'
  BY DeleteHookStep DEF IInv
<1>4. ASSUME NEW d \in Ids
      PROVE  Claim(deliveries', d) = IF d \in ds /\ Claim(deliveries, d) \in Promise!Shown
                         THEN "gone" ELSE Claim(deliveries, d)
  <2>1. CASE d \notin DOMAIN deliveries
    BY <1>2, <2>1 DEF Claim, Says
  <2>2. CASE d \in ds
    <3>1. ~deliveries'[d].kept
      BY <1>2, <2>2
    <3>2. Claim(deliveries', d) = "gone"
      BY <1>2, <2>2, <3>1 DEF Claim, Says, Kept
    <3>3. Claim(deliveries, d) = "gone" \/ Claim(deliveries, d) \in Promise!Shown
      BY <2>2, ClaimOfRow DEF IInv
    <3> QED
      BY <2>2, <3>2, <3>3
  <2>3. CASE d \in DOMAIN deliveries /\ d \notin ds
    <3>1. deliveries'[d].kept <=> Kept(d)
      BY <1>2, <2>3
    <3>2. Claim(deliveries', d) = Claim(deliveries, d)
      BY <1>2, <2>3, <3>1 DEF Claim, Says, Kept
    <3> QED
      BY <2>3, <3>2
  <2> QED
    BY <2>1, <2>2, <2>3
<1> HIDE DEF ds
<1>5. Promise!Forget(ds)
  BY <1>1, <1>4 DEF Promise!Forget
<1> QED
  BY <1>5 DEF ds

\* A new row opens a delivery.
LEMMA InsertOpens ==
  ASSUME IInv, NEW h \in Handlers, DeliverInsert(h)
  PROVE  \/ \E d \in Ids : Promise!Open(d)
         \/ UNCHANGED <<deliveries, accepted>>
<1>1. \/ UNCHANGED <<deliveries, accepted>>
      \/ /\ Len(deliveries) < MaxDeliveries /\ UNCHANGED accepted
         /\ deliveries' = Append(deliveries,
              [hook |-> job[h].hook, event |-> job[h].event, attempts |-> 0,
               success |-> None, delivered |-> FALSE, kept |-> TRUE])
  BY DEF DeliverInsert
<1>2. CASE /\ Len(deliveries) < MaxDeliveries /\ UNCHANGED accepted
           /\ deliveries' = Append(deliveries,
                [hook |-> job[h].hook, event |-> job[h].event, attempts |-> 0,
                 success |-> None, delivered |-> FALSE, kept |-> TRUE])
  <2> DEFINE row == [hook |-> job[h].hook, event |-> job[h].event, attempts |-> 0,
                     success |-> None, delivered |-> FALSE, kept |-> TRUE]
             n == Len(deliveries) + 1
  <2>1. row.success = None /\ row.kept
    OBVIOUS
  <2> HIDE DEF row
  <2>2. /\ DOMAIN deliveries = 1..Len(deliveries) /\ DOMAIN deliveries' = 1..n
        /\ Len(deliveries) \in Nat /\ n \in Ids
        /\ \A d \in DOMAIN deliveries : deliveries'[d] = deliveries[d]
        /\ deliveries'[n] = row
    <3>1. deliveries' = Append(deliveries, row)
      BY <1>2 DEF row
    <3>2. deliveries \in Seq(DeliveryRow)
      BY DEF IInv, TypeOK
    <3>3. Len(deliveries) \in Nat /\ DOMAIN deliveries = 1..Len(deliveries)
      BY <3>2
    <3> QED
      BY <1>2, <3>1, <3>2, <3>3, ConstantsAssumption DEF Ids
  <2>3. Claim(deliveries, n) = "none"
    BY <2>2 DEF Claim, Says
  <2>4. Claim(deliveries', n) = "open"
    BY <2>1, <2>2 DEF Claim, Says, Kept
  <2>5. \A d \in Ids \ {n} : Claim(deliveries', d) = Claim(deliveries, d)
    BY <2>2 DEF Claim, Says, Kept, Ids
  <2>6. Promise!Open(n)
    BY <1>2, <2>2, <2>3, <2>4, <2>5 DEF Promise!Open
  <2> QED
    BY <2>2, <2>6
<1> QED
  BY <1>1, <1>2

\* A request that is accepted is one that was opened.
LEMMA PostAccepts ==
  ASSUME IInv, NEW h \in Handlers, Post(h)
  PROVE  \/ \E d \in Ids : Promise!Accept(d)
         \/ UNCHANGED <<deliveries, accepted>>
<1> DEFINE d == job[h].delivery
<1>1. /\ d \in DOMAIN deliveries /\ UNCHANGED deliveries
      /\ accepted' \in {accepted, accepted \union {d}}
  BY PostEffect
<1>2. d \in Ids
  BY <1>1, ConstantsAssumption DEF IInv, TypeOK, Backed, Ids
<1>3. Claim(deliveries, d) # "none"
  BY <1>1, ClaimOfRow DEF IInv, Promise!Shown
<1> HIDE DEF d
<1>4. \A c \in Ids : Claim(deliveries', c) = Claim(deliveries, c)
  BY <1>1 DEF Claim, Says, Kept
<1> QED
  BY <1>1, <1>2, <1>3, <1>4 DEF Promise!Accept

\* An outcome is claimed of a row that is shown, a success of an accepted delivery.
LEMMA RecordClaims ==
  ASSUME IInv, NEW h \in Handlers, Record(h)
  PROVE  \/ \E d \in Ids : Promise!ClaimSuccess(d) \/ Promise!ClaimFailure(d)
         \/ UNCHANGED <<accepted, History>>
<1> DEFINE d == job[h].delivery
<1>1. /\ job[h].pc = "record" /\ d \in DOMAIN deliveries /\ UNCHANGED accepted
      /\ DOMAIN deliveries' = DOMAIN deliveries
      /\ \A c \in DOMAIN deliveries :
            deliveries'[c] = IF c = d /\ Kept(c)
                             THEN Outcome(deliveries[c], job[h]) ELSE deliveries[c]
  BY RecordEffect
<1>2. (job[h].answer = "ok" => d \in accepted) /\ d \in Ids
  BY <1>1, ConstantsAssumption
     DEF IInv, LocalsOK, LocalOK, TypeOK, Backed, Ids
<1>3. /\ Outcome(deliveries[d], job[h]).kept = deliveries[d].kept
      /\ Outcome(deliveries[d], job[h]).success = (job[h].answer = "ok")
  BY <1>1, RowTypes, OutcomeRow DEF IInv, TypeOK
<1>4. TypeOK'
  BY RecordStep DEF IInv
<1> HIDE DEF d
<1>5. \A c \in Ids \ {d} : Claim(deliveries', c) = Claim(deliveries, c)
  BY <1>1 DEF Claim, Says, Kept
<1>6. CASE ~Kept(d)
  BY <1>1, <1>6 DEF History, Claim, Says, Kept
<1>7. CASE Kept(d) /\ job[h].answer = "ok"
  <2>1. deliveries'[d].kept /\ deliveries'[d].success = TRUE
    BY <1>1, <1>3, <1>7 DEF Kept
  <2>2. Claim(deliveries', d) = "ok"
    BY <1>1, <2>1, ConstantsAssumption DEF Claim, Says, Kept
  <2>3. Claim(deliveries, d) \in Promise!Shown
    BY <1>1, <1>7, ClaimOfRow DEF IInv
  <2>4. Promise!ClaimSuccess(d)
    BY <1>1, <1>2, <1>5, <1>7, <2>2, <2>3 DEF Promise!ClaimSuccess
  <2> QED
    BY <1>2, <2>4
<1>8. CASE Kept(d) /\ job[h].answer # "ok"
  <2>1. deliveries'[d].kept /\ deliveries'[d].success = FALSE
    BY <1>1, <1>3, <1>8 DEF Kept
  <2>2. Claim(deliveries', d) = "failed"
    BY <1>1, <2>1, ConstantsAssumption DEF Claim, Says, Kept
  <2>3. Claim(deliveries, d) \in Promise!Shown
    BY <1>1, <1>8, ClaimOfRow DEF IInv
  <2>4. Promise!ClaimFailure(d)
    BY <1>1, <1>2, <1>5, <2>2, <2>3 DEF Promise!ClaimFailure
  <2> QED
    BY <1>2, <2>4
<1> QED
  BY <1>6, <1>7, <1>8

\* The rows keep the promise of the history: a delivery shown as successful was
\* accepted.
THEOREM PromiseKept == Spec => KeepsPromise
<1>1. IInv /\ [Next]_vars => [Promise!Next]_<<accepted, History>>
  <2> SUFFICES ASSUME IInv, [Next]_vars
               PROVE  Promise!Next \/ UNCHANGED <<accepted, History>>
    OBVIOUS
  <2>1. CASE UNCHANGED vars
    BY <2>1, QuietStutters DEF vars
  <2>2. ASSUME NEW h \in Handlers, Call(h)
        PROVE  Promise!Next \/ UNCHANGED <<accepted, History>>
    <3>1. CASE DeleteHook(h)
      BY <3>1, DeleteForgets DEF Promise!Next
    <3>2. CASE ~DeleteHook(h)
      <4>1. UNCHANGED <<deliveries, accepted>>
        BY <2>2, <3>2
           DEF Call, CreateHook, UpdateHook, TestCall, BroadcastCall, RedeliverCall
      <4> QED
        BY <4>1, QuietStutters
    <3> QED
      BY <3>1, <3>2
  <2>3. ASSUME NEW h \in Handlers, DeliverRead(h) \/ Die(h)
        PROVE  UNCHANGED <<accepted, History>>
    <3>1. UNCHANGED <<deliveries, accepted>>
      BY <2>3 DEF DeliverRead, Die
    <3> QED
      BY <3>1, QuietStutters
  <2>4. ASSUME NEW h \in Handlers, DeliverInsert(h) \/ Post(h)
        PROVE  Promise!Next \/ UNCHANGED <<accepted, History>>
    <3>1. (\E d \in Ids : Promise!Open(d) \/ Promise!Accept(d))
          \/ UNCHANGED <<deliveries, accepted>>
      BY <2>4, InsertOpens, PostAccepts
    <3> QED
      BY <3>1, QuietStutters DEF Promise!Next
  <2>5. ASSUME NEW h \in Handlers, Record(h)
        PROVE  Promise!Next \/ UNCHANGED <<accepted, History>>
    BY <2>5, RecordClaims DEF Promise!Next
  <2> QED
    BY <2>1, <2>2, <2>3, <2>4, <2>5 DEF Next, Continue
<1> QED
  BY <1>1, PromiseInit, Invariance, PTL DEF Spec, KeepsPromise, Promise!Spec, History
\* A success that the history shows is a success: what the promise is for.
THEOREM SuccessHonest == Spec => []Promise!Honest
<1>1. IInv => Promise!Honest
  BY DEF IInv, Backed, Promise!Honest, Claim, Says
<1> QED
  BY <1>1, Invariance, PTL
-----------------------------------------------------------------------------
(***************************************************************************)
(* Deliveries without an outcome                                           *)
(*                                                                         *)
(* A delivery is committed before its request and its outcome afterwards.  *)
(* What stays open has a worker on it, or one that died.                   *)
(***************************************************************************)
Sender(h, d) == job[h].delivery = d /\ job[h].pc \in {"post", "record", "dead"}

OpenUnderWay ==
    \A d \in DOMAIN deliveries :
        (Kept(d) /\ deliveries[d].success = None) => \E h \in Handlers : Sender(h, d)

OutcomesStay ==
    [][\A d \in DOMAIN deliveries :
          deliveries[d].success # None => deliveries'[d].success # None]_vars

\* A step of h writes no outcome but that of the delivery it records, and opens no
\* delivery but the one it is going to send.
RowsOf(h) ==
    /\ \A d \in DOMAIN deliveries :
          /\ d \in DOMAIN deliveries'
          /\ deliveries'[d].kept => deliveries[d].kept
          /\ \/ deliveries'[d].success = deliveries[d].success
             \/ deliveries'[d].success # None
          /\ (Record(h) /\ d = job[h].delivery /\ deliveries[d].kept)
                => deliveries'[d].success # None
    /\ \A d \in DOMAIN deliveries' \ DOMAIN deliveries :
          job'[h].delivery = d /\ job'[h].pc = "post"

\* A worker that has begun is not called, and a dead one does nothing.
LEMMA CalledIsIdle ==
  ASSUME NEW h \in Handlers, Call(h)
  PROVE  job[h].pc = "idle"
  BY DEF Call, CreateHook, UpdateHook, DeleteHook, TestCall, BroadcastCall, RedeliverCall,
     Begin

\* A step moves one worker.
LEMMA OneMoves ==
  ASSUME IInv, NEW h \in Handlers, Call(h) \/ Continue(h) \/ Die(h)
  PROVE  OthersWait(h)
<1>1. ASSUME NEW j, job' = [job EXCEPT ![h] = j]
      PROVE  OthersWait(h)
  BY <1>1 DEF IInv, TypeOK, OthersWait
<1>2. CASE Call(h)
  <2>1. \E j : job' = [job EXCEPT ![h] = j]
    BY <1>2 DEF Call, CreateHook, UpdateHook, DeleteHook, TestCall, BroadcastCall,
       RedeliverCall, Begin
  <2> QED  BY <1>1, <2>1
<1>3. CASE Post(h) \/ Record(h)
  BY <1>3, PostEffect, RecordEffect
<1>4. CASE DeliverRead(h) \/ DeliverInsert(h) \/ Die(h)
  BY <1>1, <1>4 DEF DeliverRead, DeliverInsert, Die, Goto, Finish, IInv, TypeOK, OthersWait
<1> QED  BY <1>2, <1>3, <1>4 DEF Continue

\* What a step does to the rows.
LEMMA RowsWritten ==
  ASSUME IInv, NEW h \in Handlers, Call(h) \/ Continue(h) \/ Die(h)
  PROVE  RowsOf(h)
<1>1. CASE UNCHANGED deliveries /\ ~Record(h)
  BY <1>1 DEF RowsOf
<1>2. CASE Record(h)
  <2>1. PICK d : d = job[h].delivery
    OBVIOUS
  <2>2. /\ d \in DOMAIN deliveries /\ DOMAIN deliveries' = DOMAIN deliveries
        /\ \A c \in DOMAIN deliveries :
              deliveries'[c] = IF c = d /\ Kept(c) THEN Outcome(deliveries[c], job[h])
                               ELSE deliveries[c]
    BY <1>2, <2>1, RecordEffect
  <2>3. job[h] \in Job /\ deliveries[d] \in DeliveryRow
    BY <2>2, RowTypes DEF IInv, TypeOK
  <2>4. /\ Outcome(deliveries[d], job[h]).kept = deliveries[d].kept
        /\ Outcome(deliveries[d], job[h]).success \in BOOLEAN
    BY <2>3, OutcomeRow
  <2>5. Outcome(deliveries[d], job[h]).success # None
    BY <2>4, ConstantsAssumption
  <2> QED  BY <2>1, <2>2, <2>4, <2>5 DEF RowsOf, Kept
<1>3. CASE DeleteHook(h)
  <2>1. PICK w \in Hooks :
          deliveries' = [d \in DOMAIN deliveries |->
                IF deliveries[d].hook = w
                THEN [deliveries[d] EXCEPT !.kept = FALSE] ELSE deliveries[d]]
    BY <1>3 DEF DeleteHook
  <2>2. /\ DOMAIN deliveries' = DOMAIN deliveries
        /\ \A d \in DOMAIN deliveries : deliveries'[d] =
                IF deliveries[d].hook = w
                THEN [deliveries[d] EXCEPT !.kept = FALSE] ELSE deliveries[d]
    BY <2>1
  <2>3. \A d \in DOMAIN deliveries : deliveries[d] \in DeliveryRow
    BY RowTypes DEF IInv
  <2>4. ~Record(h)
    BY <1>3, CalledIsIdle DEF Call, Record, At
  <2> QED  BY <2>2, <2>3, <2>4 DEF RowsOf, DeliveryRow
<1>4. CASE DeliverInsert(h)
  <2>1. ~Record(h)
    BY <1>4 DEF DeliverInsert, Record, At
  <2>2. CASE \E row : /\ deliveries' = Append(deliveries, row)
                      /\ job' = [job EXCEPT ![h] = [@ EXCEPT !.pc = "post",
                                                  !.delivery = Len(deliveries) + 1]]
    <3>1. /\ \A d \in DOMAIN deliveries :
                d \in DOMAIN deliveries' /\ deliveries'[d] = deliveries[d]
          /\ \A d \in DOMAIN deliveries' \ DOMAIN deliveries : d = Len(deliveries) + 1
      BY <2>2 DEF IInv, TypeOK
    <3>2. job'[h].delivery = Len(deliveries) + 1 /\ job'[h].pc = "post"
      BY <2>2 DEF IInv, TypeOK, Job
    <3> QED  BY <2>1, <3>1, <3>2 DEF RowsOf
  <2> QED  BY <1>1, <1>4, <2>1, <2>2 DEF DeliverInsert
<1>5. CASE CreateHook(h) \/ UpdateHook(h) \/ TestCall(h) \/ BroadcastCall(h)
           \/ RedeliverCall(h) \/ DeliverRead(h) \/ Post(h) \/ Die(h)
  <2>1. UNCHANGED deliveries
    BY <1>5 DEF CreateHook, UpdateHook, TestCall, BroadcastCall, RedeliverCall, DeliverRead,
       Post, Die
  <2> QED  BY <1>1, <1>2, <2>1
<1> QED  BY <1>2, <1>3, <1>4, <1>5 DEF Call, Continue

\* The worker that moves stays with its delivery until it records the outcome.
LEMMA SenderStays ==
  ASSUME IInv, NEW h \in Handlers, Call(h) \/ Continue(h) \/ Die(h),
         NEW d, Sender(h, d), ~Record(h)
  PROVE  Sender(h, d)'
<1>1. ~Call(h)
  BY CalledIsIdle DEF Sender
<1>2. CASE Post(h)
  BY <1>2, PostEffect DEF Sender
<1>3. CASE Die(h)
  BY <1>3 DEF Die, Goto, Sender, IInv, TypeOK, Job
<1>4. ~DeliverRead(h) /\ ~DeliverInsert(h)
  BY DEF Sender, DeliverRead, DeliverInsert, At
<1> QED  BY <1>1, <1>2, <1>3, <1>4 DEF Continue

\* A step leaves no delivery open without a worker.
LEMMA OpenStep ==
  ASSUME IInv, OpenUnderWay, NEW h \in Handlers, Call(h) \/ Continue(h) \/ Die(h)
  PROVE  OpenUnderWay'
<1> SUFFICES ASSUME NEW d \in DOMAIN deliveries', deliveries'[d].kept,
                    deliveries'[d].success = None
             PROVE  \E k \in Handlers : Sender(k, d)'
  BY DEF OpenUnderWay, Kept
<1>1. CASE d \notin DOMAIN deliveries
  BY <1>1, RowsWritten DEF RowsOf, Sender
<1>2. CASE d \in DOMAIN deliveries
  <2>1. deliveries[d].kept /\ deliveries[d].success = None
    BY <1>2, RowsWritten DEF RowsOf
  <2>2. PICK k \in Handlers : Sender(k, d)
    BY <1>2, <2>1 DEF OpenUnderWay, Kept
  <2>3. CASE k # h
    <3>1. job'[k] = job[k]
      BY <2>3, OneMoves DEF OthersWait
    <3> QED  BY <2>2, <3>1 DEF Sender
  <2>4. CASE k = h
    <3>1. ~Record(h)
      BY <1>2, <2>1, <2>2, <2>4, RowsWritten DEF RowsOf, Sender
    <3> QED  BY <2>2, <2>4, <3>1, SenderStays
  <2> QED  BY <2>3, <2>4
<1> QED  BY <1>1, <1>2

\* A delivery in the history that has no outcome is being sent, or its worker died
\* after the row was committed: none is left open by a worker that lives, however
\* many send it, fail or find it deleted.
THEOREM OpenUnderWayTheorem == Spec => []OpenUnderWay
<1>1. Init => OpenUnderWay
  BY DEF Init, OpenUnderWay
<1>2. IInv /\ OpenUnderWay /\ [Next]_vars => OpenUnderWay'
  <2> SUFFICES ASSUME IInv, OpenUnderWay, [Next]_vars
               PROVE  OpenUnderWay'
    OBVIOUS
  <2>1. CASE UNCHANGED vars
    BY <2>1 DEF vars, OpenUnderWay, Kept, Sender
  <2> QED  BY <2>1, OpenStep DEF Next
<1> QED  BY <1>1, <1>2, Invariance, PTL DEF Spec

\* An outcome is never taken back: another one may replace it, and the history never
\* shows as open what has been answered.
THEOREM OutcomesStayTheorem == Spec => OutcomesStay
<1>1. IInv /\ [Next]_vars =>
        [\A d \in DOMAIN deliveries :
            deliveries[d].success # None => deliveries'[d].success # None]_vars
  <2> SUFFICES ASSUME IInv, [Next]_vars, NEW d \in DOMAIN deliveries,
                      deliveries[d].success # None, vars' # vars
               PROVE  deliveries'[d].success # None
    OBVIOUS
  <2>1. PICK h \in Handlers : Call(h) \/ Continue(h) \/ Die(h)
    BY DEF Next
  <2> QED  BY <2>1, RowsWritten DEF RowsOf
<1> QED  BY <1>1, Invariance, PTL DEF Spec, OutcomesStay
=============================================================================
