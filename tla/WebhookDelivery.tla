--------------------------- MODULE WebhookDelivery ---------------------------
(***************************************************************************)
(* Webhooks and the history of their deliveries:                           *)
(* apps/api/services/webhooks/service.py.                                  *)
(*                                                                         *)
(* A delivery is a row that is committed before the HTTP request and       *)
(* updated after it; between the two nothing is locked, another worker may *)
(* send the same delivery again, and the webhook may be switched off or    *)
(* deleted with its history.  job[h] holds the local variables of an API   *)
(* worker; a worker that dies stays dead with the locals it died with.     *)
(*                                                                         *)
(* The receiver is outside: sent and accepted say what reached it.  The    *)
(* request's body, headers and signature are left out, and notification    *)
(* rules, which keep no history.                                           *)
(***************************************************************************)
EXTENDS Naturals, Sequences, FiniteSets

CONSTANTS
    Hooks,          \* ids of webhooks
    Events,         \* event types people subscribe to
    TestEvent,      \* what an unsubscribed webhook is tested with
    None,           \* NULL
    Handlers,       \* API workers
    Mortal,         \* the workers that may die between two of their steps
    EventSets,      \* lists of events that callers send
    MaxCalls,       \* bound: operations begun in a behaviour
    MaxDeliveries   \* bound: delivery rows

Answers == {"ok", "refused", "error"}
HookStates == {"unused", "live", "deleted"}
Places == {"idle", "deliver_read", "deliver_insert", "post", "record", "dead"}
Ids == 1..MaxDeliveries

HookRow == [state: HookStates, enabled: BOOLEAN, events: SUBSET Events]

\* kept: the row is still there; delivered: delivered_at is set.
DeliveryRow ==
    [hook: Hooks, event: Events, attempts: Nat, success: BOOLEAN \union {None},
     delivered: BOOLEAN, kept: BOOLEAN]

Job ==
    [pc: Places, hook: Hooks \union {None}, event: Events \union {TestEvent, None},
     delivery: Nat, again: BOOLEAN, posted: BOOLEAN, answer: Answers \union {None}]

ASSUME ConstantsAssumption ==
    /\ None \notin Hooks /\ None \notin BOOLEAN /\ None \notin Answers
    /\ TestEvent \notin Events
    /\ EventSets \subseteq SUBSET Events
    /\ IsFiniteSet(Handlers) /\ Mortal \subseteq Handlers
    /\ MaxCalls \in Nat /\ MaxDeliveries \in Nat

VARIABLES
    hooks,          \* webhooks
    deliveries,     \* webhook_deliveries, in order of id
    sent,           \* per delivery, the requests made
    accepted,       \* the deliveries a receiver has accepted
    job,            \* the workers
    calls           \* operations begun, for MaxCalls

vars == <<hooks, deliveries, sent, accepted, job, calls>>

Idle ==
    [pc |-> "idle", hook |-> None, event |-> None, delivery |-> 0,
     again |-> FALSE, posted |-> FALSE, answer |-> None]

Init ==
    /\ hooks = [w \in Hooks |-> [state |-> "unused", enabled |-> FALSE, events |-> {}]]
    /\ deliveries = <<>>
    /\ sent = <<>>
    /\ accepted = {}
    /\ job = [h \in Handlers |-> Idle]
    /\ calls = 0

-----------------------------------------------------------------------------
Live(w) == hooks[w].state = "live"
Kept(d) == deliveries[d].kept

At(h, place) == job[h].pc = place /\ UNCHANGED calls
Goto(h, place) == job' = [job EXCEPT ![h].pc = place]
Finish(h) == job' = [job EXCEPT ![h] = Idle]

Begin(h, j) ==
    /\ job[h].pc = "idle"
    /\ calls < MaxCalls
    /\ calls' = calls + 1
    /\ job' = [job EXCEPT ![h] = j]

(***************************************************************************)
(* create_webhook, update_webhook and delete_webhook                       *)
(***************************************************************************)
CreateHook(h) ==
    \E w \in Hooks, es \in EventSets \ {{}} :
        /\ hooks[w].state = "unused"
        /\ Begin(h, Idle)
        /\ hooks' = [hooks EXCEPT ![w] = [state |-> "live", enabled |-> TRUE,
                                          events |-> es]]
        /\ UNCHANGED <<deliveries, sent, accepted>>

\* Unlike create_webhook, the update takes an empty list.
UpdateHook(h) ==
    \E w \in Hooks, on \in BOOLEAN, es \in EventSets :
        /\ Live(w)
        /\ Begin(h, Idle)
        /\ hooks' = [hooks EXCEPT ![w].enabled = on, ![w].events = es]
        /\ UNCHANGED <<deliveries, sent, accepted>>

\* Slip: the deliveries with an answer are kept.
DeleteHook_slip(h) ==
    \E w \in Hooks :
        /\ Live(w)
        /\ Begin(h, Idle)
        /\ hooks' = [hooks EXCEPT ![w].state = "deleted"]
        /\ deliveries' = [d \in DOMAIN deliveries |->
              IF deliveries[d].hook = w /\ deliveries[d].success = None
              THEN [deliveries[d] EXCEPT !.kept = FALSE] ELSE deliveries[d]]
        /\ UNCHANGED <<sent, accepted>>

DeleteHook(h) ==
    \E w \in Hooks :
        /\ Live(w)
        /\ Begin(h, Idle)
        /\ hooks' = [hooks EXCEPT ![w].state = "deleted"]
        /\ deliveries' = [d \in DOMAIN deliveries |->
              IF deliveries[d].hook = w
              THEN [deliveries[d] EXCEPT !.kept = FALSE] ELSE deliveries[d]]
        /\ UNCHANGED <<sent, accepted>>

(***************************************************************************)
(* test_webhook, which calls deliver_webhook with an event of its own; and *)
(* broadcast_event, whose query compares a column with True by identity:   *)
(* that is False for every row, and no webhook is called.                  *)
(***************************************************************************)
TestCall(h) ==
    \E w \in Hooks :
        /\ Live(w)
        /\ \E e \in IF hooks[w].events = {} THEN {TestEvent} ELSE hooks[w].events :
              Begin(h, [Idle EXCEPT !.pc = "deliver_read", !.hook = w, !.event = e])
        /\ UNCHANGED <<hooks, deliveries, sent, accepted>>

BroadcastCall(h) ==
    /\ Begin(h, Idle)
    /\ UNCHANGED <<hooks, deliveries, sent, accepted>>

\* Slip: an unsubscribed event is delivered too.
DeliverRead_slip(h) ==
    /\ At(h, "deliver_read")
    /\ IF Live(job[h].hook) /\ hooks[job[h].hook].enabled
       THEN Goto(h, "deliver_insert") ELSE Finish(h)
    /\ UNCHANGED <<hooks, deliveries, sent, accepted>>

DeliverRead(h) ==
    LET w == job[h].hook
    IN  /\ At(h, "deliver_read")
        /\ IF Live(w) /\ hooks[w].enabled /\ job[h].event \in hooks[w].events
           THEN Goto(h, "deliver_insert") ELSE Finish(h)
        /\ UNCHANGED <<hooks, deliveries, sent, accepted>>

\* A row that names a deleted webhook is refused by its foreign key.
DeliverInsert(h) ==
    /\ At(h, "deliver_insert")
    /\ \/ /\ Live(job[h].hook)
          /\ Len(deliveries) < MaxDeliveries
          /\ deliveries' = Append(deliveries,
               [hook |-> job[h].hook, event |-> job[h].event, attempts |-> 0,
                success |-> None, delivered |-> FALSE, kept |-> TRUE])
          /\ sent' = Append(sent, 0)
          /\ job' = [job EXCEPT ![h] = [@ EXCEPT !.pc = "post",
                                                 !.delivery = Len(deliveries) + 1]]
       \/ /\ ~Live(job[h].hook)
          /\ Finish(h)
          /\ UNCHANGED <<deliveries, sent>>
    /\ UNCHANGED <<hooks, accepted>>

\* Slip: the payload is kept in the worker's cache and the row not looked for.
RedeliverCall_slip(h) ==
    \E d \in DOMAIN deliveries :
        /\ Begin(h, [Idle EXCEPT !.pc = "post", !.hook = deliveries[d].hook,
                                 !.event = deliveries[d].event, !.delivery = d,
                                 !.again = TRUE])
        /\ UNCHANGED <<hooks, deliveries, sent, accepted>>

\* redeliver_webhook: neither the state of the webhook nor the outcome of the
\* delivery is asked for.
RedeliverCall(h) ==
    \E d \in DOMAIN deliveries :
        /\ Kept(d)
        /\ Begin(h, [Idle EXCEPT !.pc = "post", !.hook = deliveries[d].hook,
                                 !.event = deliveries[d].event, !.delivery = d,
                                 !.again = TRUE])
        /\ UNCHANGED <<hooks, deliveries, sent, accepted>>

(***************************************************************************)
(* _attempt_delivery: the request, and the transaction that records it.    *)
(***************************************************************************)
\* The request is made.  It is accepted and acknowledged, it is refused, it never
\* arrives, or it is accepted and the answer never does.
Post(h) ==
    LET d == job[h].delivery
        arrives(answer) ==
            /\ sent' = [sent EXCEPT ![d] = @ + 1]
            /\ job' = [job EXCEPT ![h] = [@ EXCEPT !.pc = "record", !.posted = TRUE,
                                                   !.answer = answer]]
    IN  /\ At(h, "post")
        /\ \/ /\ \E answer \in {"ok", "error"} : arrives(answer)
              /\ accepted' = accepted \union {d}
           \/ /\ \E answer \in {"refused", "error"} : arrives(answer)
              /\ UNCHANGED accepted
        /\ UNCHANGED <<hooks, deliveries>>

\* Slip: the counter goes to 1 or 2, whichever the worker expects.
Outcome_slip(row, j) ==
    [row EXCEPT !.attempts = IF j.again THEN 2 ELSE 1, !.success = (j.answer = "ok")]

\* Slip: a timeout is taken for an answer.
Outcome_hopeful_slip(row, j) ==
    [row EXCEPT !.attempts = @ + 1, !.success = (j.answer # "refused"),
                !.delivered = (j.answer # "refused")]

\* Slip: the exception is logged and leaves the row alone.
Outcome_silent_slip(row, j) ==
    IF j.answer = "error" THEN row
    ELSE [row EXCEPT !.attempts = @ + 1, !.success = (j.answer = "ok")]

\* An exception leaves delivered_at as it was.
Outcome(row, j) ==
    [row EXCEPT !.attempts = @ + 1,
                !.success = (j.answer = "ok"),
                !.delivered = IF j.answer = "error" THEN @ ELSE j.answer = "ok"]

\* The update finds no row when the history has been deleted.
Record(h) ==
    LET d == job[h].delivery
    IN  /\ At(h, "record")
        /\ deliveries' = IF Kept(d)
                         THEN [deliveries EXCEPT ![d] = Outcome(@, job[h])]
                         ELSE deliveries
        /\ Finish(h)
        /\ UNCHANGED <<hooks, sent, accepted>>

Die(h) ==
    /\ h \in Mortal
    /\ job[h].pc \notin {"idle", "dead"}
    /\ Goto(h, "dead")
    /\ UNCHANGED <<hooks, deliveries, sent, accepted, calls>>

Call(h) ==
    \/ CreateHook(h) \/ UpdateHook(h) \/ DeleteHook(h)
    \/ TestCall(h) \/ BroadcastCall(h) \/ RedeliverCall(h)

Continue(h) == DeliverRead(h) \/ DeliverInsert(h) \/ Post(h) \/ Record(h)

Next == \E h \in Handlers : Call(h) \/ Continue(h) \/ Die(h)

Spec == Init /\ [][Next]_vars

\* A worker goes on: the request has a timeout of thirty seconds.
FairSpec == Spec /\ \A h \in Handlers : WF_vars(Continue(h))

-----------------------------------------------------------------------------
(***************************************************************************)
(* Properties                                                              *)
(***************************************************************************)

\* Every row and every worker's locals have their type.
TypeOK ==
    /\ hooks \in [Hooks -> HookRow]
    /\ deliveries \in Seq(DeliveryRow)
    /\ sent \in Seq(Nat) /\ Len(sent) = Len(deliveries)
    /\ accepted \subseteq Nat
    /\ job \in [Handlers -> Job]
    /\ calls \in Nat

\* Requests made for d and not recorded: they are on their way, or their worker
\* has died.
Unrecorded(d) ==
    {h \in Handlers : job[h].delivery = d /\ job[h].posted}

\* Every request is counted once, however many workers send the same
\* delivery at once and whatever becomes of them: attempts lags behind the
\* requests exactly by those not recorded yet.
EveryPostCounted ==
    \A d \in DOMAIN deliveries : Kept(d) =>
        deliveries[d].attempts + Cardinality(Unrecorded(d)) = sent[d]

\* The history has no row of a webhook that is not there, although rows are
\* inserted and updated by workers that read the webhook before it was deleted.
NoOrphans ==
    \A d \in DOMAIN deliveries : Kept(d) => Live(deliveries[d].hook)

\* Worker h is going to send delivery d.
Sending(h, d) == job[h].pc = "post" /\ job[h].delivery = d

\* A deleted history stays deleted and gathers no new requests: what is still sent
\* for it was on its way to the receiver when the webhook was deleted.
DeletedGathersNothing ==
    [][\A d \in DOMAIN deliveries : ~Kept(d) =>
          /\ ~deliveries'[d].kept
          /\ \A h \in Handlers : Sending(h, d)' => Sending(h, d)]_vars

\* When the worker lives, a delivery it is about to send gets an outcome, unless
\* its webhook is deleted meanwhile.
DeliveriesSettle ==
    \A d \in Ids :
        (\E h \in Handlers \ Mortal : Sending(h, d))
        ~> (d \in DOMAIN deliveries /\ (~Kept(d) \/ deliveries[d].success # None))

(***************************************************************************)
(* The history, as its reader sees it                                      *)
(***************************************************************************)
Says(row) ==
    IF ~row.kept THEN "gone"
    ELSE IF row.success = None THEN "open"
    ELSE IF row.success = TRUE THEN "ok" ELSE "failed"

Claim(rows, d) == IF d \in DOMAIN rows THEN Says(rows[d]) ELSE "none"

Promise == INSTANCE DeliveryPromise WITH
    Deliveries <- Ids,
    claim <- [d \in Ids |-> Claim(deliveries, d)]

\* The rows keep the promise of the history: a delivery shown as successful was
\* accepted, with workers that race, die and answers that are lost.
KeepsPromise == Promise!Spec
=============================================================================
