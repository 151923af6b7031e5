--------------------------- MODULE DeliveryPromise ---------------------------
(***************************************************************************)
(* What the delivery history of apps/api/services/webhooks promises to the *)
(* person who reads it, without processes, rows or retries: a delivery     *)
(* that is shown as successful was accepted by the receiver.  A failure    *)
(* promises nothing: the answer may have been lost on its way back.        *)
(***************************************************************************)
EXTENDS Naturals

CONSTANT Deliveries     \* ids of deliveries

VARIABLES
    accepted,   \* deliveries the receiver has accepted
    claim       \* what the history says of each delivery

Claims == {"none", "open", "ok", "failed", "gone"}
Shown == {"open", "ok", "failed"}

Init ==
    /\ accepted = {}
    /\ claim = [d \in Deliveries |-> "none"]

Open(d) ==
    /\ claim[d] = "none"
    /\ claim' = [claim EXCEPT ![d] = "open"]
    /\ UNCHANGED accepted

\* The receiver accepts a delivery that was opened, perhaps again, perhaps after
\* the history has forgotten it.
Accept(d) ==
    /\ claim[d] # "none"
    /\ accepted' = accepted \union {d}
    /\ UNCHANGED claim

ClaimSuccess(d) ==
    /\ claim[d] \in Shown
    /\ d \in accepted
    /\ claim' = [claim EXCEPT ![d] = "ok"]
    /\ UNCHANGED accepted

ClaimFailure(d) ==
    /\ claim[d] \in Shown
    /\ claim' = [claim EXCEPT ![d] = "failed"]
    /\ UNCHANGED accepted

\* A webhook is deleted with its history.
Forget(ds) ==
    /\ claim' = [d \in Deliveries |->
                    IF d \in ds /\ claim[d] \in Shown THEN "gone" ELSE claim[d]]
    /\ UNCHANGED accepted

Next ==
    \/ \E d \in Deliveries : Open(d) \/ Accept(d) \/ ClaimSuccess(d) \/ ClaimFailure(d)
    \/ \E ds \in SUBSET Deliveries : Forget(ds)

Spec == Init /\ [][Next]_<<accepted, claim>>

\* A success that is shown is a success.
Honest == \A d \in Deliveries : claim[d] = "ok" => d \in accepted
=============================================================================
