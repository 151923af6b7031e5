--------------------------- MODULE MCAccessReview ---------------------------
(***************************************************************************)
(* Instances of AccessReview for TLC: one group that is due on the first   *)
(* day.                                                                    *)
(***************************************************************************)
EXTENDS AccessReview, TLC

CONSTANTS ann, bob, eng

OneMember == {<<<<eng, ann>>>>}

\* A member, or a member who was added twice.
OneOrTwice == {<<<<eng, ann>>>>, <<<<eng, ann>>, <<eng, ann>>>>}

\* Due on the first day, with decisions applied when the review is completed.
DueGroup == {[g \in Groups |-> [enabled |-> TRUE, auto |-> TRUE, next |-> 0]]}
=============================================================================
