--------------------------- MODULE MCResourceGraph ---------------------------
(***************************************************************************)
(* ResourceGraph on two organizations and two entities, which two handlers *)
(* of either server change.                                                *)
(***************************************************************************)
EXTENDS ResourceGraph, TLC

Entities(parent) ==
    <<[org |-> 1, parent |-> 0], [org |-> 2, parent |-> parent]>>

MCOrgs == {<<0, 0>>, <<0, 1>>}
MCEntities == {Entities(0), Entities(1)}

\* Two rows, the second with a source that need not be there.
MCBulks ==
    {<<[source |-> 1, target |-> 2], [source |-> 3, target |-> 1]>>}

Symmetry == Permutations(Handlers)
=============================================================================
