--------------------------- MODULE MCGroupAccess ---------------------------
(***************************************************************************)
(* Instances of GroupAccess for TLC: one group people ask to join and, for *)
(* some group tables, a second group whose members own the first.          *)
(***************************************************************************)
EXTENDS GroupAccess, TLC

CONSTANTS ann, bob, cat, eng, leads

MCIdentities == {ann, bob, cat}
TwoIdentities == {ann, bob}
MCGroups == {eng, leads}

Row(owner, ownerGroup, mode, threshold, synced) ==
    [owner |-> owner, ownerGroup |-> ownerGroup, mode |-> mode,
     threshold |-> threshold, synced |-> synced]

\* leads has no owner of its own.
Tables(rows) == {eng :> row @@ leads :> Row(None, None, "any", 1, FALSE) : row \in rows}

\* bob owns eng, alone or beside the members of leads; in mode "unset" the column is
\* none of the three modes.
SerialGroups ==
    Tables({Row(None, leads, "all", 1, FALSE), Row(bob, leads, "threshold", 2, TRUE),
            Row(bob, None, "unset", 1, FALSE)})
ConcurrentGroups ==
    Tables({Row(None, leads, "any", 1, TRUE)})
AllModeGroups ==
    Tables({Row(None, leads, "all", 1, FALSE), Row(None, leads, "threshold", 2, FALSE)})

LeadsMembers == <<<<leads, bob>>>>
TwoLeads == <<<<leads, bob>>, <<leads, cat>>>>

NoUpdate == [owner |-> None, ownerGroup |-> None, mode |-> None,
             threshold |-> None, synced |-> None]
SerialUpdates ==
    {[NoUpdate EXCEPT !.owner = cat],
     [NoUpdate EXCEPT !.mode = "threshold", !.threshold = 0]}
NoUpdates == {}

NeverExpires == {None}
SomeExpire == {None, 0}
=============================================================================
