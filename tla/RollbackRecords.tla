--------------------------- MODULE RollbackRecords ---------------------------
(***************************************************************************)
(* Rollback with a history of what rollback.toml is held to.  Commands read *)
(* that file, change a record of it and write the whole file back, with no  *)
(* lock: of two that overlap, the one that writes last takes back what the  *)
(* other has recorded.  What was recorded before they overlapped is not to  *)
(* be lost with it.                                                         *)
(***************************************************************************)
EXTENDS Rollback

VARIABLE settled    \* settled[v]: the record of v when no command was last half-way
                    \* through rollback.toml, or a lower one that a restore has set

\* Process p has read rollback.toml and not yet written it.
HalfWay(p) == cmd[p].at \in {"rereadbase", "writebase", "writeexact"}

Smaller(m, n) == IF m < n THEN m ELSE n

Settle ==
    settled' =
        IF \A p \in Procs : ~HalfWay(p)'
        THEN base'
        ELSE [v \in Paths |->
                 IF \E p \in Procs : WriteExact(p) /\ cmd[p].path = v
                 THEN Smaller(settled[v], base'[v])
                 ELSE settled[v]]

RecordsInit == Init /\ settled = base
RecordsNext == Next /\ Settle
RecordsSpec == RecordsInit /\ [][RecordsNext]_<<vars, settled>>

\* "Record the highest generation seen for this vault": however many commands and
\* restores overlap afterwards, on this vault or on others of the file, and wherever
\* they die, a record that was there when none was under way is not lowered, except by
\* a restore of that vault.  Only what was recorded while others were half-way can be lost.
RecordsStand == \A v \in Paths : settled[v] <= base[v]
==============================================================================
