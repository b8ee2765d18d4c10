-------------------------------- MODULE FsxTree --------------------------------
(***************************************************************************)
(* Directory trees: functions from the paths below a root, sequences of    *)
(* names, to what is there. IsFolder tells the directories.                *)
(***************************************************************************)
EXTENDS Naturals, Sequences, SequencesExt

CONSTANTS IsFolder(_), Absent

Value(t, p) == IF p \in DOMAIN t THEN t[p] ELSE Absent
IsFile(t, p) == p \in DOMAIN t /\ ~IsFolder(t[p])
Parents(p) == {SubSeq(p, 1, n) : n \in 1..(Len(p) - 1)}
Reachable(t, p) == \A q \in Parents(p) : q \in DOMAIN t /\ IsFolder(t[q])     \* p may be created there
Children(t, p) == {q \in DOMAIN t : Front(q) = p}
Below(t, p) == {q \in DOMAIN t : IsPrefix(p, q)}

Without(t, p) == [q \in DOMAIN t \ Below(t, p) |-> t[q]]
With(t, p, v) == [q \in DOMAIN t \cup {p} |-> IF q = p THEN v ELSE t[q]]
Moved(t, p, to) ==
    LET rest == Without(t, p)
        Old(q) == p \o SubSeq(q, Len(to) + 1, Len(q))
        new == {to \o SubSeq(q, Len(p) + 1, Len(q)) : q \in Below(t, p)}
    IN  [q \in DOMAIN rest \cup new |-> IF q \in new THEN t[Old(q)] ELSE rest[q]]
================================================================================
