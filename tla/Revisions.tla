------------------------------- MODULE Revisions -------------------------------
(***************************************************************************)
(* Immutable rows that revise one another, as the fused claims, the        *)
(* geopolitical events and the rumors do: each row has an id, the time at, *)
(* a version, and the id of the row it revises, or 0.                      *)
(***************************************************************************)
EXTENDS Integers, FiniteSets

\* A revision names a row that is there, as its next version, observed later.
Follows(row, rows) ==
    \/ row.version = 1 /\ row.revises = 0
    \/ \E prior \in rows : /\ prior.id = row.revises /\ row.version = prior.version + 1
                           /\ prior.at < row.at

\* What a reader sees at a cutoff: the rows observed by then, without those
\* that another of them revises.
CurrentAt(rows, cutoff) ==
    LET seen == {r \in rows : r.at <= cutoff}
    IN  {r \in seen : \A s \in seen : s.revises # r.id}

\* The row, what it revises, what that revises, and so on.
Line(row, rows) ==
    LET up[n \in Nat] == IF n = 0 THEN {row}
                         ELSE {p \in rows : \E r \in up[n - 1] : r.revises = p.id}
    IN  UNION {up[n] : n \in 0..Cardinality(rows)}

\* No row of a set is a revision, however remote, of another one of it.
StandAlone(set, rows) == \A r \in set : Line(r, rows) \cap set = {r}

=============================================================================
