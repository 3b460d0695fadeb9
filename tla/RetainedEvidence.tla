-------------------------- MODULE RetainedEvidence --------------------------
(***************************************************************************)
(* The promise of the ingestion layer to every point-in-time reader.  A    *)
(* payload of a dataset is retained at one first-observed time, for good.  *)
(* Only a retained payload is published, under the time it was retained    *)
(* with, and nothing published is withdrawn.                               *)
(***************************************************************************)
EXTENDS Naturals

CONSTANTS Datasets, Artifacts, MaxTime

VARIABLES
    retained,   \* [ds, art, first] of every retained payload
    published   \* those whose observations readers may see

Payload == [ds: Datasets, art: Artifacts, first: 0..MaxTime]

Init == retained = {} /\ published = {}

Retain(p) ==
    /\ \A q \in retained : q.ds # p.ds \/ q.art # p.art
    /\ retained' = retained \cup {p}
    /\ UNCHANGED published

Publish(p) ==
    /\ p \in retained
    /\ published' = published \cup {p}
    /\ UNCHANGED retained

Next == \E p \in Payload : Retain(p) \/ Publish(p)

Spec == Init /\ [][Next]_<<retained, published>>

=============================================================================
