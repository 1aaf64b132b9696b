-------------------------- MODULE MCIdentityEffects --------------------------
(* The owner of an agency and one sub-user of it, and one dispatcher.       *)
EXTENDS IdentityEffects, TLC

CONSTANTS ann, sam, w1

Agency == {ann, sam}
OwnerOfSam == [u \in Agency |-> IF u = ann THEN {sam} ELSE {}]
OneWorker == {w1}

\* Bound: one session of each; only the owner signs in again, and only after a
\* change of its own.
MCBound ==
    /\ sessions[sam] \subseteq {0} /\ Cardinality(sessions[ann]) <= 1
    /\ sessions[ann] \subseteq {0} \/ effects[1].user = ann

MCFairSpec == Init /\ [][Next /\ MCBound']_vars /\ Ticking

=============================================================================
