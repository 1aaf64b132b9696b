------------------------- MODULE MCIdentityAccounts -------------------------
(* A superadmin, an admin, an agency owner, two newcomers, and two operations. *)
EXTENDS IdentityAccounts, TLC

CONSTANTS root, adm, own, new, sub, o1, o2, MaxVersion, MaxEffects, MaxClaims

MCRoles0 == (root :> "superadmin") @@ (adm :> "admin") @@ (own :> "b2b")
MCOwnerOf0 == [s \in Subjects |-> NoSubject]

Fence(o) == IF rows[o].kind \in {"create", "invite", "delete"} THEN rows[o].fence ELSE 0

\* Bounds: the second newcomer only takes a place in the agency; versions; claims
\* of both operations together, and the calls and proofs under way at once,
\* more of them while there is one operation; and no events, which the run of
\* IdentityAuthority has.
MCBound ==
    /\ \A o \in Ops : rows[o].kind \in {"create", "invite"} =>
          \/ rows[o].person = new
          \/ rows[o].person = sub /\ rows[o].role = "b2b_sub" /\ rows[o].issuer = own
                /\ Fence(o) = 0
    /\ account[sub] = "none"
    /\ \A s \in {root, adm, own} : account[s] = "live"
    /\ \A s \in Subjects : user[s].version <= MaxVersion /\ inbox[s] = NoEvent
    /\ IF \E o \in Ops : rows[o] = NoRow
       THEN Fence(o1) + Fence(o2) <= MaxClaims /\ Cardinality(calls) <= 2 /\ Cardinality(looks) <= 1
       ELSE Fence(o1) + Fence(o2) < MaxClaims - 1 /\ Cardinality(calls \cup looks) <= 1
    /\ Cardinality(effects) <= MaxEffects

MCSpec == InitAccounts /\ [][Next /\ MCBound']_accountVars

MCSymmetry == Permutations(Ops)
=============================================================================
