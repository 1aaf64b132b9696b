------------------------- MODULE MCIdentityAuthority -------------------------
(* Two superadmins, an agency owner with a sub-user, and two operations. *)
EXTENDS IdentityAuthority, TLC

CONSTANTS r1, r2, own, sub, MaxStarted, MaxVersion, MaxEvents, o1, o2

MCRoles0 == (r1 :> "superadmin") @@ (r2 :> "superadmin") @@ (own :> "b2b") @@ (sub :> "b2b_sub")
MCOwnerOf0 == [s \in Subjects |-> IF s = sub THEN own ELSE NoSubject]

\* Bounds: versions, and the accounts deleted and events seen at the provider.
MCBound ==
    /\ \A s \in Subjects : user[s].version <= MaxVersion
    /\ Cardinality({s \in Subjects : account[s] = "gone"}) <= MaxEvents
    /\ \A s \in Subjects \ {own} : inbox[s] = NoEvent

MCSpec == Init /\ [][NextAuthority /\ MCBound']_vars

MCSymmetry == Permutations({r1, r2}) \cup Permutations(Ops)
=============================================================================
