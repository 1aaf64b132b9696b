---------------------------- MODULE MCTicketIssue ----------------------------
(* Instances of TicketIssue.  Every booking is of one client, who pays from  *)
(* one account; a booking costs one minor unit.                              *)
EXTENDS TicketIssue, TLC

CONSTANTS c1, w1, a1, b1, o1, r1, p1, p2, fay, flo, k1, k2

MCOwnerOf == a1 :> w1
MCClientOf == [b \in Bookings |-> c1]
MCPayable == [b \in Bookings |-> 1]

\* Reviewers and proposal ids are interchangeable.
MCSymmetry == Permutations(Reviewers) \cup Permutations(Proposals)

=============================================================================
