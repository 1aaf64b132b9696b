---------------------------- MODULE MCHoldBooking ----------------------------
(* Instances of HoldBooking: a supplier is enabled for everything or for     *)
(* nothing.                                                                  *)
EXTENDS HoldBooking, TLC

CONSTANTS o1, k1, k2, r1, r2, b2b, agent

MCSettings == {{}, Capabilities}

\* Bookings share their offer and nothing else, so reads of the supplier are
\* explored only while there is one booking.
MCReadsOfOne ==
    \A k, l \in Keys : Made(k) /\ Made(l) /\ k # l => bookings[k].started = 0

\* Keys and readers are interchangeable.
MCSymmetry == Permutations(Keys) \cup Permutations(Readers)

=============================================================================
