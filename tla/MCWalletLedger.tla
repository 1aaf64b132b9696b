--------------------------- MODULE MCWalletLedger ---------------------------
(* An instance of WalletLedger: two accounts of two owners.                  *)
EXTENDS WalletLedger, TLC

CONSTANTS w1, w2, a1, a2, o1, o2, s1, s2, r1, r2, MaxPostings

MCTwoAccounts == (a1 :> w1) @@ (a2 :> w2)

\* Accounts are interchangeable together with their owners.
MCSwapAccounts == (a1 :> a2) @@ (a2 :> a1) @@ (w1 :> w2) @@ (w2 :> w1)
MCIdSymmetry == Permutations({o1, o2}) \cup Permutations({s1, s2})
                \cup Permutations({r1, r2})
MCSymmetry == MCIdSymmetry \cup {MCSwapAccounts}

\* Bound: postings, which is enough to reserve, settle and refund with both ids,
\* in one account or in both.
MCBound == version[a1] + version[a2] <= MaxPostings

MCSpec == Init /\ [][Next /\ MCBound']_ledgerVars

=============================================================================
