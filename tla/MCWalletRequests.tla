-------------------------- MODULE MCWalletRequests --------------------------
(* Instances of WalletRequests: one account, a customer, two approvers and   *)
(* deposits that may or may not be the same payment, through every channel;  *)
(* and cash deposits with reversals to follow.                               *)
EXTENDS WalletRequests, TLC

CONSTANTS w1, a1, o1, s1, r1, r2, r3, r4, ann, fay, flo, acct, mon, tue, tx, TX, cash

Deposit(m, day, ref) ==
    [method |-> m, destination |-> acct, day |-> day, reference |-> ref]

MCOneAccount == a1 :> w1
MCCanonical == (tx :> tx) @@ (TX :> tx) @@ (cash :> cash)
MCDetails ==
    {Deposit("bank", mon, tx), Deposit("bank_transfer", mon, TX),
     Deposit("bank", tue, tx), Deposit("mobile", mon, tx),
     Deposit("mobile", tue, TX), Deposit("cheque", mon, tx),
     Deposit("cash", mon, tx), Deposit("cash", mon, cash)}
MCSymmetry == Permutations({r1, r2, r3, r4}) \cup Permutations({fay, flo})

\* A fourth request is explored beside cash deposits only, and while nothing
\* is being paid for: it is there for a second reversal of a deposit whose
\* money is spent but for that of another one.
MCFourthIsCash ==
    Cardinality(Made) = 4 =>
        /\ \A d \in Deposits : requests[d].details = Deposit("cash", mon, cash)
        /\ \A o \in OpIds : ops[o].state = "none"

\* So is a third one while something is being paid for.
MCThirdIsCash ==
    Cardinality(Made) = 3 /\ (\E o \in OpIds : ops[o].state # "none") =>
        \A d \in Deposits : requests[d].details = Deposit("cash", mon, cash)

MCSpec == WalletInit /\ [][WalletNext /\ MCFourthIsCash' /\ MCThirdIsCash']_walletVars

=============================================================================
