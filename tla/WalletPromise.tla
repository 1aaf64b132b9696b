---------------------------- MODULE WalletPromise ----------------------------
(***************************************************************************)
(* What the wallet promises to whoever pays from it, without rows, keys or  *)
(* operation ids: a purchase is held, then charged or given back, once;     *)
(* what it was charged can be refunded piece by piece; a frozen account     *)
(* starts nothing new.  WalletLedger implements it.                         *)
(***************************************************************************)
EXTENDS Integers

CONSTANTS
    Accounts,
    Purchases,  \* what is paid for
    MaxMinor,   \* bound of every balance
    Nobody      \* the account of a purchase that was not started

VARIABLES
    spendable,  \* what an account may spend
    frozen,     \* the accounts that may not
    purchase    \* the phase of a purchase, who pays and what it still costs

promiseVars == <<spendable, frozen, purchase>>

Money == 1..MaxMinor

NotStarted == [phase |-> "none", account |-> Nobody, cost |-> 0]

Init ==
    /\ spendable = [a \in Accounts |-> 0]
    /\ frozen = {}
    /\ purchase = [p \in Purchases |-> NotStarted]

Receive(a, m) ==
    /\ spendable' = [spendable EXCEPT ![a] = @ + m]
    /\ UNCHANGED <<frozen, purchase>>

Pay(a, m) ==
    /\ a \notin frozen
    /\ m <= spendable[a]
    /\ spendable' = [spendable EXCEPT ![a] = @ - m]
    /\ UNCHANGED <<frozen, purchase>>

Hold(p, a, m) ==
    /\ a \notin frozen
    /\ m <= spendable[a]
    /\ purchase[p] = NotStarted
    /\ spendable' = [spendable EXCEPT ![a] = @ - m]
    /\ purchase' = [purchase EXCEPT
                       ![p] = [phase |-> "held", account |-> a, cost |-> m]]
    /\ UNCHANGED frozen

Charge(p) ==
    /\ purchase[p].phase = "held"
    /\ purchase' = [purchase EXCEPT ![p].phase = "charged"]
    /\ UNCHANGED <<spendable, frozen>>

GiveBack(p) ==
    /\ purchase[p].phase = "held"
    /\ spendable' = [spendable EXCEPT ![purchase[p].account] = @ + purchase[p].cost]
    /\ purchase' = [purchase EXCEPT ![p].phase = "returned", ![p].cost = 0]
    /\ UNCHANGED frozen

Refund(p, m) ==
    /\ purchase[p].phase = "charged"
    /\ m <= purchase[p].cost
    /\ spendable' = [spendable EXCEPT ![purchase[p].account] = @ + m]
    /\ purchase' = [purchase EXCEPT ![p].cost = @ - m]
    /\ UNCHANGED frozen

Freeze(A) ==
    /\ frozen' = A
    /\ UNCHANGED <<spendable, purchase>>

Next ==
    \/ \E a \in Accounts, m \in Money : Receive(a, m) \/ Pay(a, m)
    \/ \E p \in Purchases, a \in Accounts, m \in Money : Hold(p, a, m)
    \/ \E p \in Purchases : Charge(p) \/ GiveBack(p)
    \/ \E p \in Purchases, m \in Money : Refund(p, m)
    \/ \E A \in SUBSET Accounts : Freeze(A)

Spec == Init /\ [][Next]_promiseVars

=============================================================================
