------------------------- MODULE MCTicketManagement -------------------------
(* Instances of TicketManagement: a booking of two passengers.               *)
EXTENDS TicketManagement, TLC

CONSTANTS adm, acc

MCPrice == <<1, 1>>

MCMade == {r \in Requests : rows[r] # NotAsked}
MCReissued == {r \in MCMade : rows[r].outcome = "reissued"}
MCQuoted == {q \in QuoteIds : quotes[q] # NoTerms}

\* A reissue of one ticket is quoted twice while a refund is asked for, or a refund
\* follows two reissues.
\* Ids are used in order: which of them is which makes no difference.
MCBound ==
    /\ MCMade = 1..Cardinality(MCMade)
    /\ Cardinality(MCQuoted) <= 3
    /\ \A q \in MCQuoted :
          q[2] = 2 => /\ rows[q[1]].kind = "reissue"
                      /\ Cardinality(rows[q[1]].selected) = 1
                      /\ \A r \in MCMade \ {q[1]} : rows[r].kind = "refund"
    /\ Cardinality(MCMade) = 3 =>
          /\ Cardinality(MCReissued) >= 2 /\ rows[3].kind = "refund"
          /\ \A q \in MCQuoted : q[2] = 1

MCSpec == ManagementInit /\ [][ManagementNext /\ MCBound']_managementVars

=============================================================================
