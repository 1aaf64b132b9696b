--------------------------- MODULE WalletAccounts ---------------------------
(***************************************************************************)
(* Wallet owners, their accounts and the API clients linked to them        *)
(* (wallet_owners, wallet_accounts, wallet_client_links): what is opened,   *)
(* linked and frozen.  Balances and postings are in WalletLedger.          *)
(***************************************************************************)

CONSTANTS
    Owners,     \* wallet_owners rows: an agency or a user
    Accounts,   \* wallet_accounts rows, one per owner and currency
    OwnerOf,    \* wallet_accounts.owner_id
    Clients,    \* api_clients
    NoOwner     \* a client without a wallet_client_links row

ASSUME OwnerOfAssumption == OwnerOf \in [Accounts -> Owners]
ASSUME NoOwnerAssumption == NoOwner \notin Owners

VARIABLES
    open,       \* the accounts that were provisioned
    status,     \* wallet_owners.status
    link        \* wallet_client_links: the owner that pays for a client

accountVars == <<open, status, link>>

AccountsTypeOK ==
    /\ open \subseteq Accounts
    /\ status \in [Owners -> {"active", "frozen"}]
    /\ link \in [Clients -> Owners \cup {NoOwner}]

AccountsInit ==
    /\ open = {}
    /\ status = [w \in Owners |-> "active"]
    /\ link = [c \in Clients |-> NoOwner]

\* core::provision: an upsert of the owner and of the account in one
\* currency.  Repeating it returns the same account and resets nothing.
Provision(a) ==
    /\ open' = open \cup {a}
    /\ UNCHANGED <<status, link>>

\* core::link_client: the first link wins, another owner is
\* WALLET_OWNER_MISMATCH and the transaction aborts.
LinkClient(c, a) ==
    /\ a \in open
    /\ link[c] = NoOwner
    /\ link' = [link EXCEPT ![c] = OwnerOf[a]]
    /\ UNCHANGED <<open, status>>

\* The Freeze command of the portal and the freeze of an account deletion:
\* an update of the owner row that checks nothing about its accounts.
SetStatus(w, s) ==
    /\ \E a \in open : OwnerOf[a] = w
    /\ status' = [status EXCEPT ![w] = s]
    /\ UNCHANGED <<open, link>>

AccountsNext ==
    \/ \E a \in Accounts : Provision(a)
    \/ \E c \in Clients, a \in Accounts : LinkClient(c, a)
    \/ \E w \in Owners, s \in {"active", "frozen"} : SetStatus(w, s)

=============================================================================
