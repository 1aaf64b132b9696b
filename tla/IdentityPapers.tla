---------------------------- MODULE IdentityPapers ----------------------------
(***************************************************************************)
(* The papers of a registered user: the application of a customer who      *)
(* wants an agency (src/identity/applications.rs), its documents and the   *)
(* logo of an agency (documents.rs) and the private profile (profiles.rs), *)
(* with the checks they share (phase5.rs).                                 *)
(*                                                                         *)
(* Nobody holds a lock while they think.  A person reads a paper and       *)
(* acts later on the versions read, under the authority lock; a document   *)
(* is uploaded between two transactions, Start and Finish, by a portal     *)
(* that reports the outcome.  Every transaction is one step.               *)
(*                                                                         *)
(* Accepting an application changes the account as IdentityAuthority's     *)
(* provisioning does; the other changes of accounts are Rule here.  An     *)
(* administrator stands for both roles that manage users.  A profile has   *)
(* one of the fields an application can fill, the documents of an agency   *)
(* are its logo.  Staff records, hourly limits, the audit and repeated     *)
(* requests, which are answered from their journal, are left out.          *)
(***************************************************************************)
EXTENDS Naturals, FiniteSets

CONSTANTS
    Users,
    RoleOf0,     \* roles at the start
    EmployerOf,  \* the owner of each sub-user's agency
    Assets       \* ids of uploads

PaperRoles == {"customer", "admin", "b2b", "b2b_sub"}
PaperStatuses == {"onboarding", "active", "suspended", "deleted"}

ASSUME PapersAssumption ==
    /\ RoleOf0 \in [Users -> PaperRoles]
    /\ EmployerOf \in [{u \in Users : RoleOf0[u] = "b2b_sub"} ->
                         {u \in Users : RoleOf0[u] = "b2b"}]

VARIABLES
    accounts,      \* portal_users: role, status and version
    agencies,      \* owners of an agency, with its wallet, effects and mail
    profiles,      \* portal_identity_profiles: version and who gave the field
    applications,  \* portal_identity_applications
    assets,        \* portal_identity_assets
    logos,         \* portal_identity_document_slots: version and asset
    seen           \* what each user read last

people == <<accounts, agencies>>
papers == <<profiles, applications, logos>>
papersVars == <<people, papers, assets, seen>>

NoAsset == [state |-> "none"]
Unseen == [kind |-> "none"]

PapersInit ==
    /\ accounts = [u \in Users |-> [role |-> RoleOf0[u], version |-> 1,
           status |-> IF RoleOf0[u] = "customer" THEN "onboarding" ELSE "active"]]
    /\ agencies = {u \in Users : RoleOf0[u] = "b2b"}
    /\ profiles = [u \in Users |-> [version |-> 0, from |-> "nobody"]]
    /\ applications = [u \in Users |->
           [version |-> 0, status |-> "none", documents |-> {}, reviewer |-> {}]]
    /\ assets = [a \in Assets |-> NoAsset]
    /\ logos = [u \in Users |-> [version |-> 0, asset |-> {}]]
    /\ seen = [u \in Users |-> Unseen]

-----------------------------------------------------------------------------
(* Who may read and write.                                                 *)

Gone(u) == accounts[u].status = "deleted"
IsActive(u) == accounts[u].status = "active"
NeedsAgency(u) == accounts[u].role \in {"b2b", "b2b_sub"}
Customer(u) == accounts[u].role = "customer" /\ accounts[u].status \in {"onboarding", "active"}

\* Role::can_manage_profile and can_grant.
Administers(u) == IsActive(u) /\ accounts[u].role = "admin"

\* The papers of a sub-user's agency are its owner's.
Holder(u) == IF accounts[u].role = "b2b_sub" THEN EmployerOf[u] ELSE u

\* An application is open until it is submitted, and after a rejection.
Open(u) == applications[u].status \in {"none", "rejected"}

PaperOf(kind, u) ==
    CASE kind = "application" -> applications[u]
      [] kind = "profile" -> profiles[u]
      [] kind = "logo" -> logos[u]

\* phase5::target, profiles::scope and documents::scope for a read: an
\* administrator, or one's own papers.  A read of an owner or sub-user changes
\* nothing it could go on to do.
MayRead(r, kind, u) ==
    /\ ~Gone(u) /\ (Administers(r) \/ (r = u /\ Customer(u)))
    /\ kind = "logo" => Administers(r) /\ NeedsAgency(u) /\ ~Gone(Holder(u))
    /\ kind = "profile" => IsActive(r)

\* The same for a write.
MayWrite(r, kind, u) ==
    /\ MayRead(r, kind, u)
    /\ kind = "application" => r = u /\ Customer(u) /\ Open(u)

Read(kind, u) ==
    [kind |-> kind, of |-> u, identity |-> accounts[u].version,
     profile |-> profiles[u].version, paper |-> PaperOf(kind, u)]

\* A paper is queried.
Look(r, kind, u) ==
    /\ MayRead(r, kind, u)
    /\ LET h == IF kind = "logo" THEN Holder(u) ELSE u
       IN  seen' = [seen EXCEPT ![r] = Read(kind, h)]
    /\ UNCHANGED <<people, papers, assets>>

\* BUG: the version of the paper is not among those compared.
AnyVersion(r, kind, u) ==
    /\ seen[r].kind = kind /\ seen[r].of = u
    /\ seen[r].identity = accounts[u].version

\* The versions a request expects are those of what its sender read.
AsSeen(r, kind, u) ==
    /\ seen[r].kind = kind /\ seen[r].of = u
    /\ seen[r].identity = accounts[u].version
    /\ seen[r].paper.version = PaperOf(kind, u).version

-----------------------------------------------------------------------------
(* Accounts and profiles.                                                  *)

\* An operation of IdentityAuthority on an account.  Roles that need an agency
\* are neither given nor taken by it.
Rule(u, role, status) ==
    /\ ~Gone(u) /\ [role |-> role, status |-> status] #
           [role |-> accounts[u].role, status |-> accounts[u].status]
    /\ role # accounts[u].role => ~NeedsAgency(u) /\ role \in {"customer", "admin"}
    /\ status = "onboarding" => accounts[u].status = "onboarding" /\ role = "customer"
    /\ accounts' = [accounts EXCEPT ![u] =
           [role |-> role, status |-> status, version |-> @.version + 1]]
    /\ UNCHANGED <<agencies, papers, assets, seen>>

\* profiles::edit: a value, or the empty one that clears the field.
EditProfile(r, u) ==
    /\ MayWrite(r, "profile", u) /\ AsSeen(r, "profile", u)
    /\ profiles' = [profiles EXCEPT ![u] = [version |-> @.version + 1, from |-> "edit"]]
    /\ UNCHANGED <<people, applications, logos, assets, seen>>

-----------------------------------------------------------------------------
(* Documents.                                                              *)

\* documents::prepare, for a sub-user's logo under its owner.  The asset keeps
\* the versions; "over" is the paper its author had read.
PrepareAsset(r, kind, u, a) ==
    LET h == IF kind = "logo" THEN Holder(u) ELSE u
    IN  /\ kind \in {"application", "logo"} /\ assets[a] = NoAsset
        /\ MayWrite(r, kind, u) /\ AsSeen(r, kind, h)
        /\ assets' = [assets EXCEPT ![a] =
               [state |-> "prepared", by |-> r, of |-> h, kind |-> kind,
                expected |-> PaperOf(kind, h).version,
                identity |-> accounts[h].version, over |-> seen[r].paper]]
        /\ UNCHANGED <<people, papers, seen>>

\* BUG: who prepared an upload may have lost the right to write since.
InScopeThen(a) == ~Gone(assets[a].of)

\* asset_scope: the one who prepared it, who still may.
InScopeOf(a) == MayWrite(assets[a].by, assets[a].kind, assets[a].of)

\* BUG: the paper may have changed during the upload.
CurrentThen(a) == accounts[assets[a].of].version = assets[a].identity

\* Neither the account nor the paper changed since the upload was prepared.
Current(a) ==
    /\ accounts[assets[a].of].version = assets[a].identity
    /\ PaperOf(assets[a].kind, assets[a].of).version = assets[a].expected

\* documents::start: the upload is begun once.
StartUpload(a) ==
    /\ assets[a].state = "prepared" /\ InScopeOf(a) /\ Current(a)
    /\ assets' = [assets EXCEPT ![a].state = "uploading"]
    /\ UNCHANGED <<people, papers, seen>>

\* documents::finish with the outcome ready: the logo is published.
FinishReady(a) ==
    /\ assets[a].state \in {"uploading", "unknown"} /\ InScopeOf(a) /\ Current(a)
    /\ assets' = [assets EXCEPT ![a].state = "ready"]
    /\ logos' = IF assets[a].kind = "logo"
                THEN [logos EXCEPT ![assets[a].of] =
                         [version |-> @.version + 1, asset |-> {a}]]
                ELSE logos
    /\ UNCHANGED <<people, profiles, applications, seen>>

\* documents::finish with the other outcomes.
FinishOther(a, outcome) ==
    /\ assets[a].state \in {"uploading", "unknown"} /\ InScopeOf(a)
    /\ outcome \in {"unknown", "abandoned"} /\ outcome # assets[a].state
    /\ assets' = [assets EXCEPT ![a].state = outcome]
    /\ UNCHANGED <<people, papers, seen>>

\* documents::remove: the version stays as a tombstone.
RemoveLogo(r, u) ==
    /\ MayWrite(r, "logo", u) /\ AsSeen(r, "logo", Holder(u))
    /\ logos' = [logos EXCEPT ![Holder(u)] = [version |-> @.version + 1, asset |-> {}]]
    /\ UNCHANGED <<people, profiles, applications, assets, seen>>

-----------------------------------------------------------------------------
(* Applications.                                                           *)

Attachments(u) ==
    {a \in Assets : /\ assets[a].state = "ready"
                    /\ assets[a].of = u /\ assets[a].kind = "application"}

\* applications::submit.
Submit(u, documents) ==
    /\ Customer(u) /\ Open(u) /\ AsSeen(u, "application", u)
    /\ documents \subseteq Attachments(u)
    /\ applications' = [applications EXCEPT ![u] =
           [version |-> @.version + 1, status |-> "pending",
            documents |-> documents, reviewer |-> {}]]
    /\ UNCHANGED <<people, profiles, logos, assets, seen>>

\* Both decisions of applications::review.
Reviewable(r, u) ==
    /\ Administers(r) /\ r # u
    /\ Customer(u) /\ applications[u].status = "pending"
    /\ AsSeen(r, "application", u) /\ seen[r].profile = profiles[u].version

Decision(r, u, decision) ==
    applications' = [applications EXCEPT ![u].version = @ + 1, ![u].status = decision,
                                         ![u].reviewer = {r}]

RejectApplication(r, u) ==
    /\ Reviewable(r, u) /\ Decision(r, u, "rejected")
    /\ UNCHANGED <<people, profiles, logos, assets, seen>>

\* BUG: what the application says replaces what the profile has.
TransferredOver(profile) == [version |-> profile.version + 1, from |-> "application"]

\* Presence, of the empty value too, wins over the application.
Transferred(profile) ==
    [version |-> profile.version + 1,
     from |-> IF profile.from = "nobody" THEN "application" ELSE profile.from]

\* agencies::provision gives a customer without one an agency; its row and its
\* membership change the version of the account.
AcceptApplication(r, u) ==
    /\ Reviewable(r, u) /\ u \notin agencies
    /\ accounts' = [accounts EXCEPT ![u] =
           [role |-> "b2b", status |-> "active", version |-> @.version + 2]]
    /\ agencies' = agencies \cup {u}
    /\ profiles' = [profiles EXCEPT ![u] = Transferred(@)]
    /\ Decision(r, u, "accepted")
    /\ UNCHANGED <<logos, assets, seen>>

PapersNext ==
    \/ \E r, u \in Users :
          \/ \E kind \in {"application", "profile", "logo"} : Look(r, kind, u)
          \/ EditProfile(r, u)
          \/ \E kind \in {"application", "logo"}, a \in Assets : PrepareAsset(r, kind, u, a)
          \/ RemoveLogo(r, u)
          \/ RejectApplication(r, u) \/ AcceptApplication(r, u)
    \/ \E u \in Users :
          \/ \E documents \in SUBSET Assets : Submit(u, documents)
          \/ \E role \in PaperRoles, status \in PaperStatuses : Rule(u, role, status)
    \/ \E a \in Assets :
          \/ StartUpload(a) \/ FinishReady(a)
          \/ \E outcome \in {"unknown", "abandoned"} : FinishOther(a, outcome)

PapersSpec == PapersInit /\ [][PapersNext]_papersVars

-----------------------------------------------------------------------------
(* Properties.                                                             *)

PapersTypeOK ==
    /\ accounts \in [Users -> [role : PaperRoles, status : PaperStatuses, version : Nat]]
    /\ agencies \subseteq Users
    /\ profiles \in [Users -> [version : Nat, from : {"nobody", "edit", "application"}]]
    /\ applications \in [Users -> [version : Nat, documents : SUBSET Assets,
           status : {"none", "pending", "rejected", "accepted"}, reviewer : SUBSET Users]]
    /\ logos \in [Users -> [version : Nat, asset : SUBSET Assets]]
    /\ \A a \in Assets :
          \/ assets[a] = NoAsset
          \/ /\ assets[a].by \in Users /\ assets[a].of \in Users
             /\ assets[a].state \in {"prepared", "uploading", "unknown", "ready", "abandoned"}

HasRead(r, kind, u) ==
    /\ seen[r].kind = kind /\ seen[r].of = u
    /\ seen[r].identity = accounts[u].version /\ seen[r].paper = PaperOf(kind, u)

\* What a review decides is what its reviewer read, whole: the application with
\* its documents, the account and the profile.  The reviewer is an administrator
\* then, and not the applicant (applications::review compares versions alone).
DecidedAsRead ==
    \A u \in Users : applications[u].status = "pending" /\ applications'[u] # applications[u] =>
        \E r \in Users \ {u} :
            /\ applications'[u].reviewer = {r} /\ Administers(r)
            /\ HasRead(r, "application", u) /\ seen[r].profile = profiles[u].version
            /\ applications'[u].documents = applications[u].documents

\* An upload takes the place of the paper its author had before them, and its
\* author still has the right to write it: no other publication, removal,
\* submission or change of the account came between (documents::finish).
PublishedAsPrepared ==
    \A a \in Assets : assets[a] # NoAsset /\ assets[a].state # "ready" /\ assets'[a].state = "ready" =>
        /\ PaperOf(assets[a].kind, assets[a].of) = assets[a].over
        /\ accounts[assets[a].of].version = assets[a].identity
        /\ IF assets[a].kind = "logo" THEN Administers(assets[a].by)
                                      ELSE assets[a].by = assets[a].of

\* A logo is removed, and a profile edited, by someone who had read it as it is
\* (documents::remove, profiles::edit).
ChangedAsRead ==
    \A u \in Users :
        /\ logos'[u] # logos[u] /\ logos'[u].asset = {} =>
              \E r \in Users : Administers(r) /\ HasRead(r, "logo", u)
        /\ profiles'[u] # profiles[u] /\ applications'[u] = applications[u] =>
              \E r \in Users : (r = u \/ Administers(r)) /\ HasRead(r, "profile", u)

\* A field its user or an administrator gave, or cleared, is not replaced by
\* that of an application (the patch of applications::review).
EditedStays ==
    \A u \in Users : profiles[u].from = "edit" => profiles'[u].from = "edit"

\* An accepted application made an agency and stays accepted, the documents of
\* an application are the applicant's and ready, and a logo is that of its slot.
PapersHold ==
    \A u \in Users :
        /\ applications[u].status = "accepted" => u \in agencies /\ accounts[u].role = "b2b"
        /\ applications[u].documents \subseteq Attachments(u)
        /\ \A a \in logos[u].asset :
              assets[a].state = "ready" /\ assets[a].of = u /\ assets[a].kind = "logo"

AcceptedStays ==
    \A u \in Users : applications[u].status = "accepted" => applications'[u] = applications[u]

\* What people read, decided and published later is what the papers were.
PapersInOrderAlways ==
    /\ [](PapersTypeOK /\ PapersHold)
    /\ [][DecidedAsRead /\ PublishedAsPrepared /\ ChangedAsRead
          /\ EditedStays /\ AcceptedStays]_papersVars

=============================================================================
