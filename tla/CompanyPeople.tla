---------------------------- MODULE CompanyPeople ----------------------------
(***************************************************************************)
(* The accounts of one company's people, of individual members and of an   *)
(* operator's team: invitations by mail, acceptance, deactivation, and the *)
(* archive that puts a whole company out and takes it back                 *)
(* (app/blueprints/company/routes.py, app/blueprints/admin/invite_routes.py*)
(* and routes.py, app/blueprints/auth/routes.py, services/mail_service.py).*)
(*                                                                         *)
(* Requests on one company's people run one after another; what stays open *)
(* for days between them is the mailed links and the edit pages.           *)
(***************************************************************************)
EXTENDS Integers, FiniteSets

CONSTANTS
    People,
    KindOf,         \* the role each of them has
    Boss,           \* the company's admin
    MaxEmployees,   \* companies.max_employees
    EditedStatuses, \* bound: what the operator sets a company's status to by hand,
    MaxStamps       \*   and how often a password or an address changes

Kinds == {"company_admin", "employee", "individual", "team"}

ASSUME EveryoneHasAKind == KindOf \in [People -> Kinds]
ASSUME OneBoss == {p \in People : KindOf[p] = "company_admin"} = {Boss}

Statuses == {"none", "prospect", "active", "suspended", "churned"}

VARIABLES
    company,    \* its status, and the access its people had when it was archived
    accounts,   \* users
    links,      \* mailed invitations that have not expired
    before,     \* history: the access that the company's people had when it was archived,
    byHand      \*   and whether the status of an archived company was ever edited

vars == <<company, accounts, links, before, byHand>>

NoAccount == [exists |-> FALSE]
NoSnapshot == [p \in {} |-> [active |-> FALSE, revoked |-> FALSE]]

\* A person's password and address are told apart by how often they changed: a link bears the
\* stamp they had when it was mailed.
Account(active, revoked, verified, stamp) ==
    [exists |-> TRUE, active |-> active, revoked |-> revoked, verified |-> verified, stamp |-> stamp]

Exists(p) == accounts[p].exists
Members == {p \in People : KindOf[p] \in {"company_admin", "employee"} /\ Exists(p)}
Access(p) == [active |-> accounts[p].active, revoked |-> accounts[p].revoked]

Pending(p) == Exists(p) /\ ~accounts[p].active /\ ~accounts[p].revoked /\ ~accounts[p].verified

\* The people of a company that is suspended or archived are not let in.
Shut(p) == KindOf[p] \in {"company_admin", "employee"} /\ company.status \in {"suspended", "churned"}
MaySignIn(p) == Exists(p) /\ accounts[p].active /\ ~Shut(p)

\* A mutation of Works: only the link's stamp is looked at.
WorksWhenRevoked(l) == Exists(l.person) /\ l.stamp = accounts[l.person].stamp

\* read_token
Works(l) ==
    /\ Exists(l.person) /\ l.stamp = accounts[l.person].stamp
    /\ ~accounts[l.person].revoked /\ ~Shut(l.person)

Link(p, stamp) == [person |-> p, stamp |-> stamp]

Init ==
    /\ company = [status |-> "none", archived |-> NoSnapshot]
    /\ accounts = [p \in People |-> NoAccount]
    /\ links = {} /\ before = NoSnapshot /\ byHand = FALSE

History == UNCHANGED <<before, byHand>>
-----------------------------------------------------------------------------
(* A new account is inactive until its invitation is accepted, or signs up by itself. *)

Invited(p) ==
    /\ ~Exists(p)
    /\ accounts' = [accounts EXCEPT ![p] = Account(FALSE, FALSE, FALSE, 0)]
    /\ links' = links \union {Link(p, 0)}

SignedUp(p) ==
    /\ ~Exists(p)
    /\ accounts' = [accounts EXCEPT ![p] = Account(TRUE, FALSE, FALSE, 0)]
    /\ UNCHANGED links

\* A deleted account's links lead nowhere; whoever is invited later is another account.
Deleted(p) ==
    /\ accounts' = [accounts EXCEPT ![p] = NoAccount]
    /\ links' = {l \in links : l.person # p}

InviteIndividual(p) ==
    /\ KindOf[p] = "individual"
    /\ Invited(p)
    /\ UNCHANGED company /\ History

InviteTeam(p) ==
    /\ KindOf[p] = "team"
    /\ Invited(p)
    /\ UNCHANGED company /\ History

RegisterIndividual(p) ==
    /\ KindOf[p] = "individual"
    /\ SignedUp(p)
    /\ UNCHANGED company /\ History

InviteCompany ==
    /\ company.status = "none"
    /\ Invited(Boss)
    /\ company' = [company EXCEPT !.status = "prospect"]
    /\ History

RegisterCompany ==
    /\ company.status = "none"
    /\ SignedUp(Boss)
    /\ company' = [company EXCEPT !.status = "prospect"]
    /\ History

\* Only an invitation that nobody accepted; one of the team, whenever its account is inactive.
RevokeMember(p) ==
    /\ \/ KindOf[p] = "individual" /\ Pending(p)
       \/ KindOf[p] = "team" /\ Exists(p) /\ ~accounts[p].active
    /\ Deleted(p)
    /\ UNCHANGED company /\ History

RevokeCompany ==
    /\ company.status = "prospect" /\ ~accounts[Boss].active
    /\ Deleted(Boss)
    /\ company' = [status |-> "none", archived |-> NoSnapshot]
    /\ History
-----------------------------------------------------------------------------
(* Links *)

\* The stamp a new password or address gives.
NewStamp(p) == accounts[p].stamp + 1

\* The password is replaced, which ends the links that were mailed before, and a new link goes out.
Mailed(p, account) ==
    /\ accounts[p].stamp < MaxStamps[p]
    /\ accounts' = [accounts EXCEPT ![p] = [account EXCEPT !.stamp = NewStamp(p)]]
    /\ links' = links \union {Link(p, NewStamp(p))}

\* Whoever signs up with the link chooses a password:
Accepted(l, kinds) ==
    LET p == l.person IN
    /\ KindOf[p] \in kinds
    /\ l \in links /\ Works(l) /\ ~accounts[p].active
    /\ accounts[p].stamp < MaxStamps[p]
    /\ accounts' = [accounts EXCEPT ![p] =
          [@ EXCEPT !.active = TRUE, !.verified = TRUE, !.stamp = NewStamp(p)]]
    /\ UNCHANGED links /\ History

\* accept_member_invite and accept_team_invite,
AcceptMemberInvite(l) == Accepted(l, {"individual", "team"}) /\ UNCHANGED company
AcceptInvite(l) == Accepted(l, {"employee"}) /\ UNCHANGED company

\* and a company whose admin does is in use.
AcceptCompanyInvite(l) ==
    Accepted(l, {"company_admin"}) /\ company' = [company EXCEPT !.status = "active"]

\* Seven days pass.
LinkExpires(l) ==
    /\ l \in links
    /\ links' = links \ {l}
    /\ UNCHANGED <<company, accounts>> /\ History

OperatorResend(p) ==
    /\ KindOf[p] \in {"company_admin", "individual", "team"}
    /\ Pending(p)
    /\ Mailed(p, accounts[p])
    /\ UNCHANGED company /\ History

\* The address that an account is edited to is part of the stamp; so is the password its owner
\* chooses or resets.
Edited(p) ==
    /\ Exists(p) /\ accounts[p].stamp < MaxStamps[p]
    /\ accounts' = [accounts EXCEPT ![p].stamp = NewStamp(p)]
    /\ UNCHANGED <<company, links>> /\ History

IndividualEdit(p) == KindOf[p] = "individual" /\ Edited(p)
ChangePassword(p) == MaySignIn(p) /\ Edited(p)
-----------------------------------------------------------------------------
(* What the company's admin does with the employees *)

ByBoss(p) == MaySignIn(Boss) /\ KindOf[p] = "employee"

BelowLimit ==
    Cardinality({e \in Members : KindOf[e] = "employee" /\ ~accounts[e].revoked}) < MaxEmployees

EmployeeInvite(p) ==
    /\ ByBoss(p) /\ BelowLimit
    /\ Invited(p)
    /\ UNCHANGED company /\ History

EmployeeResend(p) ==
    /\ ByBoss(p) /\ Pending(p)
    /\ Mailed(p, accounts[p])
    /\ UNCHANGED company /\ History

EmployeeEdit(p) ==
    /\ MaySignIn(Boss) /\ p \in Members
    /\ Edited(p)

PutOut(p) == [accounts[p] EXCEPT !.active = FALSE, !.revoked = TRUE]

\* Who has accepted an invitation is let in again, everyone else is invited again.
Readmitted(p) ==
    IF accounts[p].verified
    THEN /\ accounts' = [accounts EXCEPT ![p] = [@ EXCEPT !.active = TRUE, !.revoked = FALSE]]
         /\ UNCHANGED links
    ELSE Mailed(p, [accounts[p] EXCEPT !.revoked = FALSE, !.active = FALSE])

EmployeeDeactivate(p) ==
    /\ ByBoss(p) /\ Exists(p)
    /\ accounts' = [accounts EXCEPT ![p] = PutOut(p)]
    /\ UNCHANGED <<company, links>> /\ History

EmployeeReactivate(p) ==
    /\ ByBoss(p) /\ Exists(p)
    /\ ~accounts[p].active /\ accounts[p].revoked
    /\ BelowLimit
    /\ Readmitted(p)
    /\ UNCHANGED company /\ History

IndividualDeactivate(p) ==
    /\ KindOf[p] = "individual" /\ Exists(p)
    /\ accounts' = [accounts EXCEPT ![p] = PutOut(p)]
    /\ UNCHANGED <<company, links>> /\ History

IndividualReactivate(p) ==
    /\ KindOf[p] = "individual" /\ Exists(p)
    /\ Readmitted(p)
    /\ UNCHANGED company /\ History
-----------------------------------------------------------------------------
(* What the operator does with the company *)

MayArchive == company.status \notin {"none", "churned"}

Archive ==
    /\ MayArchive
    /\ company' = [status |-> "churned", archived |-> [p \in Members |-> Access(p)]]
    /\ accounts' = [p \in People |-> IF p \in Members THEN PutOut(p) ELSE accounts[p]]
    /\ before' = IF byHand THEN before ELSE [p \in Members |-> Access(p)]
    /\ UNCHANGED <<links, byHand>>

\* A mutation of TakenBack: the snapshot has no more than who was active.
TakenBackActive(p) ==
    IF p \in DOMAIN company.archived
    THEN [accounts[p] EXCEPT !.active = company.archived[p].active] ELSE accounts[p]

\* A mutation of TakenBack: all are let in.
TakenBackAll(p) == [accounts[p] EXCEPT !.active = accounts[p].verified, !.revoked = FALSE]

TakenBack(p) ==
    IF p \in DOMAIN company.archived
    THEN [accounts[p] EXCEPT !.active = company.archived[p].active,
                             !.revoked = company.archived[p].revoked]
    ELSE accounts[p]

Restore ==
    /\ company.status = "churned"
    /\ company' = [status |-> "active", archived |-> NoSnapshot]
    /\ accounts' = [p \in People |-> IF p \in Members THEN TakenBack(p) ELSE accounts[p]]
    /\ before' = NoSnapshot
    /\ UNCHANGED <<links, byHand>>

\* The edit page has a field for the status, and saves the one it showed or another.
EditCompany(status) ==
    /\ company.status # "none"
    /\ company' = [company EXCEPT !.status = status]
    /\ byHand' = (byHand \/ (company.archived # NoSnapshot /\ status # "churned"))
    /\ UNCHANGED <<accounts, links, before>>
-----------------------------------------------------------------------------
Next ==
    \/ InviteCompany \/ RegisterCompany \/ RevokeCompany
    \/ Archive \/ Restore
    \/ \E status \in EditedStatuses : EditCompany(status)
    \/ \E l \in links :
          \/ AcceptMemberInvite(l) \/ AcceptInvite(l) \/ AcceptCompanyInvite(l)
          \/ LinkExpires(l)
    \/ \E p \in People :
          \/ InviteIndividual(p) \/ InviteTeam(p) \/ RegisterIndividual(p) \/ RevokeMember(p)
          \/ OperatorResend(p) \/ ChangePassword(p)
          \/ IndividualEdit(p) \/ IndividualDeactivate(p) \/ IndividualReactivate(p)
          \/ EmployeeInvite(p) \/ EmployeeResend(p) \/ EmployeeEdit(p)
          \/ EmployeeDeactivate(p) \/ EmployeeReactivate(p)

Spec == Init /\ [][Next]_vars
-----------------------------------------------------------------------------
(* Properties *)

Flags == [active : BOOLEAN, revoked : BOOLEAN]

\* Every variable keeps its shape, and nobody who is put out is active.
TypeOK ==
    /\ company.status \in Statuses
    /\ \A s \in {company.archived, before} : DOMAIN s \subseteq People /\ s \in [DOMAIN s -> Flags]
    /\ \A p \in People :
          \/ accounts[p] = NoAccount
          \/ \E active, revoked, verified \in BOOLEAN, stamp \in 0..MaxStamps[p] :
                accounts[p] = Account(active, revoked, verified, stamp) /\ ~(active /\ revoked)
    /\ links \subseteq UNION {{Link(p, n) : n \in 0..MaxStamps[p]} : p \in People}
    /\ byHand \in BOOLEAN

\* A company that is restored has the people it had, each with the access of the time when it
\* was archived, unless the operator ever edited the status of an archived company by hand.
RestoreReturnsAccess ==
    [][~(Restore /\ ~byHand /\ before # NoSnapshot)
          \/ \A p \in DOMAIN before :
                accounts'[p].active = before[p].active /\ accounts'[p].revoked = before[p].revoked]_vars

\* Whoever was put out comes back only when the company's admin or the operator readmits them:
\* an old invitation, mailed before, never does it.
OutUntilReadmitted ==
    [][\A p \in People :
          Exists(p) /\ accounts[p].revoked /\ accounts'[p].exists /\ accounts'[p].active =>
              Restore \/ EmployeeReactivate(p) \/ IndividualReactivate(p)]_vars

=============================================================================
