---------------------------- MODULE Office_proofs ----------------------------
(***************************************************************************)
(* Proofs about the parts of Office, for any number of people, members,    *)
(* runs and operators, and every bound.                                    *)
(***************************************************************************)
EXTENDS Office, Sequences, FiniteSetTheorems, WellFoundedInduction, TLAPS

(* People.  The inductive invariant: nobody is active who was put out, also in the snapshot  *)
(* of an archived company; and that snapshot is the access its people had, all of whom still *)
(* have an account, until it is edited by hand.                                              *)

AccountRows == [exists: {TRUE}, active: BOOLEAN, revoked: BOOLEAN, verified: BOOLEAN, stamp: Nat]

AccountsOf(p) ==
    {a \in AccountRows : a.stamp <= MaxStamps[p] /\ ~(a.active /\ a.revoked)} \union {NoAccount}

Snapshot(s) ==
    /\ DOMAIN s \subseteq People /\ s \in [DOMAIN s -> Flags]
    /\ \A p \in DOMAIN s : ~(s[p].active /\ s[p].revoked)

LinksOf == {l \in [person: People, stamp: Nat] : l.stamp <= MaxStamps[l.person]}

AccountTypes ==
    /\ accounts = [p \in People |-> accounts[p]]
    /\ \A p \in People : accounts[p] \in AccountsOf(p)

CompanyTypes ==
    /\ company = [status |-> company.status, archived |-> company.archived]
    /\ company.status \in Statuses
    /\ Snapshot(company.archived) /\ Snapshot(before) /\ byHand \in BOOLEAN

SnapshotStands ==
    ~byHand /\ before # NoSnapshot =>
        company.status = "churned" /\ company.archived = before /\ DOMAIN before \subseteq Members

PeopleInv == AccountTypes /\ CompanyTypes /\ links \subseteq LinksOf /\ SnapshotStands

LEMMA NoAccountThere == ~NoAccount.exists
  BY DEF NoAccount

LEMMA AccountThere ==
    ASSUME AccountTypes, NEW p \in People, Exists(p)
    PROVE  /\ accounts[p] \in AccountRows /\ accounts[p].stamp <= MaxStamps[p]
           /\ ~(accounts[p].active /\ accounts[p].revoked)
  <1>1. accounts[p] # NoAccount
    BY NoAccountThere DEF Exists
  <1> QED
    BY <1>1 DEF AccountTypes, AccountsOf

LEMMA BossIsOne == Boss \in People
  BY OneBoss

LEMMA EmptySnapshot == Snapshot(NoSnapshot) /\ DOMAIN NoSnapshot = {}
  BY DEF Snapshot, NoSnapshot

LEMMA PeopleTyped == PeopleInv => TypeOK
  <1> SUFFICES ASSUME PeopleInv PROVE TypeOK
    OBVIOUS
  <1>1. \A s \in {company.archived, before} : DOMAIN s \subseteq People /\ s \in [DOMAIN s -> Flags]
    BY DEF PeopleInv, CompanyTypes, Snapshot
  <1>2. ASSUME NEW p \in People, accounts[p] # NoAccount
        PROVE  \E active, revoked, verified \in BOOLEAN, stamp \in 0..MaxStamps[p] :
                  accounts[p] = Account(active, revoked, verified, stamp) /\ ~(active /\ revoked)
    <2> DEFINE a == accounts[p]
    <2>1. a \in AccountRows /\ a.stamp <= MaxStamps[p] /\ ~(a.active /\ a.revoked)
      BY <1>2 DEF PeopleInv, AccountTypes, AccountsOf
    <2>2. a.stamp \in 0..MaxStamps[p]
      <3>1. a.stamp \in Nat
        BY <2>1 DEF AccountRows
      <3>2. MaxStamps[p] \in Nat
        BY BoundsOfPeople
      <3> HIDE DEF a
      <3> QED
        BY <2>1, <3>1, <3>2
    <2>3. /\ a.active \in BOOLEAN /\ a.revoked \in BOOLEAN /\ a.verified \in BOOLEAN
          /\ a = Account(a.active, a.revoked, a.verified, a.stamp)
      BY <2>1 DEF AccountRows, Account
    <2> HIDE DEF a
    <2>4. \E active, revoked, verified \in BOOLEAN, stamp \in 0..MaxStamps[p] :
             a = Account(active, revoked, verified, stamp) /\ ~(active /\ revoked)
      BY <2>1, <2>2, <2>3, Zenon
    <2> QED
      BY <2>4 DEF a
  <1>3. links \subseteq UNION {{Link(p, n) : n \in 0..MaxStamps[p]} : p \in People}
    <2> SUFFICES ASSUME NEW l \in links
                 PROVE  \E p \in People : \E n \in 0..MaxStamps[p] : l = Link(p, n)
      OBVIOUS
    <2>1. l \in LinksOf
      BY DEF PeopleInv
    <2>2. l.person \in People /\ l.stamp \in 0..MaxStamps[l.person] /\ l = Link(l.person, l.stamp)
      BY <2>1, BoundsOfPeople DEF LinksOf, Link
    <2> QED
      BY <2>2
  <1> QED
    BY <1>1, <1>2, <1>3 DEF TypeOK, PeopleInv, CompanyTypes

LEMMA PeopleInit == Init => PeopleInv
  <1> SUFFICES ASSUME Init PROVE PeopleInv
    OBVIOUS
  <1>1. AccountTypes
    BY DEF Init, AccountTypes, AccountsOf
  <1>2. CompanyTypes
    BY EmptySnapshot DEF Init, CompanyTypes, Statuses
  <1> QED
    BY <1>1, <1>2 DEF Init, PeopleInv, SnapshotStands

\* What happens to one account: who is put out stays out unless the account goes, and the
\* company's people keep theirs.
LEMMA OneAccount ==
    ASSUME PeopleInv, NEW p \in People, NEW a \in AccountsOf(p),
           accounts' = [accounts EXCEPT ![p] = a],
           KindOf[p] \in {"company_admin", "employee"} /\ Exists(p) => a.exists,
           links' \subseteq LinksOf, UNCHANGED <<company, before, byHand>>
    PROVE  PeopleInv'
  <1>1. accounts'[p] = a /\ \A q \in People \ {p} : accounts'[q] = accounts[q]
    BY DEF PeopleInv, AccountTypes
  <1>2. AccountTypes'
    BY <1>1 DEF PeopleInv, AccountTypes, AccountsOf
  <1>3. Members \subseteq Members'
    BY <1>1 DEF Members, Exists
  <1>4. SnapshotStands'
    BY <1>3 DEF PeopleInv, SnapshotStands
  <1> QED
    BY <1>2, <1>4 DEF PeopleInv, CompanyTypes

\* The rows that handlers write.
LEMMA NewAccount ==
    ASSUME NEW p \in People, NEW active \in BOOLEAN
    PROVE  Account(active, FALSE, FALSE, 0) \in AccountsOf(p)
  <1> DEFINE a == Account(active, FALSE, FALSE, 0)
  <1>1. MaxStamps[p] \in Nat
    BY BoundsOfPeople
  <1>2. a \in AccountRows
    BY DEF Account, AccountRows
  <1>3. a.stamp = 0
    BY DEF Account
  <1>4. ~a.revoked
    BY DEF Account
  <1> HIDE DEF a
  <1>5. a \in AccountsOf(p)
    BY <1>1, <1>2, <1>3, <1>4 DEF AccountsOf
  <1> QED
    BY <1>5 DEF a

LEMMA EditedRow ==
    ASSUME NEW p \in People, NEW a \in AccountRows, NEW active \in BOOLEAN, NEW revoked \in BOOLEAN,
           NEW verified \in BOOLEAN, NEW stamp \in Nat, stamp <= MaxStamps[p],
           ~(active /\ revoked),
           NEW b, b = [a EXCEPT !.active = active, !.revoked = revoked, !.verified = verified,
                                !.stamp = stamp]
    PROVE  b \in AccountsOf(p) /\ b.exists
  <1>1. /\ b \in AccountRows /\ b.active = active /\ b.revoked = revoked /\ b.stamp = stamp
        /\ b.exists
    BY DEF AccountRows
  <1> QED
    BY <1>1 DEF AccountsOf

LEMMA LinkTyped ==
    ASSUME PeopleInv, NEW p \in People, NEW n \in Nat, n <= MaxStamps[p],
           links' = links \union {Link(p, n)}
    PROVE  links' \subseteq LinksOf
  <1>1. Link(p, n) \in LinksOf
    BY DEF Link, LinksOf
  <1> QED
    BY <1>1 DEF PeopleInv

LEMMA InvitedOne ==
    ASSUME PeopleInv, NEW p \in People, Invited(p), UNCHANGED <<company, before, byHand>>
    PROVE  PeopleInv'
  <1>1. MaxStamps[p] \in Nat
    BY BoundsOfPeople
  <1>2. links' \subseteq LinksOf
    BY <1>1, LinkTyped DEF Invited
  <1>3. Account(FALSE, FALSE, FALSE, 0) \in AccountsOf(p)
    BY NewAccount
  <1> QED
    BY <1>2, <1>3, OneAccount DEF Invited

LEMMA SignedUpOne ==
    ASSUME PeopleInv, NEW p \in People, SignedUp(p), UNCHANGED <<company, before, byHand>>
    PROVE  PeopleInv'
  <1>1. links' \subseteq LinksOf
    BY DEF PeopleInv, SignedUp
  <1>2. Account(TRUE, FALSE, FALSE, 0) \in AccountsOf(p)
    BY NewAccount
  <1> QED
    BY <1>1, <1>2, OneAccount DEF SignedUp

LEMMA DeletedOne ==
    ASSUME PeopleInv, NEW p \in People, Deleted(p)
    PROVE  AccountTypes' /\ links' \subseteq LinksOf
           /\ (\A q \in People \ {p} : Exists(q) => Exists(q)')
  BY DEF PeopleInv, AccountTypes, AccountsOf, Deleted, Exists

\* A row that exists is edited, and perhaps a link is mailed.
LEMMA EditedOne ==
    ASSUME PeopleInv, NEW p \in People, Exists(p), NEW active \in BOOLEAN, NEW revoked \in BOOLEAN,
           NEW verified \in BOOLEAN, NEW stamp \in Nat, stamp <= MaxStamps[p],
           ~(active /\ revoked),
           accounts' = [accounts EXCEPT ![p] =
                            [accounts[p] EXCEPT !.active = active, !.revoked = revoked,
                                                !.verified = verified, !.stamp = stamp]],
           links' = links \/ links' = links \union {Link(p, stamp)},
           UNCHANGED <<company, before, byHand>>
    PROVE  PeopleInv'
  <1>1. accounts[p] \in AccountRows
    BY AccountThere DEF PeopleInv
  <1> DEFINE b == [accounts[p] EXCEPT !.active = active, !.revoked = revoked,
                                      !.verified = verified, !.stamp = stamp]
  <1>2. b \in AccountsOf(p) /\ b.exists
    BY <1>1, EditedRow
  <1>3. links' \subseteq LinksOf
    BY LinkTyped DEF PeopleInv
  <1> HIDE DEF b
  <1>4. accounts' = [accounts EXCEPT ![p] = b]
    BY DEF b
  <1> QED
    BY <1>2, <1>3, <1>4, OneAccount

\* The link's stamp is the next one.
LEMMA NextStamp ==
    ASSUME PeopleInv, NEW p \in People, Exists(p), accounts[p].stamp < MaxStamps[p]
    PROVE  NewStamp(p) \in Nat /\ NewStamp(p) <= MaxStamps[p]
  <1>1. accounts[p].stamp \in Nat
    <2>1. accounts[p] \in AccountRows
      BY AccountThere DEF PeopleInv
    <2> QED
      BY <2>1 DEF AccountRows
  <1>2. MaxStamps[p] \in Nat
    BY BoundsOfPeople
  <1> QED
    BY <1>1, <1>2 DEF NewStamp

LEMMA RowFields ==
    ASSUME NEW a \in AccountRows
    PROVE  /\ a.active \in BOOLEAN /\ a.revoked \in BOOLEAN /\ a.verified \in BOOLEAN
           /\ a.stamp \in Nat
           /\ \A stamp : [a EXCEPT !.stamp = stamp] =
                 [a EXCEPT !.active = a.active, !.revoked = a.revoked,
                           !.verified = a.verified, !.stamp = stamp]
  BY DEF AccountRows

LEMMA RowsEqual ==
    ASSUME NEW a \in AccountRows, NEW n
    PROVE  /\ [a EXCEPT !.active = TRUE, !.verified = TRUE, !.stamp = n] =
              [a EXCEPT !.active = TRUE, !.revoked = a.revoked, !.verified = TRUE, !.stamp = n]
           /\ [a EXCEPT !.active = FALSE, !.revoked = TRUE] =
              [a EXCEPT !.active = FALSE, !.revoked = TRUE, !.verified = a.verified,
                        !.stamp = a.stamp]
           /\ [a EXCEPT !.active = TRUE, !.revoked = FALSE] =
              [a EXCEPT !.active = TRUE, !.revoked = FALSE, !.verified = a.verified,
                        !.stamp = a.stamp]
           /\ [[a EXCEPT !.revoked = FALSE, !.active = FALSE] EXCEPT !.stamp = n] =
              [a EXCEPT !.active = FALSE, !.revoked = FALSE, !.verified = a.verified, !.stamp = n]
  <1>1. [a EXCEPT !.active = TRUE, !.verified = TRUE, !.stamp = n] =
        [a EXCEPT !.active = TRUE, !.revoked = a.revoked, !.verified = TRUE, !.stamp = n]
    BY DEF AccountRows
  <1>2. [a EXCEPT !.active = FALSE, !.revoked = TRUE] =
        [a EXCEPT !.active = FALSE, !.revoked = TRUE, !.verified = a.verified,
                  !.stamp = a.stamp]
    BY DEF AccountRows
  <1>3. [a EXCEPT !.active = TRUE, !.revoked = FALSE] =
        [a EXCEPT !.active = TRUE, !.revoked = FALSE, !.verified = a.verified,
                  !.stamp = a.stamp]
    BY DEF AccountRows
  <1>4. [[a EXCEPT !.revoked = FALSE, !.active = FALSE] EXCEPT !.stamp = n] =
        [a EXCEPT !.active = FALSE, !.revoked = FALSE, !.verified = a.verified, !.stamp = n]
    BY DEF AccountRows
  <1> QED
    BY <1>1, <1>2, <1>3, <1>4

LEMMA ResentOne ==
    ASSUME PeopleInv, NEW p \in People, Exists(p), Mailed(p, accounts[p]),
           UNCHANGED <<company, before, byHand>>
    PROVE  PeopleInv'
  <1> DEFINE a == accounts[p]
  <1>1. /\ a \in AccountRows /\ ~(a.active /\ a.revoked)
        /\ NewStamp(p) \in Nat /\ NewStamp(p) <= MaxStamps[p]
    BY AccountThere, NextStamp DEF PeopleInv, Mailed
  <1>2. accounts' = [accounts EXCEPT ![p] = [a EXCEPT !.active = a.active, !.revoked = a.revoked,
                                               !.verified = a.verified, !.stamp = NewStamp(p)]]
    BY <1>1, RowFields DEF Mailed
  <1>3. a.active \in BOOLEAN /\ a.revoked \in BOOLEAN /\ a.verified \in BOOLEAN
    BY <1>1, RowFields
  <1> QED
    BY <1>1, <1>2, <1>3, EditedOne DEF Mailed

LEMMA StampedOne ==
    ASSUME PeopleInv, NEW p \in People, Edited(p)
    PROVE  PeopleInv'
  <1> DEFINE a == accounts[p]
  <1>1. /\ a \in AccountRows /\ ~(a.active /\ a.revoked)
        /\ NewStamp(p) \in Nat /\ NewStamp(p) <= MaxStamps[p]
    BY AccountThere, NextStamp DEF PeopleInv, Edited
  <1>2. accounts' = [accounts EXCEPT ![p] = [a EXCEPT !.stamp = NewStamp(p)]]
    BY DEF Edited
  <1>3. accounts' = [accounts EXCEPT ![p] = [a EXCEPT !.active = a.active, !.revoked = a.revoked,
                                               !.verified = a.verified, !.stamp = NewStamp(p)]]
    BY <1>1, <1>2, RowFields
  <1>4. a.active \in BOOLEAN /\ a.revoked \in BOOLEAN /\ a.verified \in BOOLEAN
    BY <1>1, RowFields
  <1> QED
    BY <1>1, <1>3, <1>4, EditedOne DEF Edited, History

LEMMA PutOutOne ==
    ASSUME PeopleInv, NEW p \in People, Exists(p), accounts' = [accounts EXCEPT ![p] = PutOut(p)],
           UNCHANGED <<company, links, before, byHand>>
    PROVE  PeopleInv'
  <1> DEFINE a == accounts[p]
  <1>1. a \in AccountRows /\ a.stamp <= MaxStamps[p]
    BY AccountThere DEF PeopleInv
  <1>2. accounts' = [accounts EXCEPT ![p] = [a EXCEPT !.active = FALSE, !.revoked = TRUE,
                                               !.verified = a.verified, !.stamp = a.stamp]]
    BY <1>1, RowsEqual DEF PutOut
  <1>3. a.verified \in BOOLEAN /\ a.stamp \in Nat
    BY <1>1, RowFields
  <1> QED
    BY <1>1, <1>2, <1>3, EditedOne

LEMMA ReadmittedOne ==
    ASSUME PeopleInv, NEW p \in People, Exists(p), Readmitted(p),
           UNCHANGED <<company, before, byHand>>
    PROVE  PeopleInv'
  <1> DEFINE a == accounts[p]
  <1>1. a \in AccountRows /\ a.stamp <= MaxStamps[p]
    BY AccountThere DEF PeopleInv
  <1>2. a.verified \in BOOLEAN /\ a.stamp \in Nat
    BY <1>1, RowFields
  <1>3. CASE a.verified
    <2>1. accounts' = [accounts EXCEPT ![p] = [a EXCEPT !.active = TRUE, !.revoked = FALSE]]
          /\ links' = links
      BY <1>3 DEF Readmitted
    <2>2. accounts' = [accounts EXCEPT ![p] = [a EXCEPT !.active = TRUE, !.revoked = FALSE,
                                                 !.verified = a.verified, !.stamp = a.stamp]]
      BY <1>1, <2>1, RowsEqual
    <2> QED
      BY <1>1, <1>2, <2>1, <2>2, EditedOne
  <1>4. CASE ~a.verified
    <2>1. Mailed(p, [a EXCEPT !.revoked = FALSE, !.active = FALSE])
      BY <1>4 DEF Readmitted
    <2>2. NewStamp(p) \in Nat /\ NewStamp(p) <= MaxStamps[p]
      BY <2>1, NextStamp DEF Mailed
    <2>3. accounts' = [accounts EXCEPT ![p] = [a EXCEPT !.active = FALSE, !.revoked = FALSE,
                                                 !.verified = a.verified, !.stamp = NewStamp(p)]]
      BY <1>1, <2>1, RowsEqual DEF Mailed
    <2>4. links' = links \union {Link(p, NewStamp(p))}
      BY <2>1 DEF Mailed
    <2> QED
      BY <1>2, <2>2, <2>3, <2>4, EditedOne
  <1> QED
    BY <1>2, <1>3, <1>4

\* Who accepts an invitation has an account, and nobody has put them out.
LEMMA AcceptedOne ==
    ASSUME PeopleInv, NEW l \in links, NEW kinds, Accepted(l, kinds)
    PROVE  /\ AccountTypes' /\ links' \subseteq LinksOf /\ Members \subseteq Members'
           /\ ~Shut(l.person) /\ UNCHANGED <<before, byHand>> /\ l.person \in People
           /\ Exists(l.person) /\ ~accounts[l.person].revoked
           /\ \A q \in People \ {l.person} : accounts'[q] = accounts[q]
  <1> DEFINE p == l.person
             a == accounts[p]
             b == [a EXCEPT !.active = TRUE, !.revoked = a.revoked, !.verified = TRUE,
                            !.stamp = NewStamp(p)]
  <1>1. /\ p \in People /\ Exists(p) /\ ~a.revoked /\ ~Shut(p)
        /\ accounts[p].stamp < MaxStamps[p]
        /\ accounts' = [accounts EXCEPT ![p] =
              [a EXCEPT !.active = TRUE, !.verified = TRUE, !.stamp = NewStamp(p)]]
        /\ UNCHANGED <<links, before, byHand>>
    BY DEF Accepted, Works, History, PeopleInv, LinksOf
  <1>2. a \in AccountRows /\ NewStamp(p) \in Nat /\ NewStamp(p) <= MaxStamps[p]
    BY <1>1, AccountThere, NextStamp DEF PeopleInv
  <1>3. a.revoked \in BOOLEAN
    BY <1>2, RowFields
  <1>4. accounts' = [accounts EXCEPT ![p] = b]
    BY <1>1, <1>2, RowsEqual
  <1>5. b \in AccountsOf(p) /\ b.exists
    BY <1>1, <1>2, <1>3, EditedRow
  <1> HIDE DEF b
  <1>6. accounts'[p] = b /\ \A q \in People \ {p} : accounts'[q] = accounts[q]
    BY <1>1, <1>4 DEF PeopleInv, AccountTypes
  <1>7. AccountTypes'
    BY <1>4, <1>5, <1>6 DEF PeopleInv, AccountTypes, AccountsOf
  <1>8. Members \subseteq Members'
    BY <1>5, <1>6 DEF Members, Exists
  <1> QED
    BY <1>1, <1>6, <1>7, <1>8 DEF PeopleInv

\* A company comes: no snapshot of it stands.
LEMMA CompanyComes ==
    ASSUME PeopleInv, company.status # "churned", AccountTypes', links' \subseteq LinksOf,
           \/ \E status \in Statuses : company' = [company EXCEPT !.status = status]
           \/ company' = [status |-> "none", archived |-> NoSnapshot],
           UNCHANGED <<before, byHand>>
    PROVE  PeopleInv'
  <1>1. CompanyTypes'
    <2>1. CASE company' = [status |-> "none", archived |-> NoSnapshot]
      BY <2>1, EmptySnapshot DEF PeopleInv, CompanyTypes, Statuses
    <2>2. ASSUME NEW status \in Statuses, company' = [company EXCEPT !.status = status]
          PROVE  CompanyTypes'
      <3>1. company' = [status |-> status, archived |-> company.archived]
        BY <2>2 DEF PeopleInv, CompanyTypes
      <3> QED
        BY <3>1 DEF PeopleInv, CompanyTypes
    <2> QED
      BY <2>1, <2>2
  <1>2. SnapshotStands'
    BY DEF PeopleInv, SnapshotStands
  <1> QED
    BY <1>1, <1>2 DEF PeopleInv

LEMMA CompanyMade ==
    ASSUME PeopleInv, InviteCompany \/ RegisterCompany
    PROVE  PeopleInv'
  <1>1. /\ company.status # "churned" /\ company' = [company EXCEPT !.status = "prospect"]
        /\ UNCHANGED <<before, byHand>>
    BY DEF InviteCompany, RegisterCompany, History
  <1>2. MaxStamps[Boss] \in Nat /\ Boss \in People
    BY BoundsOfPeople, BossIsOne
  <1>3. links' \subseteq LinksOf
    <2>1. CASE InviteCompany
      BY <1>2, <2>1, LinkTyped DEF InviteCompany, Invited
    <2>2. CASE RegisterCompany
      BY <2>2 DEF RegisterCompany, SignedUp, PeopleInv
    <2> QED
      BY <2>1, <2>2
  <1>4. PICK active \in BOOLEAN :
           accounts' = [accounts EXCEPT ![Boss] = Account(active, FALSE, FALSE, 0)]
    BY DEF InviteCompany, RegisterCompany, Invited, SignedUp
  <1>5. Account(active, FALSE, FALSE, 0) \in AccountsOf(Boss)
    BY <1>2, NewAccount
  <1>6. AccountTypes'
    BY <1>2, <1>4, <1>5 DEF PeopleInv, AccountTypes, AccountsOf
  <1>7. "prospect" \in Statuses
    BY DEF Statuses
  <1> QED
    BY <1>1, <1>3, <1>6, <1>7, CompanyComes

LEMMA CompanyRevoked ==
    ASSUME PeopleInv, RevokeCompany
    PROVE  PeopleInv'
  BY BossIsOne, DeletedOne, CompanyComes DEF RevokeCompany, History

LEMMA CompanyAccepts ==
    ASSUME PeopleInv, NEW l \in links, AcceptCompanyInvite(l)
    PROVE  PeopleInv'
  <1>1. Accepted(l, {"company_admin"}) /\ company' = [company EXCEPT !.status = "active"]
    BY DEF AcceptCompanyInvite
  <1>2. company.status # "churned"
    BY <1>1, AcceptedOne DEF Accepted, Shut
  <1>3. "active" \in Statuses
    BY DEF Statuses
  <1> QED
    BY <1>1, <1>2, <1>3, AcceptedOne, CompanyComes

LEMMA CompanyEdited ==
    ASSUME PeopleInv, NEW status \in EditedStatuses, EditCompany(status)
    PROVE  PeopleInv'
  <1>1. /\ company' = [company EXCEPT !.status = status]
        /\ byHand' = (byHand \/ (company.archived # NoSnapshot /\ status # "churned"))
        /\ UNCHANGED <<accounts, links, before>>
    BY DEF EditCompany
  <1>2. company' = [status |-> status, archived |-> company.archived]
    BY <1>1 DEF PeopleInv, CompanyTypes
  <1>3. byHand' \in BOOLEAN
    BY <1>1
  <1>4. CompanyTypes'
    BY <1>1, <1>2, <1>3, BoundsOfPeople DEF PeopleInv, CompanyTypes
  <1>5. SnapshotStands'
    BY <1>1, <1>2 DEF PeopleInv, SnapshotStands, Members, Exists
  <1> QED
    BY <1>1, <1>4, <1>5 DEF PeopleInv, AccountTypes

LEMMA MembersExist ==
    ASSUME PeopleInv, NEW p \in Members
    PROVE  p \in People /\ Exists(p) /\ accounts[p] \in AccountRows
           /\ accounts[p].stamp <= MaxStamps[p] /\ ~(accounts[p].active /\ accounts[p].revoked)
  BY AccountThere DEF PeopleInv, Members

LEMMA CompanyArchived ==
    ASSUME PeopleInv, Archive
    PROVE  PeopleInv'
  <1> DEFINE taken == [p \in Members |-> Access(p)]
  <1>1. /\ company' = [status |-> "churned", archived |-> taken]
        /\ accounts' = [p \in People |-> IF p \in Members THEN PutOut(p) ELSE accounts[p]]
        /\ before' = (IF byHand THEN before ELSE taken) /\ UNCHANGED <<links, byHand>>
    BY DEF Archive
  <1>2. Snapshot(taken) /\ DOMAIN taken = Members
    <2>1. Members \subseteq People
      BY DEF Members
    <2>2. ASSUME NEW p \in Members
          PROVE  Access(p) \in Flags /\ ~(Access(p).active /\ Access(p).revoked)
      <3>1. /\ accounts[p].active \in BOOLEAN /\ accounts[p].revoked \in BOOLEAN
            /\ ~(accounts[p].active /\ accounts[p].revoked)
        BY MembersExist, RowFields
      <3> QED
        BY <3>1 DEF Access, Flags
    <2> QED
      BY <2>1, <2>2 DEF Snapshot
  <1> HIDE DEF taken
  <1>3. CompanyTypes'
    BY <1>1, <1>2 DEF PeopleInv, CompanyTypes, Statuses
  <1>4. ASSUME NEW p \in Members
        PROVE  PutOut(p) \in AccountsOf(p) /\ PutOut(p).exists
    <2>1. /\ accounts[p] \in AccountRows /\ accounts[p].stamp <= MaxStamps[p] /\ p \in People
          /\ accounts[p].verified \in BOOLEAN /\ accounts[p].stamp \in Nat
      BY MembersExist, RowFields
    <2>2. PutOut(p) = [accounts[p] EXCEPT !.active = FALSE, !.revoked = TRUE,
                                          !.verified = accounts[p].verified,
                                          !.stamp = accounts[p].stamp]
      BY <2>1, RowsEqual DEF PutOut
    <2> QED
      BY <2>1, <2>2, EditedRow
  <1>5. AccountTypes'
    BY <1>1, <1>4 DEF PeopleInv, AccountTypes, AccountsOf
  <1>6. Members \subseteq Members'
    BY <1>1, <1>4 DEF Members, Exists
  <1>7. SnapshotStands'
    BY <1>1, <1>2, <1>6 DEF SnapshotStands
  <1> QED
    BY <1>1, <1>3, <1>5, <1>7 DEF PeopleInv

LEMMA CompanyRestored ==
    ASSUME PeopleInv, Restore
    PROVE  PeopleInv'
  <1>1. /\ company' = [status |-> "active", archived |-> NoSnapshot]
        /\ accounts' = [p \in People |-> IF p \in Members THEN TakenBack(p) ELSE accounts[p]]
        /\ before' = NoSnapshot /\ UNCHANGED <<links, byHand>>
    BY DEF Restore
  <1>2. ASSUME NEW p \in Members
        PROVE  TakenBack(p) \in AccountsOf(p)
    <2>1. /\ accounts[p] \in AccountRows /\ accounts[p].stamp <= MaxStamps[p] /\ p \in People
          /\ ~(accounts[p].active /\ accounts[p].revoked)
      BY MembersExist
    <2>2. CASE p \in DOMAIN company.archived
      <3> DEFINE s == company.archived[p]
                 b == [accounts[p] EXCEPT !.active = s.active, !.revoked = s.revoked]
      <3>1. s \in Flags /\ ~(s.active /\ s.revoked)
        BY <2>2 DEF PeopleInv, CompanyTypes, Snapshot
      <3>2. s.active \in BOOLEAN /\ s.revoked \in BOOLEAN
        BY <3>1 DEF Flags
      <3>3. TakenBack(p) = b
        BY <2>2 DEF TakenBack
      <3> HIDE DEF s
      <3>4. b \in AccountRows /\ b.active = s.active /\ b.revoked = s.revoked
            /\ b.stamp = accounts[p].stamp
        BY <2>1, <3>2 DEF AccountRows
      <3> HIDE DEF b
      <3> QED
        BY <2>1, <3>1, <3>3, <3>4 DEF AccountsOf
    <2>3. CASE p \notin DOMAIN company.archived
      BY <2>1, <2>3 DEF TakenBack, AccountsOf
    <2> QED
      BY <2>2, <2>3
  <1>3. AccountTypes'
    BY <1>1, <1>2 DEF PeopleInv, AccountTypes, AccountsOf
  <1>4. CompanyTypes'
    BY <1>1, EmptySnapshot DEF PeopleInv, CompanyTypes, Statuses
  <1> QED
    BY <1>1, <1>3, <1>4 DEF PeopleInv, SnapshotStands

\* What one person's request does.
LEMMA PersonStep ==
    ASSUME PeopleInv, NEW p \in People,
           \/ InviteIndividual(p) \/ InviteTeam(p) \/ RegisterIndividual(p) \/ RevokeMember(p)
           \/ OperatorResend(p) \/ ChangePassword(p)
           \/ IndividualEdit(p) \/ IndividualDeactivate(p) \/ IndividualReactivate(p)
           \/ EmployeeInvite(p) \/ EmployeeResend(p) \/ EmployeeEdit(p)
           \/ EmployeeDeactivate(p) \/ EmployeeReactivate(p)
    PROVE  PeopleInv'
  <1>1. CASE InviteIndividual(p) \/ InviteTeam(p) \/ EmployeeInvite(p)
    BY <1>1, InvitedOne DEF InviteIndividual, InviteTeam, EmployeeInvite, History
  <1>2. CASE RegisterIndividual(p)
    BY <1>2, SignedUpOne DEF RegisterIndividual, History
  <1>3. CASE RevokeMember(p)
    <2>1. /\ KindOf[p] \notin {"company_admin", "employee"} /\ Deleted(p)
          /\ UNCHANGED <<company, before, byHand>>
      BY <1>3 DEF RevokeMember, History
    <2>2. NoAccount \in AccountsOf(p)
      BY DEF AccountsOf
    <2>3. links' \subseteq LinksOf
      BY <2>1 DEF Deleted, PeopleInv
    <2> QED
      BY <2>1, <2>2, <2>3, OneAccount DEF Deleted
  <1>4. CASE OperatorResend(p) \/ EmployeeResend(p)
    BY <1>4, ResentOne DEF OperatorResend, EmployeeResend, Pending, History
  <1>5. CASE ChangePassword(p) \/ IndividualEdit(p) \/ EmployeeEdit(p)
    BY <1>5, StampedOne DEF ChangePassword, IndividualEdit, EmployeeEdit
  <1>6. CASE IndividualDeactivate(p) \/ EmployeeDeactivate(p)
    BY <1>6, PutOutOne DEF IndividualDeactivate, EmployeeDeactivate, History
  <1>7. CASE IndividualReactivate(p) \/ EmployeeReactivate(p)
    BY <1>7, ReadmittedOne DEF IndividualReactivate, EmployeeReactivate, History
  <1> QED
    BY <1>1, <1>2, <1>3, <1>4, <1>5, <1>6, <1>7

LEMMA PeopleStep == PeopleInv /\ [Next]_vars => PeopleInv'
  <1> SUFFICES ASSUME PeopleInv, [Next]_vars PROVE PeopleInv'
    OBVIOUS
  <1>1. ASSUME NEW l \in links, AcceptMemberInvite(l) \/ AcceptInvite(l) PROVE PeopleInv'
    <2>1. PICK kinds : Accepted(l, kinds) /\ UNCHANGED company
      BY <1>1 DEF AcceptMemberInvite, AcceptInvite
    <2> QED
      BY <2>1, AcceptedOne DEF PeopleInv, CompanyTypes, SnapshotStands
  <1>2. ASSUME NEW l \in links, LinkExpires(l) PROVE PeopleInv'
    BY <1>2 DEF LinkExpires, History, PeopleInv, AccountTypes, CompanyTypes, SnapshotStands, Members,
                Exists
  <1>3. CASE UNCHANGED vars
    BY <1>3 DEF vars, PeopleInv, AccountTypes, CompanyTypes, SnapshotStands, Members, Exists
  <1> QED
    BY <1>1, <1>2, <1>3, CompanyMade, CompanyRevoked, CompanyAccepts, CompanyArchived,
       CompanyRestored, CompanyEdited, PersonStep DEF Next

\* Who is put out is let in by nothing but Restore and the two handlers that readmit.
LEMMA ReadmittedStep ==
    ASSUME PeopleInv, [Next]_vars, NEW p \in People, Exists(p), accounts[p].revoked,
           accounts'[p].exists, accounts'[p].active
    PROVE  Restore \/ EmployeeReactivate(p) \/ IndividualReactivate(p)
  <1> DEFINE a == accounts[p]
  <1>1. a \in AccountRows /\ ~a.active
    BY AccountThere DEF PeopleInv
  <1>2. accounts'[p] # accounts[p]
    BY <1>1
  <1>3. ASSUME NEW q \in People, NEW b, accounts' = [accounts EXCEPT ![q] = b], q # p
        PROVE  FALSE
    BY <1>2, <1>3 DEF PeopleInv, AccountTypes
  <1>4. ASSUME NEW b, accounts' = [accounts EXCEPT ![p] = b], ~b.exists \/ ~b.active
        PROVE  FALSE
    BY <1>4 DEF PeopleInv, AccountTypes
  <1>5. ASSUME NEW b, accounts' = [accounts EXCEPT ![p] = b], \E n : b = [a EXCEPT !.stamp = n]
        PROVE  FALSE
    <2>1. ~b.active
      BY <1>1, <1>5 DEF AccountRows
    <2> QED
      BY <1>4, <1>5, <2>1
  <1>6. ~PutOut(p).active
    BY <1>1 DEF PutOut, AccountRows
  <1>7. ~(InviteCompany \/ RegisterCompany \/ RevokeCompany)
    BY <1>3, <1>4, BossIsOne, NoAccountThere
       DEF InviteCompany, RegisterCompany, RevokeCompany, Invited, SignedUp, Deleted
  <1>8. ~Archive
    <2> SUFFICES ASSUME Archive PROVE FALSE
      OBVIOUS
    <2>1. accounts'[p] = IF p \in Members THEN PutOut(p) ELSE accounts[p]
      BY DEF Archive
    <2> QED
      BY <1>2, <1>6, <2>1
  <1>9. \A status \in EditedStatuses : ~EditCompany(status)
    BY <1>2 DEF EditCompany
  <1>10. \A l \in links : ~(\/ AcceptMemberInvite(l) \/ AcceptInvite(l) \/ AcceptCompanyInvite(l)
                            \/ LinkExpires(l))
    <2> SUFFICES ASSUME NEW l \in links, NEW kinds, Accepted(l, kinds) PROVE FALSE
      BY <1>2 DEF AcceptMemberInvite, AcceptInvite, AcceptCompanyInvite, LinkExpires
    <2> QED
      BY <1>2, AcceptedOne
  <1>11. ASSUME NEW q \in People,
                \/ InviteIndividual(q) \/ InviteTeam(q) \/ RegisterIndividual(q) \/ RevokeMember(q)
                \/ EmployeeInvite(q)
         PROVE  FALSE
    <2>1. ~Account(FALSE, FALSE, FALSE, 0).active
      BY DEF Account
    <2> QED
      BY <1>3, <1>4, <1>11, <2>1, NoAccountThere
         DEF InviteIndividual, InviteTeam, RegisterIndividual, RevokeMember, EmployeeInvite,
             Invited, SignedUp, Deleted
  <1>12. ASSUME NEW q \in People, OperatorResend(q) \/ EmployeeResend(q)
         PROVE  FALSE
    <2>1. Mailed(q, accounts[q]) /\ ~accounts[q].revoked
      BY <1>12 DEF OperatorResend, EmployeeResend, Pending
    <2> QED
      BY <1>3, <2>1 DEF Mailed
  <1>13. ASSUME NEW q \in People, ChangePassword(q) \/ IndividualEdit(q) \/ EmployeeEdit(q)
         PROVE  FALSE
    <2>1. accounts' = [accounts EXCEPT ![q] = [accounts[q] EXCEPT !.stamp = NewStamp(q)]]
      BY <1>13 DEF ChangePassword, IndividualEdit, EmployeeEdit, Edited
    <2> QED
      BY <1>3, <1>5, <2>1
  <1>14. ASSUME NEW q \in People, IndividualDeactivate(q) \/ EmployeeDeactivate(q)
         PROVE  FALSE
    BY <1>3, <1>4, <1>6, <1>14 DEF IndividualDeactivate, EmployeeDeactivate
  <1>15. ASSUME NEW q \in People, IndividualReactivate(q) \/ EmployeeReactivate(q)
         PROVE  q = p
    <2>1. \E b : accounts' = [accounts EXCEPT ![q] = b]
      BY <1>15 DEF IndividualReactivate, EmployeeReactivate, Readmitted, Mailed
    <2> QED
      BY <1>3, <2>1
  <1>16. ~UNCHANGED vars
    BY <1>2 DEF vars
  <1> QED
    BY <1>7, <1>8, <1>9, <1>10, <1>11, <1>12, <1>13, <1>14, <1>15, <1>16 DEF Next

LEMMA RestoredStep ==
    ASSUME PeopleInv, Restore, ~byHand, before # NoSnapshot, NEW p \in DOMAIN before
    PROVE  accounts'[p].active = before[p].active /\ accounts'[p].revoked = before[p].revoked
  <1>1. company.archived = before /\ p \in Members
    BY DEF PeopleInv, SnapshotStands
  <1>2. accounts[p] \in AccountRows /\ p \in People
    BY <1>1, MembersExist
  <1>3. accounts'[p] = TakenBack(p)
    BY <1>1, <1>2 DEF Restore
  <1> DEFINE s == before[p]
             b == [accounts[p] EXCEPT !.active = s.active, !.revoked = s.revoked]
  <1>4. TakenBack(p) = b
    BY <1>1 DEF TakenBack
  <1> HIDE DEF s
  <1>5. b.active = s.active /\ b.revoked = s.revoked
    BY <1>2 DEF AccountRows
  <1> QED
    BY <1>3, <1>4, <1>5 DEF s

LEMMA OfficeHasPeople ==
    /\ OfficeInit => PeopleInv
    /\ [OfficeNext]_officeVars => [Next]_vars
  BY PeopleInit DEF OfficeInit, OfficeNext, officeVars, vars

\* The accounts, the company with the snapshot of its archive, and the mailed links keep their
\* shape, and nobody who was put out is active, whatever is invited, accepted, edited, deactivated,
\* archived or restored, in any order (routes.py of company and admin, invite_routes.py).
THEOREM NobodyPutOutIsActive == OfficeSpec => []TypeOK
  BY OfficeHasPeople, PeopleStep, PeopleTyped, PTL DEF OfficeSpec

\* A restored company has the people it had, each with the access of the time when it was archived:
\* nothing that can be done in between takes a person out of the snapshot or changes it, but an
\* edit of the archived company's status by hand (archive and restore of admin/routes.py).
THEOREM RestoredAsArchived == OfficeSpec => RestoreReturnsAccess
  <1> DEFINE Returned ==
        ~(Restore /\ ~byHand /\ before # NoSnapshot)
          \/ \A p \in DOMAIN before :
                accounts'[p].active = before[p].active /\ accounts'[p].revoked = before[p].revoked
  <1>1. PeopleInv /\ [Next]_vars => [Returned]_vars
    BY RestoredStep
  <1> HIDE DEF Returned
  <1>2. OfficeSpec => [][Returned]_vars
    BY <1>1, OfficeHasPeople, PeopleStep, PTL DEF OfficeSpec
  <1> QED
    BY <1>2 DEF RestoreReturnsAccess, Returned

\* Whoever was put out comes back only when they are readmitted: no invitation that was mailed
\* before, no resent one and no edit lets them in (read_token, the accept pages).
THEOREM PutOutStayOut == OfficeSpec => OutUntilReadmitted
  <1> DEFINE Out ==
        \A p \in People :
          Exists(p) /\ accounts[p].revoked /\ accounts'[p].exists /\ accounts'[p].active =>
              Restore \/ EmployeeReactivate(p) \/ IndividualReactivate(p)
  <1>1. PeopleInv /\ [Next]_vars => [Out]_vars
    BY ReadmittedStep
  <1> HIDE DEF Out
  <1>2. OfficeSpec => [][Out]_vars
    BY <1>1, OfficeHasPeople, PeopleStep, PTL DEF OfficeSpec
  <1> QED
    BY <1>2 DEF OutUntilReadmitted, Out

(* Reminders.  Whatever was mailed is noted, or held by a run that has mailed it and has yet to   *)
(* note it; and of what a run holds, only that is noted in which another run has overtaken it.    *)

RunTypes ==
    /\ run = [r \in Runs |-> run[r]]
    /\ \A r \in Runs :
          /\ run[r] = [phase |-> run[r].phase, mails |-> run[r].mails, overtaken |-> run[r].overtaken]
          /\ run[r].phase \in {"none", "read", "mailed"}

HeldOrNoted ==
    \A m \in mailed : m \in notices \/ \E r \in Runs : run[r].phase = "mailed" /\ m \in run[r].mails

NotedByOthers == \A r \in Runs : run[r].mails \intersect notices \subseteq run[r].overtaken

MailInv == today \in Mails!Days /\ RunTypes /\ HeldOrNoted /\ NotedByOthers /\ again = {}

LEMMA MailInit == Mails!Init => MailInv
  BY BoundsOfTime
     DEF Mails!Init, Mails!NoRun, Mails!Days, MailInv, RunTypes, HeldOrNoted, NotedByOthers

\* A run looks for what is not noted.
LEMMA MailBegins ==
    ASSUME MailInv, NEW r \in Runs, Mails!Begin(r)
    PROVE  MailInv'
  <1>1. PICK mails :
           /\ run' = [run EXCEPT ![r] = [phase |-> "read", overtaken |-> {}, mails |-> mails]]
           /\ mails \intersect notices = {}
    <2>1. PICK agreement \in Agreements, due \in {{}} \union {{day} : day \in DueDays},
               digests \in BOOLEAN, reminders \in BOOLEAN, address \in BOOLEAN :
             run' = [run EXCEPT ![r] = [phase |-> "read", overtaken |-> {}, mails |->
                (IF digests THEN {Mails!Digest(i) : i \in Mails!NewOnes(Mails!Items(agreement, due))}
                 ELSE {})
                \union (IF address
                        THEN {Mails!Customer(i) :
                                 i \in Mails!ForCustomer(Mails!Items(agreement, due), reminders)}
                        ELSE {})]]
      BY DEF Mails!Begin
    <2> DEFINE mails ==
          (IF digests THEN {Mails!Digest(i) : i \in Mails!NewOnes(Mails!Items(agreement, due))}
           ELSE {})
          \union (IF address
                  THEN {Mails!Customer(i) :
                           i \in Mails!ForCustomer(Mails!Items(agreement, due), reminders)}
                  ELSE {})
    <2>2. mails \intersect notices = {}
      BY DEF Mails!NewOnes, Mails!ForCustomer
    <2> QED
      BY <2>1, <2>2
  <1>2. run[r] = Mails!NoRun /\ UNCHANGED <<today, notices, mailed, again>>
    BY DEF Mails!Begin
  <1>3. run[r].phase = "none"
    BY <1>2 DEF Mails!NoRun
  <1> QED
    BY <1>1, <1>2, <1>3 DEF MailInv, RunTypes, HeldOrNoted, NotedByOthers, Mails!Days

\* What it mails again was noted since by a run that overtook it, or is held by another run.
LEMMA MailSent ==
    ASSUME MailInv, NEW r \in Runs, Mails!SendMails(r)
    PROVE  MailInv'
  <1>1. /\ run[r].phase = "read" /\ run' = [run EXCEPT ![r].phase = "mailed"]
        /\ mailed' = mailed \union run[r].mails /\ UNCHANGED <<today, notices>>
    BY DEF Mails!SendMails
  <1>2. RunTypes' /\ \A q \in Runs : run'[q].mails = run[q].mails
                                     /\ run'[q].overtaken = run[q].overtaken
                                     /\ run'[q].phase = IF q = r THEN "mailed" ELSE run[q].phase
    BY <1>1 DEF MailInv, RunTypes
  <1>3. HeldOrNoted' /\ NotedByOthers'
    BY <1>1, <1>2 DEF MailInv, HeldOrNoted, NotedByOthers
  <1>4. ASSUME NEW m \in mailed, m \in run[r].mails
        PROVE  m \in Mails!Overlapping(r)
    <2>1. CASE m \in notices
      BY <1>4, <2>1 DEF MailInv, NotedByOthers, Mails!Overlapping
    <2>2. CASE \E q \in Runs : run[q].phase = "mailed" /\ m \in run[q].mails
      BY <1>1, <2>2 DEF Mails!Overlapping
    <2> QED
      BY <1>4, <2>1, <2>2 DEF MailInv, HeldOrNoted
  <1>5. again' = {}
    BY <1>4 DEF Mails!SendMails, MailInv
  <1> QED
    BY <1>1, <1>2, <1>3, <1>5 DEF MailInv, Mails!Days

\* It notes what it mailed, or does not get to: then nothing is known of it.
LEMMA MailGone ==
    ASSUME MailInv, NEW r \in Runs, run' = [run EXCEPT ![r] = Mails!NoRun],
           mailed' = mailed \ (run[r].mails \ notices), UNCHANGED <<today, notices, again>>
    PROVE  MailInv'
  <1>1. RunTypes' /\ run'[r].mails = {} /\ \A q \in Runs \ {r} : run'[q] = run[q]
    BY DEF MailInv, RunTypes, Mails!NoRun
  <1>2. HeldOrNoted' /\ NotedByOthers'
    BY <1>1 DEF MailInv, HeldOrNoted, NotedByOthers
  <1> QED
    BY <1>1, <1>2 DEF MailInv, Mails!Days

LEMMA MailNoted ==
    ASSUME MailInv, NEW r \in Runs, Mails!Commit(r)
    PROVE  MailInv'
  <1>1. CASE run[r].mails \intersect notices = {}
    <2>1. /\ notices' = notices \union run[r].mails
          /\ run' = [q \in Runs |->
                IF q = r THEN Mails!NoRun
                ELSE [run[q] EXCEPT !.overtaken =
                         run[q].overtaken \union (run[r].mails \intersect run[q].mails)]]
          /\ UNCHANGED <<today, mailed, again>>
      BY <1>1 DEF Mails!Commit
    <2>2. run'[r] = [phase |-> "none", mails |-> {}, overtaken |-> {}]
      BY <2>1 DEF Mails!NoRun
    <2>3. \A q \in Runs \ {r} :
             /\ run'[q].mails = run[q].mails /\ run'[q].phase = run[q].phase
             /\ run'[q].overtaken = run[q].overtaken \union (run[r].mails \intersect run[q].mails)
      BY <2>1 DEF MailInv, RunTypes
    <2>4. HeldOrNoted'
      BY <2>1, <2>3 DEF MailInv, HeldOrNoted
    <2>5. NotedByOthers'
      BY <2>1, <2>2, <2>3 DEF MailInv, NotedByOthers
    <2>6. run' = [q \in Runs |-> run'[q]]
      BY <2>1
    <2>7. ASSUME NEW q \in Runs \ {r}
          PROVE  run'[q] = [phase |-> run'[q].phase, mails |-> run'[q].mails,
                            overtaken |-> run'[q].overtaken]
      <3>1. run[q] = [phase |-> run[q].phase, mails |-> run[q].mails, overtaken |-> run[q].overtaken]
        BY DEF MailInv, RunTypes
      <3>2. run'[q] = [run[q] EXCEPT !.overtaken =
                          run[q].overtaken \union (run[r].mails \intersect run[q].mails)]
        BY <2>1
      <3> QED
        BY <3>1, <3>2
    <2>8. RunTypes'
      BY <2>2, <2>3, <2>6, <2>7 DEF MailInv, RunTypes
    <2> QED
      BY <2>1, <2>4, <2>5, <2>8 DEF MailInv, Mails!Days
  <1>2. CASE run[r].mails \intersect notices # {}
    BY <1>2, MailGone DEF Mails!Commit
  <1> QED
    BY <1>1, <1>2

LEMMA MailStep == MailInv /\ [Mails!Next]_reminderVars => MailInv'
  <1> SUFFICES ASSUME MailInv, [Mails!Next]_reminderVars PROVE MailInv'
    OBVIOUS
  <1>1. CASE Mails!NextDay
    BY <1>1, BoundsOfTime
       DEF Mails!NextDay, MailInv, RunTypes, HeldOrNoted, NotedByOthers, Mails!Days
  <1>2. ASSUME NEW r \in Runs, Mails!Die(r) PROVE MailInv'
    BY <1>2, MailGone DEF Mails!Die
  <1>3. CASE UNCHANGED reminderVars
    BY <1>3 DEF reminderVars, MailInv, RunTypes, HeldOrNoted, NotedByOthers, Mails!Days
  <1> QED
    BY <1>1, <1>2, <1>3, MailBegins, MailSent, MailNoted DEF Mails!Next

\* Nobody is mailed of the same thing twice, however often the job runs: what it mails again was
\* mailed by a run that overlaps with it, or by one that could not note it (run_alert_emails).
THEOREM NobodyIsMailedTwice == OfficeSpec => []MailedOnce
  <1>1. OfficeInit => MailInv
    BY MailInit DEF OfficeInit
  <1>2. [OfficeNext]_officeVars => [Mails!Next]_reminderVars
    BY DEF OfficeNext, officeVars, reminderVars
  <1>3. MailInv => MailedOnce
    BY DEF MailInv, RunTypes, MailedOnce, Mails!TypeOK, Mails!MailedOnce
  <1> QED
    BY <1>1, <1>2, <1>3, MailStep, PTL DEF OfficeSpec

(* The bell.  Of each key a box has one notification, and what has been read is in it, as read;  *)
(* and what a running job owes somebody is of the matter as it stands, and as long as they are   *)
(* concerned, the job has yet to see them or has found it.                                       *)

BoxOf(box, told) ==
    /\ \A n \in box : n = [key |-> n.key, read |-> n.read] /\ n.read \in BOOLEAN
    /\ \A n, m \in box : n.key = m.key => n = m
    /\ \A n \in box : n.key \in told => n.read
    /\ told \subseteq {n.key : n \in box}

Boxes ==
    /\ inbox = [u \in News!Users |-> inbox[u]] /\ seen = [u \in News!Users |-> seen[u]]
    /\ \A u \in News!Users : BoxOf(inbox[u], seen[u])

MatterTypes ==
    /\ matter.kind \in {"none", "post", "ticket", "meeting", "item", "parcel"}
    /\ News!Is("ticket") =>
          /\ matter = [kind |-> "ticket", by |-> matter.by, status |-> matter.status,
                       changes |-> matter.changes, stamped |-> matter.stamped]
          /\ matter.by \in News!Users /\ matter.changes \in Nat
          /\ matter.status = "resolved" => matter.stamped
    /\ News!Is("meeting") =>
          /\ matter = [kind |-> "meeting", owner |-> matter.owner, start |-> matter.start,
                       status |-> matter.status]
          /\ matter.owner \in News!Users /\ matter.start \in Nat
    /\ News!Is("parcel") =>
          /\ matter = [kind |-> "parcel", owner |-> matter.owner, since |-> matter.since,
                       waiting |-> matter.waiting]
          /\ matter.owner \in News!Users

\* What was owed when the job began.
OwedOnce(o) ==
    \/ News!Is("parcel") /\ o = <<matter.owner, <<"parcel">>>>
    \/ \E n \in Nat : /\ News!Is("ticket") /\ n <= matter.changes
                      /\ o = <<matter.by, <<"ticket", "resolved", n>>>>
    \/ /\ News!Is("meeting") /\ matter.start <= now + Soon
       /\ o = <<matter.owner, <<"meeting", matter.start>>>>

SweepTypes ==
    /\ sweep = [busy |-> sweep.busy, todo |-> sweep.todo, new |-> sweep.new, owed |-> sweep.owed]
    /\ sweep.todo \subseteq News!Users

Owed ==
    \A o \in sweep.owed :
        /\ OwedOnce(o) /\ standing[o[1]] = "active"
        /\ o \in News!Concerns => o[1] \in sweep.todo \/ o \in sweep.new

NewsInv ==
    /\ now \in News!Moments /\ standing \in [News!Users -> {"active", "suspended", "inactive"}]
    /\ MatterTypes /\ Boxes /\ SweepTypes /\ Owed /\ missed = {}

LEMMA NewsInit == News!Init => NewsInv
  BY BoundsOfTime
     DEF News!Init, News!Moments, News!NoMatter, News!NoSweep, News!Is, NewsInv, MatterTypes, Boxes,
         BoxOf, SweepTypes, Owed

LEMMA BoxAdded ==
    ASSUME NEW box, NEW told, NEW keys, BoxOf(box, told)
    PROVE  /\ BoxOf(News!Added(box, keys), told)
           /\ \A k \in keys : \E n \in News!Added(box, keys) : n.key = k
  <1> DEFINE new == {News!Notification(k) : k \in keys \ {n.key : n \in box}}
  <1>0. \A n \in new : \E k : n = [key |-> k, read |-> FALSE] /\ \A m \in box : m.key # k
    BY DEF News!Notification
  <1>1. \A n \in new : n = [key |-> n.key, read |-> n.read] /\ n.read = FALSE
                       /\ n.key \notin told /\ \A m \in box : m.key # n.key
    <2> SUFFICES ASSUME NEW n \in new
                 PROVE  n = [key |-> n.key, read |-> n.read] /\ n.read = FALSE
                        /\ n.key \notin told /\ \A m \in box : m.key # n.key
      OBVIOUS
    <2>1. PICK k : n = [key |-> k, read |-> FALSE] /\ \A m \in box : m.key # k
      BY <1>0
    <2> HIDE DEF new
    <2>2. k \notin told
      BY <2>1 DEF BoxOf
    <2> QED
      BY <2>1, <2>2
  <1>2. \A n, m \in new : n.key = m.key => n = m
    <2> HIDE DEF new
    <2> QED
      BY <1>1
  <1>3. \A k \in keys : \E n \in box \union new : n.key = k
    <2> SUFFICES ASSUME NEW k \in keys PROVE \E n \in box \union new : n.key = k
      OBVIOUS
    <2>1. News!Notification(k).key = k
      BY DEF News!Notification
    <2> QED
      BY <2>1
  <1>4. News!Added(box, keys) = box \union new
    BY DEF News!Added
  <1> HIDE DEF new
  <1> QED
    BY <1>1, <1>2, <1>3, <1>4 DEF BoxOf

LEMMA BoxMarked ==
    ASSUME NEW box, NEW told, NEW ns \in SUBSET box, NEW read \in BOOLEAN, BoxOf(box, told)
    PROVE  BoxOf((box \ ns) \union {[n EXCEPT !.read = read] : n \in ns},
                 IF read THEN told \union {n.key : n \in ns} ELSE told \ {n.key : n \in ns})
  <1> DEFINE marked == {[n EXCEPT !.read = read] : n \in ns}
             newTold == IF read THEN told \union {n.key : n \in ns} ELSE told \ {n.key : n \in ns}
  <1>0. \A n \in ns : [n EXCEPT !.read = read] = [key |-> n.key, read |-> read]
    <2> SUFFICES ASSUME NEW n \in ns
                 PROVE  [n EXCEPT !.read = read] = [key |-> n.key, read |-> read]
      OBVIOUS
    <2>1. n = [key |-> n.key, read |-> n.read]
      BY DEF BoxOf
    <2> QED
      BY <2>1
  <1>1. \A m \in marked : \E n \in ns : m = [key |-> n.key, read |-> read]
    BY <1>0
  <1>2. \A n \in ns : \E m \in marked : m = [key |-> n.key, read |-> read]
    BY <1>0
  <1>3. \A m \in marked : \A n \in box \ ns : m.key # n.key
    BY <1>1 DEF BoxOf
  <1>4. \A m, n \in marked : m.key = n.key => m = n
    BY <1>1
  <1>5. \A m \in marked : m = [key |-> m.key, read |-> m.read] /\ m.read = read
    BY <1>1
  <1>6. \A m \in marked : m.key \in newTold => read
    BY <1>1
  <1>7. \A n \in box \ ns : n.key \in newTold => n.key \in told
    BY DEF BoxOf
  <1>8. newTold \subseteq {n.key : n \in (box \ ns) \union marked}
    <2>1. \A k \in newTold : \E n \in box : n.key = k
      BY DEF BoxOf
    <2>2. \A n \in ns : \E m \in marked : m.key = n.key
      BY <1>2
    <2> QED
      BY <2>1, <2>2
  <1> HIDE DEF marked, newTold
  <1>9. BoxOf((box \ ns) \union marked, newTold)
    BY <1>3, <1>4, <1>5, <1>6, <1>7, <1>8 DEF BoxOf
  <1> QED
    BY <1>9 DEF marked, newTold

ConcernedIn(o) ==
    /\ standing[o[1]] = "active"
    /\ \/ News!Is("parcel") /\ matter.waiting /\ o = <<matter.owner, <<"parcel">>>>
       \/ /\ News!Is("ticket") /\ matter.status = "resolved"
          /\ o = <<matter.by, <<"ticket", "resolved", matter.changes>>>>
       \/ /\ News!Is("meeting") /\ News!IsSoon(matter)
          /\ o = <<matter.owner, <<"meeting", matter.start>>>>

LEMMA Concerned ==
    \A o : /\ o \in News!Concerns <=> ConcernedIn(o)
           /\ o \in News!Concerns' <=> ConcernedIn(o)'
  <1>1. \A o : o \in News!Concerns <=> ConcernedIn(o)
    BY DEF News!Concerns, ConcernedIn, News!If, News!TicketKey, News!MeetingKey
  <1>2. \A o : o \in News!Concerns' <=> ConcernedIn(o)'
    BY DEF News!Concerns, ConcernedIn, News!If, News!TicketKey, News!MeetingKey
  <1> QED
    BY <1>1, <1>2

\* Nobody comes to be owed what they were not, or to be concerned again.
LEMMA OwedKept ==
    ASSUME NewsInv, sweep'.owed \subseteq sweep.owed, sweep'.todo = sweep.todo,
           sweep'.new = sweep.new,
           \A o \in sweep'.owed : /\ OwedOnce(o) => OwedOnce(o)'
                                  /\ standing'[o[1]] = "active"
                                  /\ OwedOnce(o) /\ ConcernedIn(o)' => ConcernedIn(o)
    PROVE  Owed'
  BY Concerned DEF NewsInv, Owed

\* While nothing is owed, the matter may be anything.
LEMMA MatterBegins ==
    ASSUME NewsInv, matter = News!NoMatter \/ News!Is("item"), UNCHANGED <<now, standing, sweep>>
    PROVE  Owed'
  <1>1. \A o : ~OwedOnce(o)
    BY DEF OwedOnce, News!Is, News!NoMatter
  <1> QED
    BY <1>1 DEF NewsInv, Owed

\* What the handlers tell
LEMMA ToldBoxes ==
    ASSUME NewsInv, NEW to, NEW key, News!Tell(to, key), seen' = seen
    PROVE  Boxes'
  <1>1. \A u \in News!Users : inbox'[u] \in {News!Added(inbox[u], {key}), inbox[u]}
    BY DEF News!Tell
  <1>2. inbox' = [u \in News!Users |-> inbox'[u]]
    BY <1>1 DEF News!Tell
  <1> QED
    BY <1>1, <1>2, BoxAdded DEF NewsInv, Boxes, News!Users

LEMMA SameBoxes == ASSUME NewsInv, UNCHANGED <<inbox, seen>> PROVE Boxes'
  BY DEF NewsInv, Boxes, News!Users

LEMMA NewsPost ==
    ASSUME NewsInv, NEW author \in Team, NEW to \in SUBSET News!Users, News!Post(author, to)
    PROVE  NewsInv'
  <1>1. /\ matter = News!NoMatter /\ matter' = News!Announcement(author, to)
        /\ UNCHANGED <<now, standing, sweep, seen, missed>>
    BY DEF News!Post, News!Others
  <1>2. Boxes'
    BY <1>1, ToldBoxes DEF News!Post
  <1>3. MatterTypes'
    BY <1>1 DEF News!Announcement, MatterTypes, News!Is
  <1>4. SweepTypes' /\ Owed'
    BY <1>1, MatterBegins DEF NewsInv, SweepTypes, News!Users
  <1> QED
    BY <1>1, <1>2, <1>3, <1>4 DEF NewsInv, News!Moments, News!Users

LEMMA NewsTicket ==
    ASSUME NewsInv, NEW u \in News!Users, News!OpenTicket(u)
    PROVE  NewsInv'
  <1>1. PICK stamped \in BOOLEAN : matter' = News!SupportTicket(u, stamped)
    BY DEF News!OpenTicket
  <1>2. matter = News!NoMatter /\ UNCHANGED <<now, standing, sweep, seen, missed>>
    BY DEF News!OpenTicket, News!Others
  <1>3. Boxes'
    BY <1>2, ToldBoxes DEF News!OpenTicket
  <1>4. MatterTypes'
    BY <1>1 DEF News!SupportTicket, MatterTypes, News!Is, News!Users
  <1>5. SweepTypes' /\ Owed'
    BY <1>2, MatterBegins DEF NewsInv, SweepTypes, News!Users
  <1> QED
    BY <1>2, <1>3, <1>4, <1>5 DEF NewsInv, News!Moments, News!Users

\* Each change has a key of its own.
LEMMA NewsResolved ==
    ASSUME NewsInv, News!ResolveTicket
    PROVE  NewsInv'
  <1>1. /\ News!Is("ticket") /\ UNCHANGED <<now, standing, sweep, seen, missed>>
        /\ matter' = [kind |-> "ticket", by |-> matter.by, status |-> "resolved",
                      changes |-> matter.changes + 1, stamped |-> TRUE]
    <2>1. /\ News!Is("ticket") /\ UNCHANGED <<now, standing, sweep, seen, missed>>
          /\ matter' = [matter EXCEPT !.status = "resolved", !.changes = matter.changes + 1,
                                      !.stamped = TRUE]
      BY DEF News!ResolveTicket, News!Others
    <2>2. PICK by, status, changes, stamped :
             matter = [kind |-> "ticket", by |-> by, status |-> status, changes |-> changes,
                       stamped |-> stamped]
      BY <2>1 DEF NewsInv, MatterTypes
    <2> QED
      BY <2>1, <2>2
  <1>2. Boxes'
    BY <1>1, ToldBoxes DEF News!ResolveTicket
  <1>3. matter.changes \in Nat /\ matter.by \in News!Users /\ News!Is("ticket")'
    BY <1>1 DEF NewsInv, MatterTypes, News!Is
  <1>4. MatterTypes'
    BY <1>1, <1>3 DEF MatterTypes, News!Is, News!Users
  <1>5. ASSUME NEW o \in sweep.owed
        PROVE  /\ OwedOnce(o) => OwedOnce(o)'
               /\ standing'[o[1]] = "active"
               /\ OwedOnce(o) /\ ConcernedIn(o)' => ConcernedIn(o)
    <2>1. standing'[o[1]] = "active"
      BY <1>1 DEF NewsInv, Owed
    <2>2. OwedOnce(o) => OwedOnce(o)'
      BY <1>1, <1>3 DEF OwedOnce, News!Is
    <2>3. OwedOnce(o) => ~ConcernedIn(o)'
      BY <1>1, <1>3 DEF OwedOnce, ConcernedIn, News!Is
    <2> QED
      BY <2>1, <2>2, <2>3
  <1>6. SweepTypes' /\ Owed'
    BY <1>1, <1>5, OwedKept DEF NewsInv, SweepTypes, News!Users
  <1> QED
    BY <1>1, <1>2, <1>4, <1>6 DEF NewsInv, News!Moments, News!Users

LEMMA NewsMeeting ==
    ASSUME NewsInv, NEW u \in News!Users, NEW start \in News!Moments, News!BookMeeting(u, start)
    PROVE  NewsInv'
  <1>1. /\ matter = News!NoMatter /\ UNCHANGED <<now, standing, inbox, sweep, seen, missed>>
        /\ matter' = [kind |-> "meeting", owner |-> u, start |-> start, status |-> "confirmed"]
    BY DEF News!BookMeeting, News!Others
  <1>2. MatterTypes'
    BY <1>1, BoundsOfTime DEF MatterTypes, News!Is, News!Users, News!Moments
  <1>3. SweepTypes' /\ Owed' /\ Boxes'
    BY <1>1, MatterBegins, SameBoxes DEF NewsInv, SweepTypes, News!Users
  <1> QED
    BY <1>1, <1>2, <1>3 DEF NewsInv, News!Moments, News!Users

LEMMA NewsMeetingChanged ==
    ASSUME NewsInv, News!ChangeMeeting
    PROVE  NewsInv'
  <1>1. /\ News!Is("meeting") /\ sweep' = [sweep EXCEPT !.owed = {}]
        /\ UNCHANGED <<now, standing, inbox, seen, missed>>
        /\ matter = [kind |-> "meeting", owner |-> matter.owner, start |-> matter.start,
                     status |-> matter.status]
    BY DEF News!ChangeMeeting, NewsInv, MatterTypes
  <1>2. PICK start, status :
           /\ start \in Nat
           /\ matter' = [kind |-> "meeting", owner |-> matter.owner, start |-> start,
                         status |-> status]
    <2>0. PICK owner, old, status :
             matter = [kind |-> "meeting", owner |-> owner, start |-> old, status |-> status]
      BY <1>1
    <2>1. CASE \E start \in News!Moments : matter' = [matter EXCEPT !.start = start]
      <3>1. PICK start \in News!Moments : matter' = [matter EXCEPT !.start = start]
        BY <2>1
      <3>2. start \in Nat
        BY BoundsOfTime DEF News!Moments
      <3>3. matter' = [kind |-> "meeting", owner |-> matter.owner, start |-> start,
                       status |-> matter.status]
        BY <2>0, <3>1
      <3> QED
        BY <3>2, <3>3
    <2>2. CASE matter' = [matter EXCEPT !.status = "cancelled"]
      <3>1. matter' = [kind |-> "meeting", owner |-> matter.owner, start |-> matter.start,
                       status |-> "cancelled"]
        BY <2>0, <2>2
      <3> QED
        BY <1>1, <3>1 DEF NewsInv, MatterTypes
    <2> QED
      BY <2>1, <2>2 DEF News!ChangeMeeting
  <1>3. MatterTypes'
    BY <1>1, <1>2 DEF NewsInv, MatterTypes, News!Is, News!Users
  <1>4. sweep' = [busy |-> sweep.busy, todo |-> sweep.todo, new |-> sweep.new, owed |-> {}]
    BY <1>1 DEF NewsInv, SweepTypes
  <1>5. SweepTypes' /\ Owed' /\ Boxes'
    BY <1>1, <1>4, SameBoxes DEF NewsInv, SweepTypes, Owed, News!Users
  <1> QED
    BY <1>1, <1>3, <1>5 DEF NewsInv, News!Moments, News!Users

LEMMA NewsItem ==
    ASSUME NewsInv, NEW to, NEW due, News!ItemChanges(to, due)
    PROVE  NewsInv'
  <1>1. /\ matter = News!NoMatter \/ (News!Is("item") /\ matter'.kind = "item")
        /\ matter' = [kind |-> "item", to |-> to, due |-> due]
        /\ UNCHANGED <<now, standing, inbox, sweep, seen, missed>>
    BY DEF News!ItemChanges, News!Others
  <1>2. MatterTypes'
    BY <1>1 DEF MatterTypes, News!Is
  <1>3. SweepTypes' /\ Owed' /\ Boxes'
    BY <1>1, MatterBegins, SameBoxes DEF NewsInv, SweepTypes, News!Users
  <1> QED
    BY <1>1, <1>2, <1>3 DEF NewsInv, News!Moments, News!Users

LEMMA NewsParcel ==
    ASSUME NewsInv, NEW u \in News!Users, News!ParcelArrives(u)
    PROVE  NewsInv'
  <1>1. /\ matter = News!NoMatter /\ UNCHANGED <<now, standing, inbox, sweep, seen, missed>>
        /\ matter' = [kind |-> "parcel", owner |-> u, since |-> now, waiting |-> TRUE]
    BY DEF News!ParcelArrives, News!Others
  <1>2. MatterTypes'
    BY <1>1 DEF MatterTypes, News!Is, News!Users
  <1>3. SweepTypes' /\ Owed' /\ Boxes'
    BY <1>1, MatterBegins, SameBoxes DEF NewsInv, SweepTypes, News!Users
  <1> QED
    BY <1>1, <1>2, <1>3 DEF NewsInv, News!Moments, News!Users

LEMMA NewsParcelGone ==
    ASSUME NewsInv, News!ParcelLeaves
    PROVE  NewsInv'
  <1>1. /\ News!Is("parcel") /\ UNCHANGED <<now, standing, inbox, sweep, seen, missed>>
        /\ matter' = [kind |-> "parcel", owner |-> matter.owner, since |-> matter.since,
                      waiting |-> FALSE]
        /\ matter.owner \in News!Users
    <2>1. /\ News!Is("parcel") /\ UNCHANGED <<now, standing, inbox, sweep, seen, missed>>
          /\ matter' = [matter EXCEPT !.waiting = FALSE]
      BY DEF News!ParcelLeaves, News!Others
    <2>2. PICK owner, since, waiting :
             matter = [kind |-> "parcel", owner |-> owner, since |-> since, waiting |-> waiting]
      BY <2>1 DEF NewsInv, MatterTypes
    <2>3. matter.owner \in News!Users
      BY <2>1 DEF NewsInv, MatterTypes
    <2> QED
      BY <2>1, <2>2, <2>3
  <1>2. MatterTypes'
    BY <1>1 DEF MatterTypes, News!Is, News!Users
  <1>3. \A o : (OwedOnce(o) => OwedOnce(o)') /\ ~ConcernedIn(o)'
    BY <1>1 DEF OwedOnce, ConcernedIn, News!Is
  <1>4. \A o \in sweep.owed : standing'[o[1]] = "active"
    BY <1>1 DEF NewsInv, Owed
  <1>5. SweepTypes' /\ Owed' /\ Boxes'
    BY <1>1, <1>3, <1>4, OwedKept, SameBoxes DEF NewsInv, SweepTypes, News!Users
  <1> QED
    BY <1>1, <1>2, <1>5 DEF NewsInv, News!Moments, News!Users

\* Who is deactivated meanwhile, and taken back, is owed nothing.
LEMMA NewsStanding ==
    ASSUME NewsInv, NEW u \in News!Users, NEW to \in {"active", "suspended", "inactive"},
           News!SetStanding(u, to)
    PROVE  NewsInv'
  <1>1. /\ standing' = [standing EXCEPT ![u] = to]
        /\ sweep' = [busy |-> sweep.busy, todo |-> sweep.todo, new |-> sweep.new,
                     owed |-> {o \in sweep.owed : o[1] # u}]
        /\ UNCHANGED <<now, matter, inbox, seen, missed>>
    BY DEF News!SetStanding, NewsInv, SweepTypes
  <1>2. MatterTypes'
    BY <1>1 DEF NewsInv, MatterTypes, News!Is, News!Users
  <1>3. standing' \in [News!Users' -> {"active", "suspended", "inactive"}]
    BY <1>1 DEF NewsInv, News!Users
  <1>4. ASSUME NEW o \in sweep'.owed
        PROVE  /\ OwedOnce(o) => OwedOnce(o)'
               /\ standing'[o[1]] = "active"
               /\ OwedOnce(o) /\ ConcernedIn(o)' => ConcernedIn(o)
    <2>1. o \in sweep.owed /\ o[1] # u /\ standing[o[1]] = "active"
      BY <1>1 DEF NewsInv, Owed
    <2>2. standing'[o[1]] = "active"
      BY <1>1, <2>1 DEF NewsInv
    <2> QED
      BY <1>1, <2>1, <2>2 DEF OwedOnce, ConcernedIn, News!Is, News!IsSoon
  <1>5. SweepTypes' /\ Owed' /\ Boxes'
    BY <1>1, <1>4, OwedKept, SameBoxes DEF NewsInv, SweepTypes, News!Users
  <1> QED
    BY <1>1, <1>2, <1>3, <1>5 DEF NewsInv, News!Moments

\* A meeting that was about to begin still is, until it has begun.
LEMMA NewsTick ==
    ASSUME NewsInv, News!Tick
    PROVE  NewsInv'
  <1>1. /\ now' = now + 1 /\ now < LastMoment /\ now \in Nat /\ Soon \in Nat /\ LastMoment \in Nat
        /\ UNCHANGED <<standing, matter, inbox, sweep, seen, missed>>
    BY BoundsOfTime DEF News!Tick, NewsInv, News!Moments
  <1>2. MatterTypes' /\ now' \in News!Moments'
    BY <1>1 DEF NewsInv, MatterTypes, News!Is, News!Users, News!Moments
  <1>3. News!Is("meeting") => matter.start \in Nat
    BY DEF NewsInv, MatterTypes
  <1>4. ASSUME NEW o, OwedOnce(o)
        PROVE  OwedOnce(o)' /\ (ConcernedIn(o)' => ConcernedIn(o))
    <2>1. OwedOnce(o)'
      BY <1>1, <1>3, <1>4 DEF OwedOnce, News!Is
    <2>2. CASE News!Is("meeting")
      <3>1. matter.start <= now + Soon
        BY <1>4, <2>2 DEF OwedOnce, News!Is
      <3> QED
        BY <1>1, <1>3, <2>1, <2>2, <3>1 DEF ConcernedIn, News!Is, News!IsSoon
    <2>3. CASE ~News!Is("meeting")
      BY <1>1, <2>1, <2>3 DEF ConcernedIn, News!Is
    <2> QED
      BY <2>2, <2>3, <2>1
  <1>5. \A o \in sweep.owed : standing'[o[1]] = "active"
    BY <1>1 DEF NewsInv, Owed
  <1>6. SweepTypes' /\ Owed' /\ Boxes'
    BY <1>1, <1>4, <1>5, OwedKept, SameBoxes DEF NewsInv, SweepTypes, News!Users
  <1> QED
    BY <1>1, <1>2, <1>6 DEF NewsInv, News!Users

\* What only the boxes change in
LEMMA BoxesChange ==
    ASSUME NewsInv, Boxes', UNCHANGED <<now, standing, matter, sweep, missed>>
    PROVE  NewsInv'
  <1>1. MatterTypes' /\ SweepTypes'
    BY DEF NewsInv, MatterTypes, SweepTypes, News!Is, News!Users
  <1>2. Owed'
    BY OwedKept DEF NewsInv, Owed, OwedOnce, ConcernedIn, News!Is, News!IsSoon
  <1> QED
    BY <1>1, <1>2 DEF NewsInv, News!Moments, News!Users

LEMMA NewsPage ==
    ASSUME NewsInv, NEW u \in News!Users, News!PageLoad(u)
    PROVE  NewsInv'
  <1>1. /\ inbox' = [inbox EXCEPT ![u] = News!Added(inbox[u], News!Due(u))]
        /\ UNCHANGED <<now, standing, matter, sweep, seen, missed>>
    BY DEF News!PageLoad, News!Others
  <1>2. BoxOf(News!Added(inbox[u], News!Due(u)), seen[u])
    BY BoxAdded DEF NewsInv, Boxes
  <1>3. Boxes'
    BY <1>1, <1>2 DEF NewsInv, Boxes, News!Users
  <1> QED
    BY <1>1, <1>3, BoxesChange

LEMMA NewsMarked ==
    ASSUME NewsInv, NEW u \in News!Users, NEW ns, NEW read \in BOOLEAN, News!Mark(u, ns, read)
    PROVE  NewsInv'
  <1> DEFINE box == (inbox[u] \ ns) \union {[n EXCEPT !.read = read] : n \in ns}
             told == IF read THEN seen[u] \union {n.key : n \in ns}
                     ELSE seen[u] \ {n.key : n \in ns}
  <1>1. /\ inbox' = [inbox EXCEPT ![u] = box] /\ seen' = [seen EXCEPT ![u] = told]
        /\ UNCHANGED <<now, standing, matter, sweep, missed>> /\ ns \in SUBSET inbox[u]
    BY DEF News!Mark
  <1>2. BoxOf(box, told)
    BY <1>1, BoxMarked DEF NewsInv, Boxes
  <1> HIDE DEF box, told
  <1>3. Boxes'
    BY <1>1, <1>2 DEF NewsInv, Boxes, News!Users
  <1> QED
    BY <1>1, <1>3, BoxesChange

\* Whoever is owed something has an account, and the job sees them.
LEMMA NewsSweepBegins ==
    ASSUME NewsInv, News!SweepBegins
    PROVE  NewsInv'
  <1>1. /\ sweep' = [busy |-> TRUE, todo |-> {u \in News!Users : standing[u] # "inactive"},
                     new |-> {}, owed |-> News!Concerns]
        /\ UNCHANGED <<now, standing, matter, inbox, seen, missed>>
    BY DEF News!SweepBegins
  <1>2. MatterTypes' /\ SweepTypes' /\ Boxes'
    BY <1>1, SameBoxes DEF NewsInv, MatterTypes, SweepTypes, News!Is, News!Users
  <1>3. ASSUME NEW o \in News!Concerns
        PROVE  OwedOnce(o)' /\ standing'[o[1]] = "active" /\ o[1] \in sweep'.todo
    <2>1. ConcernedIn(o)
      BY Concerned
    <2>2. OwedOnce(o)
      BY <2>1 DEF ConcernedIn, OwedOnce, News!IsSoon, NewsInv, MatterTypes
    <2>3. o[1] \in News!Users
      BY <2>1 DEF ConcernedIn, NewsInv, MatterTypes
    <2>4. standing[o[1]] = "active"
      BY <2>1 DEF ConcernedIn
    <2> QED
      BY <1>1, <2>2, <2>3, <2>4 DEF OwedOnce, News!Is
  <1>4. Owed'
    BY <1>1, <1>3 DEF Owed
  <1> QED
    BY <1>1, <1>2, <1>4 DEF NewsInv, News!Moments, News!Users

\* When it sees somebody, it finds what they are owed.
LEMMA NewsSweepUser ==
    ASSUME NewsInv, NEW u \in News!Users, News!SweepUser(u)
    PROVE  NewsInv'
  <1> DEFINE new == sweep.new \union (IF standing[u] = "suspended" THEN {} ELSE {u} \X News!Due(u))
  <1>1. UNCHANGED <<now, standing, matter, inbox, seen, missed>>
    BY DEF News!SweepUser
  <1>2. sweep' = [busy |-> sweep.busy, todo |-> sweep.todo \ {u}, new |-> new, owed |-> sweep.owed]
    <2>1. PICK busy, todo, old, owed :
             sweep = [busy |-> busy, todo |-> todo, new |-> old, owed |-> owed]
      BY DEF NewsInv, SweepTypes
    <2>2. sweep' = [sweep EXCEPT !.todo = sweep.todo \ {u}, !.new = new]
      BY DEF News!SweepUser
    <2> HIDE DEF new
    <2> QED
      BY <2>1, <2>2
  <1>3. ASSUME NEW o \in sweep.owed, ConcernedIn(o), o[1] = u
        PROVE  o \in new
    <2>1. standing[u] = "active" /\ o = <<u, o[2]>>
      BY <1>3 DEF ConcernedIn
    <2>2. o[2] \in News!Due(u)
      BY <1>3 DEF ConcernedIn, News!Due, News!If, News!TicketKey, News!MeetingKey, NewsInv,
                  MatterTypes
    <2> QED
      BY <2>1, <2>2
  <1>4. MatterTypes' /\ Boxes'
    BY <1>1, SameBoxes DEF NewsInv, MatterTypes, News!Is, News!Users
  <1>5. sweep.new \subseteq new
    OBVIOUS
  <1> HIDE DEF new
  <1>6. SweepTypes'
    BY <1>1, <1>2 DEF NewsInv, SweepTypes, News!Users
  <1>7. \A o : (OwedOnce(o) => OwedOnce(o)') /\ (ConcernedIn(o)' => ConcernedIn(o))
    BY <1>1 DEF OwedOnce, ConcernedIn, News!Is, News!IsSoon
  <1>8. Owed'
    BY <1>1, <1>2, <1>3, <1>5, <1>7, Concerned DEF NewsInv, Owed
  <1> QED
    BY <1>1, <1>4, <1>6, <1>8 DEF NewsInv, News!Moments, News!Users

\* When it has seen everybody, what it adds has what is owed.
LEMMA NewsSweepEnds ==
    ASSUME NewsInv, News!SweepEnds
    PROVE  NewsInv'
  <1> DEFINE found(u) == {x[2] : x \in {y \in sweep.new : y[1] = u}}
  <1>1. /\ sweep.todo = {} /\ inbox' = [u \in News!Users |-> News!Added(inbox[u], found(u))]
        /\ missed' = missed \union {o \in sweep.owed \intersect News!Concerns :
                                        o[2] \notin {n.key : n \in inbox'[o[1]]}}
        /\ sweep' = News!NoSweep /\ UNCHANGED <<now, standing, matter, seen>>
    BY DEF News!SweepEnds
  <1>2. ASSUME NEW o \in sweep.owed, o \in News!Concerns
        PROVE  \E n \in inbox'[o[1]] : n.key = o[2]
    <2>1. o \in sweep.new
      BY <1>1, <1>2 DEF NewsInv, Owed
    <2>2. o[1] \in News!Users
      BY <1>2, Concerned DEF ConcernedIn, NewsInv, MatterTypes
    <2>3. o[2] \in found(o[1])
      BY <2>1
    <2> HIDE DEF found
    <2>4. BoxOf(inbox[o[1]], seen[o[1]])
      BY <2>2 DEF NewsInv, Boxes
    <2>5. inbox'[o[1]] = News!Added(inbox[o[1]], found(o[1]))
      BY <1>1, <2>2
    <2> DEFINE keys == found(o[1])
               box == inbox[o[1]]
               told == seen[o[1]]
               key == o[2]
    <2>6. BoxOf(box, told) /\ key \in keys /\ inbox'[o[1]] = News!Added(box, keys)
      BY <2>3, <2>4, <2>5
    <2> HIDE DEF keys, box, told, key
    <2>7. \E n \in News!Added(box, keys) : n.key = key
      BY <2>6, BoxAdded
    <2> QED
      BY <2>6, <2>7 DEF key
  <1>3. missed' = {}
    BY <1>1, <1>2 DEF NewsInv
  <1>4. Boxes'
    <2> HIDE DEF found
    <2> QED
      BY <1>1, BoxAdded DEF NewsInv, Boxes, News!Users
  <1>5. MatterTypes' /\ SweepTypes' /\ Owed'
    BY <1>1 DEF NewsInv, MatterTypes, SweepTypes, Owed, News!NoSweep, News!Is, News!Users
  <1> QED
    BY <1>1, <1>3, <1>4, <1>5 DEF NewsInv, News!Moments, News!Users

LEMMA NewsSweepDies ==
    ASSUME NewsInv, News!SweepDies
    PROVE  NewsInv'
  <1>1. sweep' = News!NoSweep /\ UNCHANGED <<now, standing, matter, inbox, seen, missed>>
    BY DEF News!SweepDies
  <1>2. MatterTypes' /\ SweepTypes' /\ Owed' /\ Boxes'
    BY <1>1, SameBoxes
       DEF NewsInv, MatterTypes, SweepTypes, Owed, News!NoSweep, News!Is, News!Users
  <1> QED
    BY <1>1, <1>2 DEF NewsInv, News!Moments, News!Users

LEMMA NewsStep == NewsInv /\ [News!Next]_inboxVars => NewsInv'
  <1> SUFFICES ASSUME NewsInv, [News!Next]_inboxVars PROVE NewsInv'
    OBVIOUS
  <1>1. CASE UNCHANGED inboxVars
    BY <1>1, SameBoxes, BoxesChange DEF inboxVars
  <1>2. ASSUME NEW u \in News!Users, NEW n, News!MarkRead(u, n) \/ News!MarkUnread(u, n)
        PROVE  NewsInv'
    BY <1>2, NewsMarked DEF News!MarkRead, News!MarkUnread
  <1>3. ASSUME NEW u \in News!Users, News!ReadAll(u)
        PROVE  NewsInv'
    BY <1>3, NewsMarked DEF News!ReadAll
  <1> QED
    BY <1>1, <1>2, <1>3, NewsPost, NewsTicket, NewsResolved, NewsMeeting, NewsMeetingChanged,
       NewsItem, NewsParcel, NewsParcelGone, NewsStanding, NewsTick, NewsPage, NewsSweepBegins,
       NewsSweepUser, NewsSweepEnds, NewsSweepDies DEF News!Next

\* What somebody has read is not new again, whoever tells of it, and however often; and of a parcel
\* that waits, a ticket that was resolved and a meeting that is about to begin, the job tells
\* whomever it concerns when it begins and when it ends (notify, sync_user, run_jobs).
THEOREM ToldOnceEach == OfficeSpec => []ToldOnceAndInTime
  <1>1. OfficeInit => NewsInv
    BY NewsInit DEF OfficeInit
  <1>2. [OfficeNext]_officeVars => [News!Next]_inboxVars
    BY DEF OfficeNext, officeVars, inboxVars
  <1>3. NewsInv => ToldOnceAndInTime
    BY DEF NewsInv, MatterTypes, Boxes, BoxOf, SweepTypes, ToldOnceAndInTime, News!TypeOK,
           News!ToldOnceAndInTime
  <1> QED
    BY <1>1, <1>2, <1>3, NewsStep, PTL DEF OfficeSpec

(* Commission.  An entry that a run has locked is on no invoice, and nobody else has locked it;  *)
(* the invoices that a run will write are for entries that it has locked, each for others and    *)
(* under another key; and the keys that are on entries are those of the invoices that are there. *)

InvoiceKey == [op: Operators, upto: Commission!Months, n: Nat]
LedgerEntry == [op: Operators, amount: Amounts, month: Commission!Months, on: SUBSET InvoiceKey]

\* What the entries es of the ledger rows come to.
SumOf(rows, es) == Commission!SumFunctionOnSet([e \in es |-> rows[e].amount], es)

ForEntries(i, rows) ==
    /\ i.key \in InvoiceKey
    /\ i.of \subseteq DOMAIN rows
    /\ i.total > 0 /\ i.total = SumOf(rows, i.of)

EntryTypes ==
    /\ month \in Commission!Months
    /\ entries \in Seq(LedgerEntry)

RunShapes ==
    /\ runs = [r \in Runs |-> runs[r]]
    /\ \A r \in Runs :
          /\ runs[r] = [busy |-> runs[r].busy, upto |-> runs[r].upto, todo |-> runs[r].todo,
                        locked |-> runs[r].locked, new |-> runs[r].new]
          /\ runs[r].upto \in Commission!Months /\ runs[r].todo \subseteq Operators

LocksHeld ==
    /\ \A r \in Runs : runs[r].locked \subseteq DOMAIN entries
    /\ \A r \in Runs : \A e \in runs[r].locked :
          entries[e].on = {} /\ entries[e].op \notin runs[r].todo
    /\ \A r, q \in Runs : r # q => runs[r].locked \intersect runs[q].locked = {}

NewInvoices ==
    \A r \in Runs :
        /\ IsFiniteSet(runs[r].new)
        /\ \A i \in runs[r].new : i.of \subseteq runs[r].locked /\ ForEntries(i, entries)
        /\ \A i, j \in runs[r].new : i # j => i.of \intersect j.of = {} /\ i.key # j.key

OnOne == \A e \in DOMAIN entries : entries[e].on = {} \/ \E k : entries[e].on = {k}

InvoicesThere ==
    /\ IsFiniteSet(invoices)
    /\ \A i, j \in invoices : i.key = j.key => i = j
    /\ \A i \in invoices :
          /\ ForEntries(i, entries)
          /\ \A e \in DOMAIN entries : i.key \in entries[e].on <=> e \in i.of
    /\ \A e \in DOMAIN entries : \A k \in entries[e].on : \E i \in invoices : i.key = k

CommissionInv == EntryTypes /\ RunShapes /\ LocksHeld /\ NewInvoices /\ OnOne /\ InvoicesThere

\* An entry's amount stays, and so does what some entries come to.
LEMMA AmountsStay ==
    ASSUME NEW i, NEW rows, NEW more, DOMAIN rows \subseteq DOMAIN more,
           \A e \in DOMAIN rows : more[e].amount = rows[e].amount, ForEntries(i, rows)
    PROVE  ForEntries(i, more)
  <1>1. \A e \in i.of : more[e].amount = rows[e].amount
    BY DEF ForEntries
  <1>2. [e \in i.of |-> more[e].amount] = [e \in i.of |-> rows[e].amount]
    BY <1>1
  <1>3. SumOf(more, i.of) = SumOf(rows, i.of)
    BY <1>2 DEF SumOf
  <1> QED
    BY <1>3 DEF ForEntries

LEMMA Least ==
    ASSUME NEW S \in SUBSET Nat, S # {}
    PROVE  \E x \in S : \A y \in S : x <= y
  <1>1. PICK x \in S : \A y \in S : <<y, x>> \notin OpToRel(<, Nat)
    BY NatLessThanWellFounded, WFMin, Zenon
  <1>2. \A y \in S : ~(y < x)
    BY <1>1 DEF OpToRel
  <1> QED
    BY <1>2

\* There is a number that is free, and the key has the first of them.
LEMMA KeyIsFree ==
    ASSUME NEW op, NEW upto, NEW taken, IsFiniteSet(taken)
    PROVE  \E n \in Nat : /\ Commission!FreeKey(op, upto, taken) = [op |-> op, upto |-> upto, n |-> n]
                          /\ [op |-> op, upto |-> upto, n |-> n] \notin taken
  <1> DEFINE K(n) == [op |-> op, upto |-> upto, n |-> n]
             Free == {n \in 1..Cardinality(taken) + 1 : K(n) \notin taken}
             First(k) == k \notin taken /\ \A n \in 1..k.n - 1 : K(n) \in taken
  <1>1. Cardinality(taken) \in Nat
    BY FS_CardinalityType
  <1>2. Free # {}
    <2> SUFFICES ASSUME Free = {} PROVE FALSE
      OBVIOUS
    <2> DEFINE N == 1..Cardinality(taken) + 1
               f == [n \in N |-> K(n)]
    <2>1. f \in [N -> taken]
      OBVIOUS
    <2>2. IsFiniteSet(N) /\ Cardinality(N) = Cardinality(taken) + 1
      <3>1. PICK b \in Nat : b = Cardinality(taken) + 1 /\ b > 0
        BY <1>1
      <3> HIDE DEF f
      <3>2. IsFiniteSet(1..b) /\ Cardinality(1..b) = b
        BY <3>1, FS_Interval
      <3> QED
        BY <3>1, <3>2
    <2>3. \A m, n \in N : f[m] = f[n] => m = n
      <3>1. \A m, n : K(m) = K(n) => m = n
        <4>1. \A n : K(n).n = n
          OBVIOUS
        <4> HIDE DEF K
        <4> QED
          BY <4>1
      <3> HIDE DEF K
      <3> QED
        BY <3>1
    <2> HIDE DEF f, N
    <2> QED
      BY <1>1, <2>1, <2>2, <2>3, FS_PigeonHole
  <1>3. PICK n \in Free : \A m \in Free : n <= m
    <2>1. Free \in SUBSET Nat
      BY <1>1
    <2> HIDE DEF Free
    <2> QED
      BY <1>2, <2>1, Least
  <1>4. n \in 1..Cardinality(taken) + 1 /\ K(n) \notin taken /\ K(n).n = n
    OBVIOUS
  <1>5. \A m \in 1..n - 1 : K(m) \in taken
    <2> SUFFICES ASSUME NEW m \in 1..n - 1 PROVE K(m) \in taken
      OBVIOUS
    <2>1. m \in 1..Cardinality(taken) + 1 /\ ~(n <= m)
      BY <1>1, <1>4
    <2> HIDE DEF K
    <2> QED
      BY <1>3, <2>1
  <1>6. First(K(n))
    BY <1>4, <1>5
  <1> HIDE DEF First
  <1>7. \E k \in {K(m) : m \in 1..Cardinality(taken) + 1} : First(k)
    BY <1>4, <1>6
  <1>8. PICK k : /\ k = CHOOSE j \in {K(m) : m \in 1..Cardinality(taken) + 1} : First(j)
    OBVIOUS
  <1>9. k \in {K(m) : m \in 1..Cardinality(taken) + 1} /\ First(k)
    <2> HIDE DEF K
    <2> QED
      BY <1>7, <1>8
  <1>10. Commission!FreeKey(op, upto, taken) = k
    <2>1. Commission!Cardinality(taken) = Cardinality(taken)
      BY DEF Commission!Cardinality, Cardinality
    <2> QED
      BY <1>8, <2>1, Zenon DEF Commission!FreeKey, Commission!Key, First
  <1> QED
    BY <1>9, <1>10 DEF First

LEMMA CommissionInit == Commission!Init => CommissionInv
  <1> SUFFICES ASSUME Commission!Init PROVE CommissionInv
    OBVIOUS
  <1>1. /\ month = 0 /\ entries = <<>> /\ invoices = {}
        /\ runs = [r \in Runs |-> [busy |-> FALSE, upto |-> 0, todo |-> {}, locked |-> {}, new |-> {}]]
    BY DEF Commission!Init, Commission!NoRun
  <1>2. 0 \in Commission!Months
    BY BoundsOfTime DEF Commission!Months
  <1>3. entries \in Seq(LedgerEntry) /\ DOMAIN entries = {}
    BY <1>1
  <1>4. EntryTypes /\ OnOne
    BY <1>1, <1>2, <1>3 DEF EntryTypes, OnOne
  <1>5. RunShapes /\ LocksHeld /\ NewInvoices /\ InvoicesThere
    BY <1>1, <1>2, <1>3, FS_EmptySet DEF RunShapes, LocksHeld, NewInvoices, InvoicesThere
  <1> QED
    BY <1>4, <1>5 DEF CommissionInv

\* A new entry is one that nobody has locked.
LEMMA EntryComes ==
    ASSUME CommissionInv, NEW op \in Operators, NEW amount \in Amounts, Commission!Accrue(op, amount)
    PROVE  CommissionInv'
  <1> DEFINE new == [op |-> op, amount |-> amount, month |-> month, on |-> {}]
  <1>1. entries' = Append(entries, new) /\ UNCHANGED <<month, invoices, runs>>
    BY DEF Commission!Accrue, Commission!CommissionLedgerEntry
  <1>2. new \in LedgerEntry /\ new.on = {}
    BY DEF CommissionInv, EntryTypes, LedgerEntry
  <1>3. entries \in Seq(LedgerEntry)
    BY DEF CommissionInv, EntryTypes
  <1> HIDE DEF new
  <1>4. /\ entries' \in Seq(LedgerEntry)
        /\ DOMAIN entries \subseteq DOMAIN entries'
        /\ \A e \in DOMAIN entries : entries'[e] = entries[e]
        /\ \A e \in DOMAIN entries' : e \in DOMAIN entries \/ (e \notin DOMAIN entries /\ entries'[e] = new)
    BY <1>1, <1>2, <1>3
  <1>5. \A i : ForEntries(i, entries) => ForEntries(i, entries')
    BY <1>4, AmountsStay
  <1>6. EntryTypes' /\ RunShapes' /\ OnOne'
    <2>1. EntryTypes'
      BY <1>1, <1>4 DEF CommissionInv, EntryTypes
    <2>2. RunShapes'
      BY <1>1 DEF CommissionInv, RunShapes
    <2>3. OnOne'
      BY <1>2, <1>4 DEF CommissionInv, OnOne
    <2> QED
      BY <2>1, <2>2, <2>3
  <1>7. LocksHeld'
    BY <1>1, <1>4 DEF CommissionInv, LocksHeld
  <1>8. NewInvoices'
    BY <1>1, <1>5 DEF CommissionInv, NewInvoices
  <1>9. InvoicesThere'
    <2>1. \A i \in invoices : \A e \in DOMAIN entries' : i.key \in entries'[e].on <=> e \in i.of
      BY <1>2, <1>4 DEF CommissionInv, InvoicesThere, ForEntries
    <2>2. \A e \in DOMAIN entries' : \A k \in entries'[e].on : \E i \in invoices : i.key = k
      BY <1>2, <1>4 DEF CommissionInv, InvoicesThere
    <2> QED
      BY <1>1, <1>5, <2>1, <2>2 DEF CommissionInv, InvoicesThere
  <1> QED
    BY <1>6, <1>7, <1>8, <1>9 DEF CommissionInv

\* Whoever begins, or ends without having committed, has locked nothing.
LEMMA RunAlone ==
    ASSUME CommissionInv, NEW r \in Runs, NEW row, runs' = [runs EXCEPT ![r] = row],
           row = [busy |-> row.busy, upto |-> row.upto, todo |-> row.todo, locked |-> {},
                  new |-> {}], row.upto \in Commission!Months, row.todo \subseteq Operators,
           UNCHANGED <<month, entries, invoices>>
    PROVE  CommissionInv'
  <1>1. \A q \in Runs : runs'[q] = IF q = r THEN row ELSE runs[q]
    BY DEF CommissionInv, RunShapes
  <1>2. row.locked = {} /\ row.new = {}
    OBVIOUS
  <1>3. RunShapes'
    BY <1>1 DEF CommissionInv, RunShapes
  <1>4. LocksHeld'
    BY <1>1, <1>2 DEF CommissionInv, LocksHeld
  <1>5. NewInvoices'
    <2>1. runs'[r].new = {} /\ IsFiniteSet({})
      BY <1>1, <1>2, FS_EmptySet
    <2>2. \A q \in Runs \ {r} : runs'[q] = runs[q]
      BY <1>1
    <2>3. entries' = entries
      OBVIOUS
    <2>4. \A q \in Runs \ {r} :
             /\ IsFiniteSet(runs'[q].new)
             /\ \A i \in runs'[q].new : i.of \subseteq runs'[q].locked /\ ForEntries(i, entries')
             /\ \A i, j \in runs'[q].new : i # j => i.of \intersect j.of = {} /\ i.key # j.key
      BY <2>2, <2>3 DEF CommissionInv, NewInvoices
    <2> QED
      BY <2>1, <2>4 DEF NewInvoices
  <1> QED
    BY <1>3, <1>4, <1>5 DEF CommissionInv, EntryTypes, OnOne, InvoicesThere

\* It locks entries that are on no invoice and that nobody has locked, itself included, and puts
\* them on one invoice at most, under a key of its own.
LEMMA EntriesInvoiced ==
    ASSUME CommissionInv, NEW r \in Runs, NEW op \in Operators, Commission!Invoice(r, op)
    PROVE  CommissionInv'
  <1> DEFINE es == {e \in Commission!Uninvoiced(runs[r].upto) : entries[e].op = op}
             taken == {i.key : i \in invoices \union runs[r].new}
  <1>1. PICK key :
           /\ key = Commission!FreeKey(op, runs[r].upto, taken)
           /\ op \in runs[r].todo /\ es \intersect Commission!LockedByOthers(r) = {}
           /\ runs' = [runs EXCEPT
                ![r].todo = @ \ {op},
                ![r].locked = @ \union es,
                ![r].new = IF SumOf(entries, es) > 0
                           THEN @ \union {[key |-> key, of |-> es, total |-> SumOf(entries, es)]}
                           ELSE @]
           /\ UNCHANGED <<month, entries, invoices>>
    BY Zenon DEF Commission!Invoice, Commission!Total, SumOf
  <1> DEFINE invoice == [key |-> key, of |-> es, total |-> SumOf(entries, es)]
             new == IF SumOf(entries, es) > 0 THEN runs[r].new \union {invoice} ELSE runs[r].new
  <1>2. /\ es \subseteq DOMAIN entries
        /\ \A e \in es : entries[e].on = {} /\ entries[e].op = op
    BY DEF Commission!Uninvoiced
  <1>0. /\ op \in runs[r].todo /\ UNCHANGED <<month, entries, invoices>>
        /\ \A q \in Runs \ {r} : es \intersect runs[q].locked = {}
    <2>1. es \intersect Commission!LockedByOthers(r) = {}
      BY <1>1, Zenon
    <2>2. \A q \in Runs \ {r} : runs[q].locked \subseteq Commission!LockedByOthers(r)
      BY DEF Commission!LockedByOthers
    <2> HIDE DEF es
    <2>3. \A q \in Runs \ {r} : es \intersect runs[q].locked = {}
      BY <2>1, <2>2
    <2> QED
      BY <1>1, <2>3
  <1>3. es \intersect runs[r].locked = {}
    <2>1. \A e \in runs[r].locked : entries[e].op \notin runs[r].todo
      BY DEF CommissionInv, LocksHeld
    <2> HIDE DEF es
    <2> QED
      BY <1>0, <1>2, <2>1
  <1>4. key \in InvoiceKey /\ key \notin taken
    <2>1. IsFiniteSet(invoices \union runs[r].new)
      BY FS_Union DEF CommissionInv, InvoicesThere, NewInvoices
    <2>2. IsFiniteSet(taken)
      <3> DEFINE S == invoices \union runs[r].new
                 f == [i \in S |-> i.key]
      <3>1. f \in [S -> taken] /\ \A k \in taken : \E i \in S : f[i] = k
        OBVIOUS
      <3> HIDE DEF f, taken, S
      <3>2. f \in Surjection(S, taken)
        BY <3>1 DEF Surjection
      <3> QED
        BY <2>1, <3>2, FS_Surjection DEF S
    <2>0. key = Commission!FreeKey(op, runs[r].upto, taken)
      BY <1>1, Zenon
    <2> HIDE DEF taken
    <2>3. PICK n \in Nat : /\ key = [op |-> op, upto |-> runs[r].upto, n |-> n]
                           /\ key \notin taken
      BY <2>0, <2>2, KeyIsFree
    <2>4. runs[r].upto \in Commission!Months
      BY DEF CommissionInv, RunShapes
    <2> QED
      BY <2>3, <2>4 DEF InvoiceKey
  <1>5. invoice.of = es /\ invoice.key = key /\ invoice.total = SumOf(entries, es)
    OBVIOUS
  <1>6. /\ \A i \in new : i \in runs[r].new \/ (i = invoice /\ SumOf(entries, es) > 0)
        /\ new = runs[r].new \/ new = runs[r].new \union {invoice}
    OBVIOUS
  <1>7. /\ RunShapes' /\ \A q \in Runs \ {r} : runs'[q] = runs[q]
        /\ runs'[r].todo = runs[r].todo \ {op} /\ runs'[r].locked = runs[r].locked \union es
        /\ runs'[r].new = new
    <2> DEFINE row == [busy |-> runs[r].busy, upto |-> runs[r].upto, todo |-> runs[r].todo \ {op},
                       locked |-> runs[r].locked \union es, new |-> new]
    <2>1. runs' = [runs EXCEPT ![r] =
                      [runs[r] EXCEPT !.todo = runs[r].todo \ {op},
                                      !.locked = runs[r].locked \union es, !.new = new]]
      <3> DEFINE was == runs[r].new
      <3>1. runs' = [runs EXCEPT ![r].todo = @ \ {op}, ![r].locked = @ \union es,
                                 ![r].new = IF SumOf(entries, es) > 0
                                            THEN was \union {invoice} ELSE was]
        <4>1. runs' = [runs EXCEPT
                  ![r].todo = @ \ {op},
                  ![r].locked = @ \union es,
                  ![r].new = IF SumOf(entries, es) > 0
                             THEN @ \union {[key |-> key, of |-> es, total |-> SumOf(entries, es)]}
                             ELSE @]
          BY <1>1, Zenon
        <4> HIDE DEF es
        <4> QED
          BY <4>1 DEF CommissionInv, RunShapes
      <3>2. new = IF SumOf(entries, es) > 0 THEN was \union {invoice} ELSE was
        OBVIOUS
      <3> HIDE DEF was, new, invoice, es
      <3> QED
        BY <3>1, <3>2 DEF CommissionInv, RunShapes
    <2> HIDE DEF es, new
    <2>2. PICK busy, upto, todo, locked, old :
             runs[r] = [busy |-> busy, upto |-> upto, todo |-> todo, locked |-> locked, new |-> old]
      BY DEF CommissionInv, RunShapes
    <2>3. [runs[r] EXCEPT !.todo = runs[r].todo \ {op}, !.locked = runs[r].locked \union es,
                          !.new = new] = row
      <3> DEFINE rest == runs[r].todo \ {op}
                 both == runs[r].locked \union es
                 was == runs[r]
      <3>1. runs[r].busy = busy /\ runs[r].upto = upto
        BY <2>2
      <3>2. was = [busy |-> busy, upto |-> upto, todo |-> todo, locked |-> locked, new |-> old]
        BY <2>2
      <3> HIDE DEF rest, both, was
      <3>3. [was EXCEPT !.todo = rest, !.locked = both, !.new = new] =
            [busy |-> busy, upto |-> upto, todo |-> rest, locked |-> both, new |-> new]
        <4> DEFINE run1 == [busy |-> busy, upto |-> upto, todo |-> rest, locked |-> locked,
                            new |-> old]
                   run2 == [busy |-> busy, upto |-> upto, todo |-> rest, locked |-> both,
                            new |-> old]
                   run3 == [busy |-> busy, upto |-> upto, todo |-> rest, locked |-> both,
                            new |-> new]
        <4>1. [was EXCEPT !.todo = rest] = run1
          BY <3>2
        <4>2. [run1 EXCEPT !.locked = both] = run2
          OBVIOUS
        <4>3. [run2 EXCEPT !.new = new] = run3
          OBVIOUS
        <4> HIDE DEF run1, run2, run3
        <4>4. [was EXCEPT !.todo = rest, !.locked = both, !.new = new] =
              [[[was EXCEPT !.todo = rest] EXCEPT !.locked = both] EXCEPT !.new = new]
          OBVIOUS
        <4> QED
          BY <4>1, <4>2, <4>3, <4>4 DEF run3
      <3> QED
        BY <3>1, <3>3 DEF rest, both, was
    <2>4. runs' = [runs EXCEPT ![r] = row]
      BY <2>1, <2>3
    <2> QED
      BY <2>4 DEF CommissionInv, RunShapes
  <1>8. \A q \in Runs \ {r} : es \intersect runs[q].locked = {}
    BY <1>0
  <1>9. \A i \in runs[r].new : i.key # key
    BY <1>4
  <1> HIDE DEF new, invoice, es, taken
  <1>10. LocksHeld'
    <2>1. \A q \in Runs : runs'[q].locked \subseteq DOMAIN entries
      BY <1>2, <1>7 DEF CommissionInv, LocksHeld
    <2>2. \A q \in Runs : \A e \in runs'[q].locked :
             entries[e].on = {} /\ entries[e].op \notin runs'[q].todo
      BY <1>2, <1>7 DEF CommissionInv, LocksHeld
    <2>3. \A p, q \in Runs : p # q => runs'[p].locked \intersect runs'[q].locked = {}
      BY <1>7, <1>8 DEF CommissionInv, LocksHeld
    <2> QED
      BY <1>0, <2>1, <2>2, <2>3 DEF LocksHeld
  <1>11. NewInvoices'
    <2>1. IsFiniteSet(new)
      BY <1>6, FS_AddElement DEF CommissionInv, NewInvoices
    <2>2. \A i \in new : i.of \subseteq runs'[r].locked /\ ForEntries(i, entries)
      BY <1>2, <1>4, <1>5, <1>6, <1>7 DEF CommissionInv, NewInvoices, ForEntries
    <2>3. \A i \in runs[r].new : i.of \intersect es = {}
      BY <1>3 DEF CommissionInv, NewInvoices
    <2>4. \A i, j \in new : i # j => i.of \intersect j.of = {} /\ i.key # j.key
      BY <1>5, <1>6, <1>9, <2>3 DEF CommissionInv, NewInvoices
    <2>5. \A q \in Runs \ {r} : runs'[q].new = runs[q].new /\ runs'[q].locked = runs[q].locked
      BY <1>7
    <2>6. \A q \in Runs \ {r} :
             /\ IsFiniteSet(runs'[q].new)
             /\ \A i \in runs'[q].new : i.of \subseteq runs'[q].locked /\ ForEntries(i, entries)
             /\ \A i, j \in runs'[q].new : i # j => i.of \intersect j.of = {} /\ i.key # j.key
      BY <2>5 DEF CommissionInv, NewInvoices
    <2> QED
      BY <1>0, <1>7, <2>1, <2>2, <2>4, <2>6 DEF NewInvoices
  <1> QED
    BY <1>0, <1>7, <1>10, <1>11 DEF CommissionInv, EntryTypes, OnOne, InvoicesThere

\* What commits is on one invoice, or stays as it is.
LEMMA InvoicesCommitted ==
    ASSUME CommissionInv, NEW r \in Runs, Commission!Commit(r)
    PROVE  CommissionInv'
  <1> DEFINE keys(e) == {i.key : i \in {j \in runs[r].new : e \in j.of}}
             was(e) == [op |-> entries[e].op, amount |-> entries[e].amount,
                        month |-> entries[e].month, on |-> entries[e].on \union keys(e)]
  <1>1. /\ runs' = [runs EXCEPT ![r] = Commission!NoRun] /\ month' = month
        /\ \/ UNCHANGED <<invoices, entries>>
           \/ /\ {i.key : i \in runs[r].new} \intersect {i.key : i \in invoices} = {}
              /\ invoices' = invoices \union runs[r].new
              /\ entries' = [e \in DOMAIN entries |-> [entries[e] EXCEPT !.on = entries[e].on \union keys(e)]]
    BY DEF Commission!Commit
  <1>2. /\ Commission!NoRun = [busy |-> FALSE, upto |-> 0, todo |-> {}, locked |-> {}, new |-> {}]
        /\ Commission!NoRun.upto \in Commission!Months /\ Commission!NoRun.todo \subseteq Operators
        /\ Commission!NoRun = [busy |-> Commission!NoRun.busy, upto |-> Commission!NoRun.upto,
                               todo |-> Commission!NoRun.todo, locked |-> {}, new |-> {}]
    BY BoundsOfTime DEF Commission!NoRun, Commission!Months
  <1>3. CASE UNCHANGED <<invoices, entries>>
    BY <1>1, <1>2, <1>3, RunAlone
  <1>4. CASE /\ {i.key : i \in runs[r].new} \intersect {i.key : i \in invoices} = {}
             /\ invoices' = invoices \union runs[r].new
             /\ entries' = [e \in DOMAIN entries |-> [entries[e] EXCEPT !.on = entries[e].on \union keys(e)]]
    <2>1. /\ entries \in Seq(LedgerEntry)
          /\ \A e \in DOMAIN entries : entries[e] \in LedgerEntry
      BY DEF CommissionInv, EntryTypes
    <2>2. \A e \in DOMAIN entries : entries'[e] = was(e)
      <3> SUFFICES ASSUME NEW e \in DOMAIN entries PROVE entries'[e] = was(e)
        OBVIOUS
      <3> DEFINE on == entries[e].on \union keys(e)
      <3>1. entries'[e] = [entries[e] EXCEPT !.on = on]
        BY <1>4
      <3>2. PICK row : row = entries[e]
        OBVIOUS
      <3>3. row = [op |-> row.op, amount |-> row.amount, month |-> row.month, on |-> row.on]
        BY <2>1, <3>2 DEF LedgerEntry
      <3> HIDE DEF on
      <3>4. [row EXCEPT !.on = on] =
            [op |-> row.op, amount |-> row.amount, month |-> row.month, on |-> on]
        BY <3>3
      <3> QED
        BY <3>1, <3>2, <3>4 DEF on
    <2>3. \A e \in DOMAIN entries :
             /\ entries'[e].op = entries[e].op /\ entries'[e].amount = entries[e].amount
             /\ entries'[e].on = entries[e].on \union keys(e)
      <3> SUFFICES ASSUME NEW e \in DOMAIN entries
                   PROVE  /\ entries'[e].op = entries[e].op /\ entries'[e].amount = entries[e].amount
                          /\ entries'[e].on = entries[e].on \union keys(e)
        OBVIOUS
      <3> HIDE DEF keys
      <3>1. entries'[e] = was(e)
        BY <2>2
      <3> QED
        BY <3>1
    <2>4. DOMAIN entries' = DOMAIN entries /\ entries' = [e \in DOMAIN entries |-> entries'[e]]
      BY <1>4
    <2>5. \A e : keys(e) \subseteq InvoiceKey
      BY DEF CommissionInv, NewInvoices, ForEntries
    <2>6. entries' \in Seq(LedgerEntry)
      <3>1. \A e \in DOMAIN entries : entries'[e] \in LedgerEntry
        <4> SUFFICES ASSUME NEW e \in DOMAIN entries PROVE entries'[e] \in LedgerEntry
          OBVIOUS
        <4>1. /\ entries[e].op \in Operators /\ entries[e].amount \in Amounts
              /\ entries[e].month \in Commission!Months /\ entries[e].on \in SUBSET InvoiceKey
          BY <2>1 DEF LedgerEntry
        <4>2. keys(e) \in SUBSET InvoiceKey /\ entries'[e] = was(e)
          BY <2>2, <2>5
        <4> HIDE DEF keys
        <4> QED
          BY <4>1, <4>2 DEF LedgerEntry
      <3>2. DOMAIN entries = 1..Len(entries) /\ Len(entries) \in Nat
        BY <2>1
      <3>3. entries' \in [1..Len(entries) -> LedgerEntry]
        BY <2>4, <3>1, <3>2
      <3> QED
        BY <3>2, <3>3 DEF Seq
    <2>7. \A e \in DOMAIN entries : e \notin runs[r].locked => keys(e) = {}
      BY DEF CommissionInv, NewInvoices
    <2>8. \A e \in DOMAIN entries : e \in runs[r].locked => entries[e].on = {}
      BY DEF CommissionInv, LocksHeld
    <2>9. \A e \in DOMAIN entries : keys(e) = {} \/ \E k : keys(e) = {k}
      <3> SUFFICES ASSUME NEW e \in DOMAIN entries, keys(e) # {} PROVE \E k : keys(e) = {k}
        OBVIOUS
      <3>1. PICK i \in runs[r].new : e \in i.of
        OBVIOUS
      <3>2. \A j \in runs[r].new : e \in j.of => j = i
        BY <3>1 DEF CommissionInv, NewInvoices
      <3> QED
        BY <3>1, <3>2
    <2>10. \A i \in runs[r].new : \A e : i.key \in keys(e) <=> e \in i.of
      BY DEF CommissionInv, NewInvoices
    <2>11. \A i \in invoices : \A e : i.key \notin keys(e)
      BY <1>4
    <2>12. \A e : \A k \in keys(e) : \E i \in runs[r].new : i.key = k
      OBVIOUS
    <2>13. \A i \in runs[r].new, j \in invoices : i.key # j.key
      BY <1>4
    <2> HIDE DEF keys, was
    <2>14. \A i : ForEntries(i, entries) => ForEntries(i, entries')
      BY <2>3, <2>4, AmountsStay
    <2>15. /\ RunShapes' /\ \A q \in Runs : runs'[q] = IF q = r THEN Commission!NoRun ELSE runs[q]
           /\ Commission!NoRun.locked = {} /\ Commission!NoRun.new = {}
      <3>1. \A q \in Runs : runs'[q] = IF q = r THEN Commission!NoRun ELSE runs[q]
        BY <1>1 DEF CommissionInv, RunShapes
      <3>2. Commission!NoRun.locked = {} /\ Commission!NoRun.new = {}
        BY <1>2
      <3>3. RunShapes'
        BY <1>1, <1>2, <3>1 DEF CommissionInv, RunShapes
      <3> QED
        BY <3>1, <3>2, <3>3
    <2>16. OnOne'
      BY <2>3, <2>4, <2>7, <2>8, <2>9 DEF CommissionInv, OnOne
    <2>17. EntryTypes'
      BY <1>1, <2>6 DEF CommissionInv, EntryTypes
    <2>18. LocksHeld'
      <3>1. \A q \in Runs \ {r} : \A e \in runs[q].locked :
               /\ e \in DOMAIN entries /\ e \notin runs[r].locked
               /\ entries[e].on = {} /\ entries[e].op \notin runs[q].todo
        BY DEF CommissionInv, LocksHeld
      <3>2. \A q \in Runs : \A e \in runs'[q].locked :
               entries'[e].on = {} /\ entries'[e].op \notin runs'[q].todo
        BY <2>3, <2>7, <2>15, <3>1
      <3> QED
        BY <2>4, <2>15, <3>2 DEF CommissionInv, LocksHeld
    <2>19. NewInvoices'
      <3>1. runs'[r].new = {} /\ IsFiniteSet({})
        BY <2>15, FS_EmptySet
      <3>2. \A q \in Runs \ {r} : runs'[q] = runs[q]
        BY <2>15
      <3> QED
        BY <2>14, <3>1, <3>2 DEF CommissionInv, NewInvoices
    <2>20. InvoicesThere'
      <3>1. IsFiniteSet(invoices')
        BY <1>4, FS_Union DEF CommissionInv, InvoicesThere, NewInvoices
      <3>2. \A i, j \in invoices' : i.key = j.key => i = j
        BY <1>4, <2>13 DEF CommissionInv, InvoicesThere, NewInvoices
      <3>3. \A i \in invoices' : ForEntries(i, entries')
        BY <1>4, <2>14 DEF CommissionInv, InvoicesThere, NewInvoices
      <3>4. \A i \in invoices : \A e \in DOMAIN entries : i.key \in entries'[e].on <=> e \in i.of
        BY <2>3, <2>11 DEF CommissionInv, InvoicesThere
      <3>5. \A i \in runs[r].new : \A e \in DOMAIN entries : i.key \notin entries[e].on
        BY <2>13 DEF CommissionInv, InvoicesThere
      <3>6. \A i \in runs[r].new : \A e \in DOMAIN entries : i.key \in entries'[e].on <=> e \in i.of
        BY <2>3, <2>10, <3>5
      <3>7. \A e \in DOMAIN entries : \A k \in entries'[e].on : \E i \in invoices' : i.key = k
        BY <1>4, <2>3, <2>12 DEF CommissionInv, InvoicesThere
      <3> QED
        BY <1>4, <2>4, <3>1, <3>2, <3>3, <3>4, <3>6, <3>7 DEF InvoicesThere
    <2> QED
      BY <2>15, <2>16, <2>17, <2>18, <2>19, <2>20 DEF CommissionInv
  <1> QED
    BY <1>1, <1>3, <1>4

LEMMA CommissionStep == CommissionInv /\ [Commission!Next]_commissionVars => CommissionInv'
  <1> SUFFICES ASSUME CommissionInv, [Commission!Next]_commissionVars PROVE CommissionInv'
    OBVIOUS
  <1>1. CASE Commission!NextMonth \/ UNCHANGED commissionVars
    <2>1. month' \in Commission!Months /\ UNCHANGED <<entries, invoices, runs>>
      BY <1>1, BoundsOfTime
         DEF Commission!NextMonth, commissionVars, CommissionInv, EntryTypes, Commission!Months
    <2> QED
      BY <2>1 DEF CommissionInv, EntryTypes, RunShapes, LocksHeld, NewInvoices, OnOne, InvoicesThere
  <1>2. ASSUME NEW r \in Runs,
               Commission!ByScheduler(r) \/ Commission!ByCommand(r) \/ Commission!ByStaff(r)
        PROVE  CommissionInv'
    <2>1. PICK upto \in Commission!Months : Commission!Begin(r, upto)
      BY <1>2, BoundsOfTime DEF Commission!ByScheduler, Commission!ByCommand, Commission!ByStaff,
                                Commission!Months, CommissionInv, EntryTypes
    <2>2. PICK todo : todo = {entries[e].op : e \in Commission!Uninvoiced(upto)}
      OBVIOUS
    <2>3. todo \subseteq Operators
      <3>1. \A e \in DOMAIN entries : entries[e] \in LedgerEntry
        BY DEF CommissionInv, EntryTypes
      <3>2. \A e \in DOMAIN entries : entries[e].op \in Operators
        BY <3>1 DEF LedgerEntry
      <3> QED
        BY <2>2, <3>2 DEF Commission!Uninvoiced
    <2>4. PICK row : row = [busy |-> TRUE, upto |-> upto, locked |-> {}, new |-> {}, todo |-> todo]
      OBVIOUS
    <2>5. runs' = [runs EXCEPT ![r] = row] /\ UNCHANGED <<month, entries, invoices>>
      BY <2>1, <2>2, <2>4 DEF Commission!Begin
    <2>6. /\ row = [busy |-> row.busy, upto |-> row.upto, todo |-> row.todo, locked |-> {}, new |-> {}]
          /\ row.upto \in Commission!Months /\ row.todo \subseteq Operators
      BY <2>3, <2>4
    <2> QED
      BY <2>5, <2>6, RunAlone
  <1>3. ASSUME NEW r \in Runs, Commission!Die(r)
        PROVE  CommissionInv'
    <2>1. PICK row : row = [busy |-> FALSE, upto |-> 0, todo |-> {}, locked |-> {}, new |-> {}]
      OBVIOUS
    <2>2. runs' = [runs EXCEPT ![r] = row] /\ UNCHANGED <<month, entries, invoices>>
      BY <1>3, <2>1 DEF Commission!Die, Commission!NoRun
    <2>3. /\ row = [busy |-> row.busy, upto |-> row.upto, todo |-> row.todo, locked |-> {}, new |-> {}]
          /\ row.upto \in Commission!Months /\ row.todo \subseteq Operators
      BY <2>1, BoundsOfTime DEF Commission!Months
    <2> QED
      BY <2>2, <2>3, RunAlone
  <1> QED
    BY <1>1, <1>2, <1>3, EntryComes, EntriesInvoiced, InvoicesCommitted DEF Commission!Next

\* Of a behaviour of the office.
LEMMA CommissionKept == OfficeSpec => []CommissionInv
  <1>1. OfficeInit => CommissionInv
    BY CommissionInit DEF OfficeInit
  <1>2. [OfficeNext]_officeVars => [Commission!Next]_commissionVars
    BY DEF OfficeNext, officeVars, commissionVars
  <1> QED
    BY <1>1, <1>2, CommissionStep, PTL DEF OfficeSpec

\* An operator owes its commission once: however runs of the scheduler and of the staff overlap, an
\* entry is locked by one of them while it is on none of the invoices, and each run puts it on one
\* (generate_invoices).
THEOREM CommissionIsOwedOnce == OfficeSpec => []CommissionBilledOnce
  <1>1. CommissionInv => CommissionBilledOnce
    <2> SUFFICES ASSUME CommissionInv, NEW e \in DOMAIN entries PROVE Cardinality(entries[e].on) <= 1
      BY DEF CommissionBilledOnce, Commission!CommissionBilledOnce, Commission!Cardinality,
             Cardinality
    <2>1. entries[e].on = {} \/ \E k : entries[e].on = {k}
      BY DEF CommissionInv, OnOne
    <2>2. Cardinality(entries[e].on) = 0 \/ Cardinality(entries[e].on) = 1
      BY <2>1, FS_EmptySet, FS_Singleton
    <2> QED
      BY <2>2
  <1> QED
    BY <1>1, CommissionKept, PTL

\* An invoice is for what the entries that are marked with it come to, which is something to pay,
\* and no two have one key: what an invoice was made for is still on no other when it is committed
\* (generate_invoices, _invoice).
THEOREM InvoicesAreForTheirEntries == OfficeSpec => []InvoicesAddUp
  <1>1. CommissionInv => InvoicesAddUp
    <2> SUFFICES ASSUME CommissionInv PROVE InvoicesAddUp
      OBVIOUS
    <2>1. Commission!TypeOK
      BY DEF CommissionInv, EntryTypes, LedgerEntry, InvoiceKey, InvoicesThere, RunShapes,
             Commission!TypeOK
    <2>2. ASSUME NEW i \in invoices
          PROVE  i.total > 0 /\ i.total = Commission!Total({e \in DOMAIN entries : i.key \in entries[e].on})
      <3>1. {e \in DOMAIN entries : i.key \in entries[e].on} = i.of
        BY DEF CommissionInv, InvoicesThere, ForEntries
      <3>2. i.total > 0 /\ i.total = SumOf(entries, i.of)
        BY DEF CommissionInv, InvoicesThere, ForEntries
      <3>3. SumOf(entries, i.of) = Commission!Total(i.of)
        BY DEF SumOf, Commission!Total
      <3> QED
        BY <3>1, <3>2, <3>3
    <2> QED
      BY <2>1, <2>2 DEF InvoicesAddUp, Commission!InvoicesAddUp
  <1> QED
    BY <1>1, CommissionKept, PTL
=============================================================================
