------------------------------ MODULE Reminders ------------------------------
(***************************************************************************)
(* The mails of the hourly job on agreements that end, lock-ins, move-outs *)
(* and overdue invoices: a digest for the operator's team, a reminder for  *)
(* the customer, each noted when it is sent (services/alerts.py,           *)
(* AlertNotice of models/parcel.py).                                       *)
(*                                                                         *)
(* There is one operator, with one agreement and one invoice, which change *)
(* all the time (AgreementBilling, PlatformBilling, CompanyPeople): what a *)
(* run finds is a free choice.  It mails first and notes it with its       *)
(* commit; two runs may overlap.                                           *)
(***************************************************************************)
EXTENDS Naturals, FiniteSets

CONSTANTS
    Runs,           \* runs of the job at a time
    Agreements,     \* what the agreement may be,
    DueDays,        \*   and the days the invoice may be due
    RenewalDays, NearDays, LockInDays, LeavingDays, \* how long before it an item is one
    Earlier,        \* the keys that were noted before there were two kinds of mails
    LastDay         \* a bound: the days are 0..LastDay

VARIABLES
    today,
    notices,    \* alert_notices
    run,        \* what each run is to mail, and has mailed
    mailed,     \* history: the mails that were sent, but by a run that could not note them,
    again       \*   and those that were sent again

vars == <<today, notices, run, mailed, again>>

Days == 0..LastDay
NoRun == [phase |-> "none", mails |-> {}, overtaken |-> {}]

Init ==
    /\ today = 0
    /\ notices = Earlier
    /\ run = [r \in Runs |-> NoRun]
    /\ mailed = {}
    /\ again = {}
-----------------------------------------------------------------------------
(* Items *)

Within(day, days) == today <= day /\ day <= today + days

Key(kind, what, day) == <<kind, what, day>>

\* subscription_items: somebody who leaves is neither to renew nor locked in.
SubscriptionItems(a) ==
    (IF a.leaves # {}
     THEN {Key("leaving", 0, day) : day \in {l \in a.leaves : Within(l, LeavingDays)}}
     ELSE {Key("renewal", IF Within(day, NearDays) THEN NearDays ELSE RenewalDays, day) :
               day \in {e \in {a.ends} : Within(e, RenewalDays)}}
          \union {Key("lock_in", 0, day) : day \in {l \in {a.lockEnds} : Within(l, LockInDays)}})
    \union (IF a.revised THEN {Key("revision", 0, 0)} ELSE {})

\* overdue_items: `due' is the day of the invoice, while something is open on it.
OverdueItems(due) == {Key("overdue", day, 0) : day \in {d \in due : d < today}}

Items(agreement, due) == SubscriptionItems(agreement) \union OverdueItems(due)

Digest(item) == <<"digest", item>>
Customer(item) == <<"customer", item>>

Pending(items) == {i \in items : i \notin notices}

\* A mutation of NewOnes: the notes of digests are not looked at.
PendingOnes(items) == Pending(items)

NewOnes(items) == {i \in Pending(items) : Digest(i) \notin notices}

\* Reminders to pay are a feature of the plan, those to renew are not.
ForCustomer(items, reminders) ==
    {i \in Pending(items) : /\ Customer(i) \notin notices
                            /\ i[1] = "renewal" \/ (i[1] = "overdue" /\ reminders)}
-----------------------------------------------------------------------------
(* run_alert_emails *)

\* It reads what was noted and what there is: the digest goes out with its feature and a team, the
\* reminders with an address (has_feature, _customer_emails).  What nobody is mailed stays open.
Begin(r) ==
    /\ run[r] = NoRun
    /\ \E agreement \in Agreements, due \in {{}} \union {{day} : day \in DueDays},
          digests, reminders, address \in BOOLEAN :
        LET items == Items(agreement, due)
        IN /\ Pending(items) # {}
           /\ run' = [run EXCEPT ![r] = [phase |-> "read", overtaken |-> {}, mails |->
                (IF digests THEN {Digest(i) : i \in NewOnes(items)} ELSE {})
                \union (IF address THEN {Customer(i) : i \in ForCustomer(items, reminders)} ELSE {})]]
    /\ UNCHANGED <<today, notices, mailed, again>>

\* What runs that overlap with this one have mailed, or had.
Overlapping(r) == run[r].overtaken \union UNION {run[q].mails : q \in Runs \ {r}}

\* mails, whether or not a mail arrives (_send),
SendMails(r) ==
    /\ run[r].phase = "read"
    /\ run' = [run EXCEPT ![r].phase = "mailed"]
    /\ mailed' = mailed \union run[r].mails
    /\ again' = again \union ((mailed \intersect run[r].mails) \ Overlapping(r))
    /\ UNCHANGED <<today, notices>>

\* and notes it.  A key that another run has noted meanwhile fails the commit.
Commit(r) ==
    /\ run[r].phase = "mailed"
    /\ IF run[r].mails \intersect notices = {}
       THEN /\ notices' = notices \union run[r].mails
            /\ run' = [q \in Runs |->
                    IF q = r THEN NoRun
                    ELSE [run[q] EXCEPT !.overtaken = @ \union (run[r].mails \intersect run[q].mails)]]
            /\ UNCHANGED mailed
       ELSE /\ run' = [run EXCEPT ![r] = NoRun]
            /\ mailed' = mailed \ (run[r].mails \ notices)
            /\ UNCHANGED notices
    /\ UNCHANGED <<today, again>>

Die(r) ==
    /\ run[r] # NoRun
    /\ run' = [run EXCEPT ![r] = NoRun]
    /\ mailed' = mailed \ (run[r].mails \ notices)
    /\ UNCHANGED <<today, notices, again>>

NextDay ==
    /\ today < LastDay
    /\ today' = today + 1
    /\ UNCHANGED <<notices, run, mailed, again>>

Next == NextDay \/ \E r \in Runs : Begin(r) \/ SendMails(r) \/ Commit(r) \/ Die(r)
-----------------------------------------------------------------------------
TypeOK ==
    /\ today \in Days
    /\ \A r \in Runs : run[r].phase \in {"none", "read", "mailed"}
    /\ again \subseteq mailed

\* Nobody is mailed of the same thing twice, however often the job runs, whatever is switched off
\* and on again, and whatever comes back after it was settled; unless a run that mailed it could
\* not note it, having died or having been overtaken, or runs overlap (run_alert_emails).
MailedOnce == again = {}
=============================================================================
