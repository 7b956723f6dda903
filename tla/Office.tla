-------------------------------- MODULE Office --------------------------------
(***************************************************************************)
(* What the office deals with: a company and its people, what people are   *)
(* told of, the reminders that are mailed, and the commission that         *)
(* operators owe.  They share no state: a behaviour is of one of them, and *)
(* the others stay as they are.                                            *)
(***************************************************************************)
EXTENDS CompanyPeople

CONSTANTS
    Parts,                                                          \* which of them behaviours are of
    Readers, Team, Soon, PostAge, StaleAfter, LastMoment, MaxChanges,   \* Inbox
    Runs,                                                           \* of the jobs of the next two
    Agreements, DueDays, RenewalDays, NearDays, LockInDays, LeavingDays, Earlier, LastDay,
                                                                    \* Reminders
    Operators, Amounts, LastMonth, MaxEntries                       \* CommissionInvoices

ASSUME BoundsOfPeople == MaxStamps \in [People -> Nat] /\ EditedStatuses \subseteq Statuses
ASSUME BoundsOfTime == {Soon, LastMoment, LastDay, LastMonth} \subseteq Nat

VARIABLES
    part,
    now, standing, matter, inbox, sweep, seen, missed,  \* Inbox
    today, notices, run, mailed, again,                 \* Reminders
    month, entries, invoices, runs                      \* CommissionInvoices

inboxVars == <<now, standing, matter, inbox, sweep, seen, missed>>
reminderVars == <<today, notices, run, mailed, again>>
commissionVars == <<month, entries, invoices, runs>>

News == INSTANCE Inbox WITH Members <- Readers
Mails == INSTANCE Reminders
Commission == INSTANCE CommissionInvoices

OfficeInit ==
    /\ part \in Parts
    /\ Init /\ News!Init /\ Mails!Init /\ Commission!Init

OfficeNext ==
    /\ UNCHANGED part
    /\ \/ part = "people" /\ Next /\ UNCHANGED <<inboxVars, reminderVars, commissionVars>>
       \/ part = "news" /\ News!Next /\ UNCHANGED <<vars, reminderVars, commissionVars>>
       \/ part = "mails" /\ Mails!Next /\ UNCHANGED <<vars, inboxVars, commissionVars>>
       \/ part = "commission" /\ Commission!Next /\ UNCHANGED <<vars, inboxVars, reminderVars>>

officeVars == <<part, vars, inboxVars, reminderVars, commissionVars>>

OfficeSpec == OfficeInit /\ [][OfficeNext]_officeVars
-----------------------------------------------------------------------------
\* What somebody has read is not new again, and the job tells in time (Inbox: notify, sync_user).
ToldOnceAndInTime == News!TypeOK /\ News!ToldOnceAndInTime

\* Nobody is mailed of the same thing twice (Reminders: run_alert_emails).
MailedOnce == Mails!TypeOK /\ Mails!MailedOnce

\* An operator owes its commission once, and an invoice is for what its entries come to
\* (CommissionInvoices: generate_invoices).
CommissionBilledOnce == Commission!CommissionBilledOnce
InvoicesAddUp == Commission!TypeOK /\ Commission!InvoicesAddUp
=============================================================================
