-------------------------- MODULE CommissionInvoices --------------------------
(***************************************************************************)
(* The monthly invoices of the platform for its commission on marketplace  *)
(* bookings: the scheduler and the platform's staff raise them, for every  *)
(* operator in one transaction (services/marketplace_commission.py,        *)
(* `_invoice' of services/operator_billing.py).                            *)
(*                                                                         *)
(* Marketplace says which entries there are; here they come with any       *)
(* amount.  Runs overlap, and wait for the rows another run has locked.    *)
(***************************************************************************)
EXTENDS Integers, Sequences, FiniteSets, Functions

CONSTANTS
    Runs,
    Operators,
    Amounts,        \* what an entry may be, reversals being negative
    LastMonth,      \* bounds: the months are 0..LastMonth,
    MaxEntries      \*   and the entries ever made

VARIABLES
    month,
    entries,    \* commission_ledger, in order; an entry has the invoices it was put on
    invoices,   \* platform_invoices of the kind
    runs        \* what each run has yet to go over, has locked and will write

vars == <<month, entries, invoices, runs>>

Months == 0..LastMonth
NoRun == [busy |-> FALSE, upto |-> 0, todo |-> {}, locked |-> {}, new |-> {}]

Total(es) == SumFunctionOnSet([e \in es |-> entries[e].amount], es)

Init ==
    /\ month = 0
    /\ entries = <<>>
    /\ invoices = {}
    /\ runs = [r \in Runs |-> NoRun]
-----------------------------------------------------------------------------
CommissionLedgerEntry(op, amount) ==
    [op |-> op, amount |-> amount, month |-> month, on |-> {}]

\* A booking is paid, or what was paid for it is returned.
Accrue(op, amount) ==
    /\ Len(entries) < MaxEntries
    /\ entries' = Append(entries, CommissionLedgerEntry(op, amount))
    /\ UNCHANGED <<month, invoices, runs>>

\* What a run goes over: late entries of earlier months are among them.
Uninvoiced(upto) == {e \in DOMAIN entries : entries[e].on = {} /\ entries[e].month <= upto}

\* generate_invoices reads which operators have something.  It is run by
Begin(r, upto) ==
    /\ ~runs[r].busy
    /\ runs' = [runs EXCEPT ![r] = [busy |-> TRUE, upto |-> upto, locked |-> {}, new |-> {},
                                    todo |-> {entries[e].op : e \in Uninvoiced(upto)}]]
    /\ UNCHANGED <<month, entries, invoices>>

\* the hourly job, for the month that is over (previous_month); the command and the page of the
\* platform's staff, for any.
ByScheduler(r) == month > 0 /\ Begin(r, month - 1)
ByCommand(r) == \E upto \in Months : Begin(r, upto)
ByStaff(r) == \E upto \in Months : Begin(r, upto)

\* A mutation of LockedByOthers: nothing waits.
LockedByNobody(r) == {}

LockedByOthers(r) == UNION {runs[q].locked : q \in Runs \ {r}}

\* The key of the month, with the first number that is free.
Key(op, upto, n) == [op |-> op, upto |-> upto, n |-> n]
FreeKey(op, upto, taken) ==
    CHOOSE k \in {Key(op, upto, n) : n \in 1..Cardinality(taken) + 1} :
        k \notin taken /\ \A n \in 1..k.n - 1 : Key(op, upto, n) \in taken

\* It locks the entries of one after the other, and makes an invoice when there is something to pay,
\* _invoice;
Invoice(r, op) ==
    LET es == {e \in Uninvoiced(runs[r].upto) : entries[e].op = op}
        key == FreeKey(op, runs[r].upto, {i.key : i \in invoices \union runs[r].new})
    IN /\ runs[r].busy /\ op \in runs[r].todo
       /\ es \intersect LockedByOthers(r) = {}
       /\ runs' = [runs EXCEPT
            ![r].todo = @ \ {op},
            ![r].locked = @ \union es,
            ![r].new = IF Total(es) > 0 THEN @ \union {[key |-> key, of |-> es, total |-> Total(es)]}
                       ELSE @]
       /\ UNCHANGED <<month, entries, invoices>>

\* A mutation of Commit: the invoices are put on whatever is open then.
CommitOpen(r) ==
    /\ runs[r].busy /\ runs[r].todo = {}
    /\ invoices' = invoices \union runs[r].new
    /\ entries' = [e \in DOMAIN entries |-> [entries[e] EXCEPT
            !.on = @ \union {i.key : i \in {j \in runs[r].new :
                        e \in Uninvoiced(j.key.upto) /\ j.key.op = entries[e].op}}]]
    /\ runs' = [runs EXCEPT ![r] = NoRun]
    /\ UNCHANGED month

\* and commits all of them.  A key that was taken meanwhile fails it.
Commit(r) ==
    /\ runs[r].busy /\ runs[r].todo = {}
    /\ IF {i.key : i \in runs[r].new} \intersect {i.key : i \in invoices} = {}
       THEN /\ invoices' = invoices \union runs[r].new
            /\ entries' = [e \in DOMAIN entries |-> [entries[e] EXCEPT
                    !.on = @ \union {i.key : i \in {j \in runs[r].new : e \in j.of}}]]
       ELSE UNCHANGED <<invoices, entries>>
    /\ runs' = [runs EXCEPT ![r] = NoRun]
    /\ UNCHANGED month

\* Two runs that wait for each other are told apart by the database, which fails one.
Die(r) ==
    /\ runs[r].busy
    /\ runs' = [runs EXCEPT ![r] = NoRun]
    /\ UNCHANGED <<month, entries, invoices>>

NextMonth ==
    /\ month < LastMonth
    /\ month' = month + 1
    /\ UNCHANGED <<entries, invoices, runs>>

Next ==
    \/ NextMonth
    \/ \E op \in Operators, amount \in Amounts : Accrue(op, amount)
    \/ \E r \in Runs :
        \/ ByScheduler(r) \/ ByCommand(r) \/ ByStaff(r) \/ Commit(r) \/ Die(r)
        \/ \E op \in Operators : Invoice(r, op)
-----------------------------------------------------------------------------
TypeOK ==
    /\ month \in Months
    /\ entries \in Seq([op: Operators, amount: Amounts, month: Months,
                        on: SUBSET [op: Operators, upto: Months, n: Nat]])
    /\ \A i, j \in invoices : i.key = j.key => i = j
    /\ \A r \in Runs : runs[r].todo \subseteq Operators

\* An operator owes its commission once: every entry is on one invoice at most, however runs
\* overlap and repeat (generate_invoices).
CommissionBilledOnce == \A e \in DOMAIN entries : Cardinality(entries[e].on) <= 1

\* An invoice is for what its entries come to, which is something to pay; what was returned is set
\* off against what follows (generate_invoices, _invoice).
InvoicesAddUp ==
    \A i \in invoices : i.total > 0 /\ i.total = Total({e \in DOMAIN entries : i.key \in entries[e].on})
=============================================================================
