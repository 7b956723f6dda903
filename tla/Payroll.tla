------------------------------- MODULE Payroll -------------------------------
(***************************************************************************)
(* The salaries of an operator's own staff and the payroll runs that pay   *)
(* them (blueprints/admin/staff_routes.py, models/payroll.py,              *)
(* models/staff.py).                                                       *)
(*                                                                         *)
(* A request that gives a salary or lets a member go closes the salaries   *)
(* it has loaded; a run reads who is active, and then each one's salary.   *)
(***************************************************************************)
EXTENDS Integers, Sequences, FiniteSets

CONSTANTS
    Requests,
    Staff,
    Pays,           \* what a salary comes to, net of deductions
    MaxSalaries,    \* bounds: salaries ever given to a member,
    MaxRuns         \*   and payroll runs ever made

VARIABLES
    staff,      \* their status, and two things remembered: that a member was let go and given no
                \*   salary since, and that two requests closed the member's salaries at once
    salaries,   \* of each, in their order
    runs,       \* payroll_runs with their payslips, in their order
    requests

vars == <<staff, salaries, runs, requests>>

Idle == [op |-> "none", of |-> {}, read |-> <<>>, todo |-> {}, slips |-> {}]

Init ==
    /\ staff = [s \in Staff |-> [status |-> "active", leftUnpaid |-> FALSE, crossed |-> FALSE]]
    /\ salaries = [s \in Staff |-> <<>>]
    /\ runs = <<>>
    /\ requests = [r \in Requests |-> Idle]
-----------------------------------------------------------------------------
SalaryStructure(pay, open) == [pay |-> pay, open |-> open]

\* salary_new and staff_terminate load the salaries of a member;
Load(r, op, s) ==
    /\ requests[r] = Idle
    /\ requests' = [requests EXCEPT ![r] = [Idle EXCEPT !.op = op, !.of = {s}, !.read = salaries[s]]]
    /\ UNCHANGED <<staff, salaries, runs>>

SalaryLoad(r, s) == Len(salaries[s]) < MaxSalaries /\ Load(r, "salary", s)
TerminateLoad(r, s) == Load(r, "terminate", s)

\* and close those of them that are open.
Closed(s, read) ==
    [i \in DOMAIN salaries[s] |->
        IF i \in DOMAIN read /\ read[i].open THEN [salaries[s][i] EXCEPT !.open = FALSE] ELSE salaries[s][i]]

Crossed(s, read) == staff[s].crossed \/ read # salaries[s]

\* The form may give a salary an end, and then it is never the current one.
SalaryCommit(r, pay, open) ==
    \E s \in requests[r].of :
        /\ requests[r].op = "salary" /\ Len(salaries[s]) < MaxSalaries
        /\ salaries' = [salaries EXCEPT ![s] =
                            Append(Closed(s, requests[r].read), SalaryStructure(pay, open))]
        /\ staff' = [staff EXCEPT ![s].leftUnpaid = FALSE, ![s].crossed = Crossed(s, requests[r].read)]
        /\ requests' = [requests EXCEPT ![r] = Idle]
        /\ UNCHANGED runs

TerminateCommit(r) ==
    \E s \in requests[r].of :
        /\ requests[r].op = "terminate"
        /\ salaries' = [salaries EXCEPT ![s] = Closed(s, requests[r].read)]
        /\ staff' = [staff EXCEPT ![s] = [status |-> "terminated", leftUnpaid |-> TRUE,
                                          crossed |-> Crossed(s, requests[r].read)]]
        /\ requests' = [requests EXCEPT ![r] = Idle]
        /\ UNCHANGED runs

\* staff_edit may set any status, back to active too.
StaffEdit(s, status) ==
    /\ staff[s].status # status
    /\ staff' = [staff EXCEPT ![s].status = status]
    /\ UNCHANGED <<salaries, runs, requests>>
-----------------------------------------------------------------------------
\* payroll_new: those who are active,
PayrollBegin(r) ==
    /\ requests[r] = Idle /\ Len(runs) < MaxRuns
    /\ requests' = [requests EXCEPT ![r] =
        [Idle EXCEPT !.op = "payroll", !.of = {s \in Staff : staff[s].leftUnpaid},
                     !.todo = {s \in Staff : staff[s].status = "active"}]]
    /\ UNCHANGED <<staff, salaries, runs>>

\* A mutation of current_salary: the last one, open or not.
LatestSalary(s) == {salaries[s][i] : i \in DOMAIN salaries[s] \intersect {Len(salaries[s])}}

\* The first that has no end, if there is one; when there are more, any.
current_salary(s) == {salaries[s][i] : i \in {j \in DOMAIN salaries[s] : salaries[s][j].open}}

\* and a payslip for each one with a salary.  It is noted whether the member had left before the run.
PayslipOf(r, s) ==
    /\ requests[r].op = "payroll" /\ s \in requests[r].todo
    /\ \/ /\ current_salary(s) = {}
          /\ requests' = [requests EXCEPT ![r].todo = @ \ {s}]
       \/ \E salary \in current_salary(s) :
            requests' = [requests EXCEPT
                ![r].todo = @ \ {s},
                ![r].slips = @ \union {[staff |-> s, net |-> salary.pay,
                                        late |-> s \in requests[r].of /\ staff[s].leftUnpaid]}]
    /\ UNCHANGED <<staff, salaries, runs>>

PayrollCommit(r) ==
    /\ requests[r].op = "payroll" /\ requests[r].todo = {} /\ Len(runs) < MaxRuns
    /\ runs' = Append(runs, [status |-> "draft", slips |-> requests[r].slips])
    /\ requests' = [requests EXCEPT ![r] = Idle]
    /\ UNCHANGED <<staff, salaries>>

\* payroll_approve and payroll_mark_paid, in whatever order.
PayrollApprove(n) ==
    /\ runs' = [runs EXCEPT ![n].status = "approved"]
    /\ UNCHANGED <<staff, salaries, requests>>

PayrollMarkPaid(n) ==
    /\ runs' = [runs EXCEPT ![n].status = "paid"]
    /\ UNCHANGED <<staff, salaries, requests>>

Next ==
    \/ \E r \in Requests :
        \/ \E s \in Staff : SalaryLoad(r, s) \/ TerminateLoad(r, s) \/ PayslipOf(r, s)
        \/ \E pay \in Pays, open \in BOOLEAN : SalaryCommit(r, pay, open)
        \/ TerminateCommit(r) \/ PayrollBegin(r) \/ PayrollCommit(r)
    \/ \E s \in Staff, status \in {"active", "on_leave"} : StaffEdit(s, status)
    \/ \E n \in DOMAIN runs : PayrollApprove(n) \/ PayrollMarkPaid(n)
-----------------------------------------------------------------------------
TypeOK ==
    /\ staff \in [Staff -> [status: {"active", "on_leave", "terminated"}, leftUnpaid: BOOLEAN,
                            crossed: BOOLEAN]]
    /\ \A s \in Staff : \A i \in DOMAIN salaries[s] : salaries[s][i] \in [pay: Pays, open: BOOLEAN]
    /\ \A n \in DOMAIN runs : runs[n].status \in {"draft", "approved", "paid"}

\* A member has one current salary at most, and none after being let go until given another, even
\* when set to active again; so no run that begins later pays the member.  Only two requests that
\* close the member's salaries at once may leave one open (staff_terminate, salary_new, payroll_new).
LeaversAreNotPaid ==
    \A s \in Staff : staff[s].crossed \/
        /\ Cardinality({i \in DOMAIN salaries[s] : salaries[s][i].open}) <= IF staff[s].leftUnpaid THEN 0 ELSE 1
        /\ \A n \in DOMAIN runs : \A p \in runs[n].slips : p.staff = s => ~p.late
=============================================================================
