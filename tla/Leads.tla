-------------------------------- MODULE Leads --------------------------------
(***************************************************************************)
(* The leads of one board: an operator's, or the platform's own            *)
(* (services/leads.py, blueprints/lead_routes.py, the enquiries of         *)
(* app/__init__.py and services/marketplace_leads.py), and the allowance   *)
(* of an operator's plan on them (services/operator_quotas.py).            *)
(*                                                                         *)
(* A request loads a lead, and writes later only what it has changed of    *)
(* it.  Before it writes anything of an operator's leads it locks the      *)
(* operator and counts; the platform's leads are only locked row by row.   *)
(***************************************************************************)
EXTENDS Integers, FiniteSets, Sequences

CONSTANTS
    Requests,
    Stages,         \* those that are told apart, "new" and "won" among them
    Limits,         \* allowances a plan may have
    NoLimit,        \* max_open_leads is None, or the plan has all features
    MaxLeads        \* bound: leads ever made

VARIABLES
    scope,          \* OPERATOR or PLATFORM
    leads,          \* the leads made, in their order
    requests,
    terms           \* what the operator's plan allows

vars == <<scope, leads, requests, terms>>

CLOSED == {"won", "lost"}

\* `counted' remembers the allowance that a request was counted with.
Idle == [op |-> "none", lead |-> 0, copy |-> "new", to |-> "new", flushed |-> FALSE, counted |-> NoLimit]
Ids == DOMAIN leads
Plans == Limits \union {NoLimit}       \* of a plan only its limit is told

\* A row of the leads; `website' tells those that nobody of the staff has entered, `logged' is the
\* last stage its activities tell of.  Two things are remembered about it: that somebody moved it
\* who had loaded it in another stage (`crossed'), and that its application was approved.
Lead(website) ==
    [there |-> TRUE, website |-> website, stage |-> "new", closed |-> FALSE, logged |-> "new",
     crossed |-> FALSE, approved |-> FALSE]

Init ==
    /\ scope \in {"operator", "platform"}
    /\ leads = <<>>
    /\ requests = [r \in Requests |-> Idle]
    /\ \E limit \in IF scope = "operator" THEN Plans ELSE {NoLimit} :
        terms = [limit |-> limit, paid |-> FALSE, scheduled |-> NoLimit, invoiced |-> {}]
-----------------------------------------------------------------------------
\* _manual_open
ManualOpen(website, stage) == ~website /\ stage \notin CLOSED

open_manual_leads == {l \in Ids : leads[l].there /\ ManualOpen(leads[l].website, leads[l].stage)}

\* A lower limit that is scheduled binds at once.
Allowance ==
    IF terms.scheduled = NoLimit THEN terms.limit
    ELSE IF terms.limit = NoLimit \/ terms.scheduled < terms.limit THEN terms.scheduled
    ELSE terms.limit

One(b) == IF b THEN 1 ELSE 0

\* What a request adds to the open leads, as far as it can tell from what it has loaded.
Increment(r) ==
    LET q == requests[r]
    IN IF q.op = "new" THEN 1
       ELSE One(ManualOpen(leads[q.lead].website, q.to)) - One(ManualOpen(leads[q.lead].website, q.copy))

\* enforce_quotas
QuotaAllows(r) ==
    \/ scope = "platform" \/ Allowance = NoLimit \/ Increment(r) <= 0
    \/ Cardinality(open_manual_leads) + Increment(r) <= Allowance

\* A mutation of Locked: the operator is read without FOR UPDATE.
LockedByRow(r) ==
    \E q \in Requests \ {r} : /\ requests[q].flushed /\ requests[q].op # "new"
                              /\ requests[q].lead = requests[r].lead

\* Who flushes first holds the operator until it commits; on the platform's board, the lead.
Locked(r) ==
    \E q \in Requests \ {r} :
        /\ requests[q].flushed
        /\ scope = "operator" \/ (requests[q].op # "new" /\ requests[q].lead = requests[r].lead)
-----------------------------------------------------------------------------
Load(r, op, l, to) ==
    /\ requests[r] = Idle
    /\ l \in Ids /\ leads[l].there
    /\ requests' = [requests EXCEPT ![r] =
        [Idle EXCEPT !.op = op, !.lead = l, !.copy = leads[l].stage, !.to = to]]
    /\ UNCHANGED <<scope, leads, terms>>

\* lead_new: the lead is first stored as new, and then moved.
LeadNew(r, to) ==
    /\ requests[r] = Idle /\ Len(leads) < MaxLeads
    /\ requests' = [requests EXCEPT ![r] = [Idle EXCEPT !.op = "new", !.to = to]]
    /\ UNCHANGED <<scope, leads, terms>>

\* lead_move, and lead_edit that moves it;
LeadMove(r, l, to) == to # leads[l].stage /\ Load(r, "move", l, to)

\* lead_edit that leaves the stage, and lead_note, with an activity of another kind.
LeadEdit(r, l) == Load(r, "edit", l, leads[l].stage)
LeadNote(r, l) == Load(r, "edit", l, leads[l].stage)

\* provision, for the lead of an application: the stage is set, and no activity tells of it.
Approve(r, l) == scope = "platform" /\ leads[l].website /\ Load(r, "approve", l, "won")

\* The flush: a lead that was deleted fails it, and so does a limit.
Flush(r) ==
    LET q == requests[r]
        gone == q.op # "new" /\ ~leads[q.lead].there
    IN /\ q.op # "none" /\ ~q.flushed
       /\ ~Locked(r)
       /\ requests' = [requests EXCEPT ![r] =
            IF gone \/ ~QuotaAllows(r) THEN Idle ELSE [q EXCEPT !.flushed = TRUE, !.counted = Allowance]]
       /\ UNCHANGED <<scope, leads, terms>>

\* move_stage: the activity is written with the stage.
move_stage(lead, to) ==
    [lead EXCEPT !.stage = to, !.closed = (to \in CLOSED), !.logged = to]

\* A mutation of Written: the whole row is written, as it was loaded.
WholeRow(lead, q) ==
    IF q.op = "move" THEN move_stage(lead, q.to)
    ELSE IF q.op = "approve" THEN [lead EXCEPT !.stage = "won", !.closed = TRUE, !.approved = TRUE]
    ELSE [lead EXCEPT !.stage = q.copy]

\* What is written of the row as it is now: the stage, when it is not the one that was loaded; when
\* the lead was closed, if that has changed too.
Written(lead, q) ==
    LET moved == [lead EXCEPT !.crossed = @ \/ lead.stage # q.copy]
    IN CASE q.op = "move" ->
              [move_stage(moved, q.to) EXCEPT
                !.closed = q.to \in CLOSED \/ (q.copy \notin CLOSED /\ lead.closed)]
         [] q.op = "approve" ->
              [moved EXCEPT !.stage = IF q.copy = "won" THEN @ ELSE "won", !.closed = TRUE, !.approved = TRUE]
         [] OTHER -> lead

Commit(r) ==
    LET q == requests[r]
    IN /\ q.flushed
       /\ IF q.op = "new"
          THEN /\ Len(leads) < MaxLeads
               /\ leads' = Append(leads, IF q.to = "new" THEN Lead(FALSE) ELSE move_stage(Lead(FALSE), q.to))
          ELSE leads' = [leads EXCEPT ![q.lead] = Written(@, q)]
       /\ requests' = [requests EXCEPT ![r] = Idle]
       /\ UNCHANGED <<scope, terms>>

\* A request fails, or its process ends.
Die(r) ==
    /\ requests[r] # Idle
    /\ requests' = [requests EXCEPT ![r] = Idle]
    /\ UNCHANGED <<scope, leads, terms>>

\* lead_delete: the row goes with its activities, when nobody has written to it.
LeadDelete(l) ==
    /\ leads[l].there
    /\ ~\E r \in Requests : requests[r].flushed /\ requests[r].op # "new" /\ requests[r].lead = l
    /\ leads' = [leads EXCEPT ![l] = [Lead(FALSE) EXCEPT !.there = FALSE]]
    /\ UNCHANGED <<scope, requests, terms>>

\* Leads that nobody enters: on an operator's board, where the operator is locked and nothing is
\* counted,
Added ==
    /\ Len(leads) < MaxLeads
    /\ leads' = Append(leads, Lead(TRUE))
    /\ UNCHANGED <<scope, requests, terms>>

WebsiteEnquiry == scope = "operator" /\ ~(\E r \in Requests : requests[r].flushed) /\ Added
VoEnquiry == scope = "operator" /\ ~(\E r \in Requests : requests[r].flushed) /\ Added

\* and on the platform's: each is of another address, for one may have one application pending.
PartnerApplication == scope = "platform" /\ Added

\* The operator's plan: the `limit' in force is the trial's, or that of its tier, until a plan is
\* `paid'; another may be `scheduled' for the next renewal; and those with the limits that are
\* `invoiced' may be paid for.  Plans without a limit fit always, and are not followed.

\* validate_capacity
Fits(plan) == plan = NoLimit \/ Cardinality(open_manual_leads) <= plan

\* request_plan holds the operator until it commits.
PlanRequested(plan) ==
    /\ scope = "operator" /\ ~\E r \in Requests : requests[r].flushed
    /\ Fits(plan)
    /\ UNCHANGED <<scope, leads, requests>>

\* A paid plan that becomes a smaller one is scheduled; a first plan and an upgrade are invoiced.
ScheduleTerms(plan) ==
    /\ terms.paid /\ PlanRequested(plan)
    /\ terms' = [terms EXCEPT !.scheduled = plan]

PlanInvoiced(plan) ==
    /\ PlanRequested(plan)
    /\ terms' = [terms EXCEPT !.invoiced = @ \union ({plan} \ {NoLimit})]

\* run_jobs: the renewal is for the plan that is scheduled, or that goes on.  One that is scheduled and
\* does not fit, by leads or by other usage, is dropped, and then what goes on is not counted.  Nothing
\* is invoiced when the period has its renewal.
RenewalInvoiced ==
    \E kept \in BOOLEAN :
        LET plan == IF kept THEN terms.scheduled ELSE terms.limit
        IN /\ terms.paid
           /\ kept => terms.scheduled # NoLimit /\ Fits(plan)
           /\ terms.scheduled # NoLimit \/ Fits(plan)
           /\ \E made \in SUBSET ({plan} \ {NoLimit}) :
                terms' = [terms EXCEPT !.scheduled = IF kept THEN @ ELSE NoLimit,
                                       !.invoiced = @ \union made]
           /\ UNCHANGED <<scope, leads, requests>>

\* An invoice is gone when it was paid or cancelled; there may be another of a plan of its limit.
Without(plan) == {terms.invoiced, terms.invoiced \ {plan}}

\* _activate: an invoice is paid, or a renewal that was begins.  Nothing is counted any more, and a
\* request that has counted is not waited for.
PlanPaid(plan) ==
    /\ scope = "operator"
    /\ plan = NoLimit \/ plan \in terms.invoiced
    /\ \E left \in Without(plan) :
        terms' = [limit |-> plan, paid |-> TRUE, scheduled |-> NoLimit, invoiced |-> left]
    /\ UNCHANGED <<scope, leads, requests>>

InvoiceCancelled(plan) ==
    /\ plan \in terms.invoiced
    /\ terms' = [terms EXCEPT !.invoiced = @ \ {plan}]
    /\ UNCHANGED <<scope, leads, requests>>

\* plan_terms: until a plan is paid the tier counts as it is, whoever edits it or gives another one.
TierEdited(plan) ==
    /\ scope = "operator" /\ ~terms.paid
    /\ terms' = [terms EXCEPT !.limit = plan]
    /\ UNCHANGED <<scope, leads, requests>>

Next ==
    \/ \E r \in Requests :
        \/ \E to \in Stages : LeadNew(r, to)
        \/ \E l \in Ids : \/ \E to \in Stages : LeadMove(r, l, to)
                          \/ LeadEdit(r, l) \/ LeadNote(r, l) \/ Approve(r, l)
        \/ Flush(r) \/ Commit(r) \/ Die(r)
    \/ \E l \in Ids : LeadDelete(l)
    \/ WebsiteEnquiry \/ VoEnquiry \/ PartnerApplication
    \/ \E plan \in Plans : \/ ScheduleTerms(plan) \/ PlanInvoiced(plan) \/ PlanPaid(plan)
                           \/ InvoiceCancelled(plan) \/ TierEdited(plan)
    \/ RenewalInvoiced
-----------------------------------------------------------------------------
TypeOK ==
    /\ \A l \in Ids : leads[l] \in [there: BOOLEAN, website: BOOLEAN, stage: Stages, closed: BOOLEAN,
                                    logged: Stages, crossed: BOOLEAN, approved: BOOLEAN]
    /\ \A r \in Requests : requests[r] = Idle \/ requests[r].op \in {"new", "move", "edit", "approve"}
    /\ terms \in [limit: Plans, paid: BOOLEAN, scheduled: Plans, invoiced: SUBSET Limits]

\* However requests overlap, the activities of a lead end with the stage it is in, unless its
\* application was approved; and it has a date of closing just while it is closed, unless somebody
\* moved it who had loaded it in another stage (move_stage, the ORM's update of changed columns).
HistoryTellsStage ==
    \A l \in Ids :
        /\ leads[l].approved \/ leads[l].logged = leads[l].stage
        /\ leads[l].crossed \/ (leads[l].closed <=> leads[l].stage \in CLOSED)

\* A smaller plan that is scheduled fits until it is in force, however requests overlap: so many leads
\* at most are open, apart from those that somebody moved who had loaded them in another stage
\* (request_plan, enforce_quotas).
ScheduledFits ==
    \/ scope = "platform" \/ terms.scheduled = NoLimit
    \/ Cardinality({l \in open_manual_leads : ~leads[l].crossed}) <= terms.scheduled

\* Paying for a plan, or editing a tier, may leave more open leads than are allowed then; but one is
\* added only by a request that has counted, and not beyond the allowance it was counted with, however
\* requests overlap: unless it reopens what it had loaded open, and another closed meanwhile
\* (enforce_quotas: the operator is locked from the count to the commit).
AdditionsCounted ==
    [][\A l \in open_manual_leads' \ open_manual_leads :
        scope = "operator" =>
            \E r \in Requests :
                LET q == requests[r]
                IN /\ q.flushed /\ requests'[r] = Idle
                   /\ \/ q.counted = NoLimit \/ Cardinality(open_manual_leads') <= q.counted
                      \/ /\ q.op # "new" /\ q.lead = l
                         /\ ManualOpen(leads[l].website, q.copy)]_vars
=============================================================================
