------------------------------ MODULE Operators ------------------------------
(***************************************************************************)
(* The operators' workspaces: how they come about (platform/routes.py,     *)
(* invite_routes.py, auth/routes.py, cli.py), the applications of          *)
(* marketplace partners (services/marketplace_partner.py), and the status  *)
(* of a workspace, which the platform's staff, a payment and an accepted   *)
(* invitation change.                                                      *)
(*                                                                         *)
(* A request loads what it changes, and commits later; it writes the       *)
(* columns it has changed, whatever they hold by then.                     *)
(***************************************************************************)
EXTENDS Integers, Sequences, FiniteSets, SequencesExt

CONSTANTS
    Requests,
    Slugs,          \* a sequence: the names, in the order they are tried
    Statuses,       \* those of OperatorStatus that are told apart
    Edits,          \* what an edit of a workspace changes
    Keep,           \* a column that is left
    MaxOperators,   \* bounds: workspaces ever made,
    Worked          \*   and those of them that are changed afterwards

VARIABLES
    operators,      \* in the order they are made
    application,    \* of a partner, the workspaces that were made of it, and what is remembered:
                    \*   that it was handled by two, and that meanwhile a workspace was given another slug
    requests

vars == <<operators, application, requests>>

Nothing == [status |-> Keep, tier |-> Keep, slug |-> Keep]
Idle == [op |-> "none", on |-> 0, sets |-> Nothing, permitted |-> FALSE, suspended |-> FALSE]

Ids == DOMAIN operators
SlugsTaken == {operators[o].slug : o \in Ids}

Operator(slug, status, tier, trial, owner) ==
    [slug |-> slug, status |-> status, tier |-> tier, trial |-> trial, owner |-> owner]

Init ==
    /\ operators = <<>>
    /\ application = [status |-> "pending", made |-> {}, crossed |-> FALSE, renamed |-> FALSE]
    /\ requests = [r \in Requests |-> Idle]
-----------------------------------------------------------------------------
\* What a request is about to do to workspace o.  `suspended' is what it has seen of its status.
Loaded(r, op, o, sets, permitted) ==
    /\ requests[r] = Idle
    /\ requests' = [requests EXCEPT ![r] =
        [op |-> op, on |-> o, sets |-> sets, permitted |-> permitted,
         suspended |-> operators[o].status = "suspended"]]
    /\ UNCHANGED <<operators, application>>

\* A column is written when it is not what was loaded.
Column(new, old) == IF new = old THEN Keep ELSE new

SetStatus(o, status) == [Nothing EXCEPT !.status = Column(status, operators[o].status)]

\* A mutation of MayHold: whatever runs can be put on hold.
MayHoldAny(o) == TRUE

MayHold(o) == operators[o].status # "suspended"

\* operator_hold and operator_release_hold need no permission for suspensions;
OperatorHold(r, o) == MayHold(o) /\ Loaded(r, "status", o, SetStatus(o, "hold"), FALSE)
OperatorReleaseHold(r, o) ==
    operators[o].status = "hold" /\ Loaded(r, "status", o, SetStatus(o, "active"), FALSE)

\* operator_suspend and operator_activate need it.
OperatorSuspend(r, o) == Loaded(r, "status", o, SetStatus(o, "suspended"), TRUE)
OperatorActivate(r, o) == Loaded(r, "status", o, SetStatus(o, "active"), TRUE)

\* operator_edit: the form has all columns; a suspension is begun and ended with that permission.
OperatorEdit(r, o, edit, permitted) ==
    LET form(f) == IF edit[f] = Keep THEN operators[o][f] ELSE edit[f]
    IN /\ form("status") # operators[o].status /\ "suspended" \in {form("status"), operators[o].status}
            => permitted
       /\ form("slug") \notin {operators[p].slug : p \in Ids \ {o}}
       /\ Loaded(r, "edit", o,
                 [f \in DOMAIN Nothing |-> Column(form(f), operators[o][f])], permitted)

\* activate: the first payment ends the trial.
InvoicePaid(r, o) ==
    Loaded(r, "paid", o,
           [Nothing EXCEPT !.status = IF operators[o].status = "trial" THEN "active" ELSE Keep,
                           !.tier = Column("plan", operators[o].tier)], FALSE)

\* operator_accept_invite: a workspace without a trial starts one, start_trial.
StartsTrial(o) == ~operators[o].trial /\ operators[o].tier # "partner"

AcceptInvite(r, o) ==
    /\ operators[o].owner = "invited"
    /\ Loaded(r, IF StartsTrial(o) THEN "accept_trial" ELSE "accept", o,
              IF StartsTrial(o) THEN SetStatus(o, "trial") ELSE Nothing, FALSE)

BeingApproved == \E r \in Requests : requests[r].op = "approve"

Written(operator, q) ==
    [[f \in DOMAIN operator |->
        IF f \in DOMAIN q.sets /\ q.sets[f] # Keep THEN q.sets[f] ELSE operator[f]]
     EXCEPT !.owner = IF q.op \in {"accept", "accept_trial"} THEN "active" ELSE operator.owner,
            !.trial = operator.trial \/ q.op = "accept_trial"]

\* The commit; a slug that was taken meanwhile fails it.
Commit(r) ==
    LET q == requests[r]
        free == q.sets.slug \notin {operators[p].slug : p \in Ids \ {q.on}}
    IN /\ q.on # 0
       /\ operators' = IF free THEN [operators EXCEPT ![q.on] = Written(operators[q.on], q)] ELSE operators
       /\ requests' = [requests EXCEPT ![r] = Idle]
       /\ application' = [application EXCEPT !.renamed =
              application.renamed \/ (free /\ q.sets.slug # Keep /\ BeingApproved)]

\* operator_admin_edit with a new address: the owner is let in by a password link.
OperatorAdminEdit(o) ==
    /\ operators[o].owner = "invited"
    /\ operators' = [operators EXCEPT ![o].owner = "active"]
    /\ UNCHANGED <<application, requests>>
-----------------------------------------------------------------------------
\* A workspace is made by a request that first looks whether its slug is free:
Creates(r, op, slug) ==
    /\ requests[r] = Idle /\ Len(operators) < MaxOperators
    /\ slug \in ToSet(Slugs) \ SlugsTaken
    /\ requests' = [requests EXCEPT ![r] = [Idle EXCEPT !.op = op, !.sets.slug = slug]]
    /\ UNCHANGED <<operators, application>>

\* operator_new: the status of the form gives way to start_trial;
OperatorNew(r, slug) == Creates(r, "register", slug)

\* operator_invite, whose owner accepts later; register_operator; and create_operator, outside of
\* any web request, which starts no trial.
OperatorInvite(r, slug) == Creates(r, "invite", slug)
RegisterOperator(r, slug) == Creates(r, "register", slug)
CreateOperator(r, slug) == Creates(r, "command", slug)

Made(op, slug) ==
    CASE op = "invite" -> Operator(slug, "trial", "plan", TRUE, "invited")
      [] op = "register" -> Operator(slug, "trial", "plan", TRUE, "active")
      [] op = "command" -> Operator(slug, "active", "plan", FALSE, "active")
      [] op = "approve" -> Operator(slug, "active", "partner", FALSE, "invited")

\* The slug is unique: who comes second fails.
CommitNew(r) ==
    LET q == requests[r]
    IN /\ q.op \in {"invite", "register", "command"} /\ Len(operators) < MaxOperators
       /\ operators' = IF q.sets.slug \in SlugsTaken THEN operators
                       ELSE Append(operators, Made(q.op, q.sets.slug))
       /\ requests' = [requests EXCEPT ![r] = Idle]
       /\ UNCHANGED application
-----------------------------------------------------------------------------
\* marketplace_application: staff load it while it is pending,
LoadApplication(r, op) ==
    /\ requests[r] = Idle /\ application.status = "pending"
    /\ requests' = [requests EXCEPT ![r] = [Idle EXCEPT !.op = op]]
    /\ UNCHANGED <<operators, application>>

RejectLoad(r) == LoadApplication(r, "reject")
ApproveLoad(r) == LoadApplication(r, "approve_load")

\* A mutation of EmailKnown: any address will do.
EmailUnasked == FALSE

EmailKnown == application.made # {}

\* _slug_for
SlugFor == SelectInSeq(Slugs, LAMBDA s : s \notin SlugsTaken)

\* provision: its address has no account, and a slug is free;
Provision(r) ==
    /\ requests[r].op = "approve_load" /\ SlugFor # 0
    /\ requests' = [requests EXCEPT ![r] = IF EmailKnown THEN Idle
                                           ELSE [@ EXCEPT !.op = "approve", !.sets.slug = Slugs[SlugFor]]]
    /\ UNCHANGED <<operators, application>>

\* and the commit makes the workspace, if its slug is still free.
ApproveCommit(r) ==
    LET q == requests[r]
    IN /\ q.op = "approve" /\ Len(operators) < MaxOperators
       /\ IF q.sets.slug \in SlugsTaken THEN UNCHANGED <<operators, application>>
          ELSE /\ operators' = Append(operators, Made("approve", q.sets.slug))
               /\ application' = [application EXCEPT !.status = "approved", !.made = @ \union {Len(operators) + 1},
                                                     !.crossed = @ \/ application.status # "pending"]
       /\ requests' = [requests EXCEPT ![r] = Idle]

RejectCommit(r) ==
    /\ requests[r].op = "reject"
    /\ application' = [application EXCEPT !.status = "rejected", !.crossed = @ \/ application.status # "pending"]
    /\ requests' = [requests EXCEPT ![r] = Idle]
    /\ UNCHANGED operators

Die(r) ==
    /\ requests[r] # Idle
    /\ requests' = [requests EXCEPT ![r] = Idle]
    /\ UNCHANGED <<operators, application>>

Next ==
    \/ \E r \in Requests :
        \/ \E o \in Ids \intersect Worked :
                          \/ OperatorHold(r, o) \/ OperatorReleaseHold(r, o)
                          \/ OperatorSuspend(r, o) \/ OperatorActivate(r, o)
                          \/ \E edit \in Edits, permitted \in BOOLEAN : OperatorEdit(r, o, edit, permitted)
                          \/ InvoicePaid(r, o) \/ AcceptInvite(r, o)
        \/ \E slug \in ToSet(Slugs) : \/ OperatorNew(r, slug) \/ OperatorInvite(r, slug)
                                      \/ RegisterOperator(r, slug) \/ CreateOperator(r, slug)
        \/ Commit(r) \/ CommitNew(r)
        \/ RejectLoad(r) \/ ApproveLoad(r) \/ Provision(r) \/ ApproveCommit(r) \/ RejectCommit(r)
        \/ Die(r)
    \/ \E o \in Ids \intersect Worked : OperatorAdminEdit(o)
-----------------------------------------------------------------------------
TypeOK ==
    /\ \A o \in Ids : operators[o] \in [slug: ToSet(Slugs), status: Statuses, tier: {"plan", "partner"},
                                        trial: BOOLEAN, owner: {"invited", "active"}]
    /\ application.status \in {"pending", "approved", "rejected"} /\ application.made \subseteq Ids
    /\ \A r \in Requests : requests[r].on \in Ids \union {0}

\* A suspension is ended by somebody who may, "Platform Super Admin only" (OperatorStatus): a
\* request of anybody else ends it only if it had loaded the workspace before it was suspended, or
\* if it accepts the invitation of a partner that was given a plan, which starts a trial.
SuspensionHolds ==
    [][\A o \in Ids :
        operators[o].status = "suspended" /\ operators'[o].status # "suspended" =>
            \E r \in Requests :
                /\ requests[r].on = o /\ requests'[r] = Idle
                /\ requests[r].permitted \/ ~requests[r].suspended \/ requests[r].op = "accept_trial"]_vars

\* Two who handle an application at once make one workspace of it, for the second finds the account
\* or the slug of the first, unless a workspace is given another slug while it is approved, which
\* makes other slugs free; and it is approved when a workspace is made of it, unless one approves and
\* the other rejects.  Slugs are unique (provision, marketplace_application).
ApplicationMakesOne ==
    /\ Cardinality(application.made) <= 1 \/ application.renamed
    /\ application.status = "approved" => application.made # {}
    /\ application.made # {} => application.status = "approved" \/ application.crossed
    /\ \A o, p \in Ids : operators[o].slug = operators[p].slug => o = p
=============================================================================
