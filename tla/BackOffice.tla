------------------------------ MODULE BackOffice ------------------------------
(***************************************************************************)
(* What an operator and the platform keep books of: the credits of         *)
(* members, leads, the operators' workspaces, the payroll, and stored      *)
(* files.  They share no state: a behaviour is of one of them, and the     *)
(* others stay as they are.                                                *)
(***************************************************************************)
EXTENDS CreditCycle

CONSTANTS
    Parts,                                  \* which of them behaviours are of
    Requests, NoLimit,                      \* of the next four
    Stages, LeadLimits, MaxLeads,           \* Leads
    Slugs, Statuses, Keep, Edits, MaxOperators, Worked,     \* Operators
    Staff, Pays, MaxSalaries, MaxRuns,      \* Payroll
    Sizes, StorageLimits, MAX_PHOTOS, MaxFiles              \* Files

ASSUME StagesOfLeads == {"new", "won"} \subseteq Stages
ASSUME LimitsOfLeads == LeadLimits \subseteq Nat /\ NoLimit \notin LeadLimits
ASSUME StorageIsCounted == Sizes \subseteq Nat /\ StorageLimits \subseteq Nat
ASSUME NamesOfWorkspaces == Slugs \in Seq(STRING)

VARIABLES
    part,
    scope, leads, leadRequests, terms,                  \* Leads
    operators, application, operatorRequests,           \* Operators
    staff, salaries, runs, payRequests,                 \* Payroll
    stored, documents, photos, limit, fileRequests      \* Files

leadVars == <<scope, leads, leadRequests, terms>>
operatorVars == <<operators, application, operatorRequests>>
payVars == <<staff, salaries, runs, payRequests>>
fileVars == <<stored, documents, photos, limit, fileRequests>>

Board == INSTANCE Leads WITH Limits <- LeadLimits, requests <- leadRequests
Workspaces == INSTANCE Operators WITH requests <- operatorRequests
Salaries == INSTANCE Payroll WITH requests <- payRequests
Store == INSTANCE Files WITH Limits <- StorageLimits, requests <- fileRequests

\* The columns of a workspace are told from one that is left.
ASSUME ColumnsOfWorkspaces ==
    LET names == {Slugs[i] : i \in DOMAIN Slugs}
    IN /\ {"trial", "active", "hold", "suspended"} \subseteq Statuses
       /\ Keep \notin Statuses \union names \union {"plan", "partner"}
       /\ Edits \subseteq [status: Statuses \union {Keep}, tier: {"plan", "partner", Keep},
                           slug: names \union {Keep}]

BackOfficeInit ==
    /\ part \in Parts
    /\ Init /\ Board!Init /\ Workspaces!Init /\ Salaries!Init /\ Store!Init
    /\ part # "leads" => scope = "platform"
    /\ part # "files" => limit = CHOOSE l \in StorageLimits : TRUE

BackOfficeNext ==
    /\ UNCHANGED part
    /\ \/ part = "credits" /\ Next /\ UNCHANGED <<leadVars, operatorVars, payVars, fileVars>>
       \/ part = "leads" /\ Board!Next /\ UNCHANGED <<vars, operatorVars, payVars, fileVars>>
       \/ part = "operators" /\ Workspaces!Next /\ UNCHANGED <<vars, leadVars, payVars, fileVars>>
       \/ part = "payroll" /\ Salaries!Next /\ UNCHANGED <<vars, leadVars, operatorVars, fileVars>>
       \/ part = "files" /\ Store!Next /\ UNCHANGED <<vars, leadVars, operatorVars, payVars>>

backOfficeVars == <<part, vars, leadVars, operatorVars, payVars, fileVars>>

BackOfficeSpec == BackOfficeInit /\ [][BackOfficeNext]_backOfficeVars
-----------------------------------------------------------------------------
\* A month is granted once, what is drawn of lots is in the ledger, what is carried over keeps to
\* its cap, and the pool is not given away twice (CreditCycle: allocate, refund, run_cycle).
CreditsSound ==
    TypeOK /\ OneMonthlyLot /\ LedgerExplainsLots /\ RolloverWithinCap /\ PoolNeverOverAllocated

\* What is so of the leads in every state: a lead's history tells of its stage, and a smaller plan that
\* is scheduled goes on fitting the open ones.
BoardInOrder == Board!TypeOK /\ Board!HistoryTellsStage /\ Board!ScheduledFits

\* The history of a lead tells of its stage, a scheduled plan goes on fitting the open leads, and one is
\* added within the allowance it was counted with (Leads: move_stage, request_plan, enforce_quotas).
LeadsKept == []BoardInOrder /\ Board!AdditionsCounted

\* A suspension is ended by those who may (Operators: operator_hold, operator_edit).
SuspensionHolds == Workspaces!SuspensionHolds

\* One workspace is made of an application (Operators: provision).
ApplicationMakesOne == Workspaces!TypeOK /\ Workspaces!ApplicationMakesOne

\* Who was let go is not paid (Payroll: staff_terminate, payroll_new).
LeaversAreNotPaid == Salaries!TypeOK /\ Salaries!LeaversAreNotPaid

\* What is stored keeps to the plan's storage (Files: StorageService.upload).
StoredWithinLimit == Store!StoredWithinLimit
=============================================================================
