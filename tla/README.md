# Hub1z: a TLA+ development

Hub1z is a Flask application over PostgreSQL with which operators run coworking spaces:
people book meeting rooms and seats and pay with credits or cash, companies hold
subscriptions and share a pool of credits, a public marketplace sells the same rooms to
outsiders, and the platform bills the operators. This directory holds TLA+ modules that
model it, the TLC configurations that check them on small instances, and proofs for TLAPS.
Paths below are relative to `src/`, and `services/`, `blueprints/` and `models/` are under
`src/app/`.

    cd tla
    tlc -workers 2 -config MCRoomBookings.cfg MCRoomBookings
    tlapm RoomBookings_proofs.tla

## How the program runs

Requests are served by several gunicorn workers; scheduled jobs (`app/cli.py`) are separate
processes started by cron. Each request or job has one SQLAlchemy session and one
PostgreSQL transaction at READ COMMITTED. Three facts decide which interleavings exist:

- A row read by a handler stays in its session. A later `SELECT ... FOR UPDATE` of the same
  row takes the lock but does not refresh an object the session already holds. So a check
  of a status read before the lock is a check of an old row.
- The flush writes only the columns the handler assigned, with values computed from what
  the handler read; the commit publishes them together.
- A lock protects what its holders agree on. Bookings of a room agree on the room's row
  lock and an exclusion constraint; spending credits locks lots, refunding them does not.

## Inventory

For each component: its state, its operations, what is hard about it, what makes it correct, and
the module that has it. `PROJECT.json` lists them with their files and what is left out of each,
and the hazards of the code line by line with the properties that cover them, or what no property
covers and why.

### Rooms, seats, spaces

| Component | State | Operations | Hard behaviour | Correct when | Module |
|---|---|---|---|---|---|
| Room bookings `services/booking_service.py`, `blueprints/booking/routes.py`, `blueprints/member/routes.py` | `room_bookings`, `room_blocks` | create, quote, cancel, re-time, check in, no-show release, block, unblock | requests on one room at once; stale status; job against request | no double booking; what was promised stays free; every meeting closes; credits follow the meeting | `RoomBookings` |
| Recurring series, the same files | `recurring_room_bookings` and their meetings | create, move, stop, make the meetings of two days, move one | the daily job next to requests; a meeting moved, then made again | one meeting of a series a day | `RoomSeries` |
| Seat bookings, the same and `blueprints/admin/routes.py` | `seats`, `seat_bookings`, `seat_allocations` | book, cancel; add, edit, delete seats; allocate | two people on a seat at once; a seat deleted meanwhile | one booking for each seat and time | `SeatBookings` |
| Subscriptions' spaces `services/subscription_spaces.py`, `blueprints/company/routes.py` | subscriptions, `seat_allocations`, change requests, the month's invoices | subscribe, attach, end, name, extra people, review | deferred and immediate changes in one month; spaces in two hands | a space is held once; a month bills whom it should | `SubscriptionSpaces` |
| Attendance `services/attendance.py`, `blueprints/checkin.py` | `attendance_records`, a location's key | scan, mark by hand, check out, renew the code | stays never closed; scans and reception | nobody is in twice | `Attendance` |
| Visitors, lockers, passes, parcels, referrals, printing `blueprints/community/routes.py`, `admin/parcel_routes.py` | a row each | create, advance, hand over, assign | two clerks with one row open | what is handed over stays so | `FrontDesk` |

### Credits

| Component | State | Operations | Hard behaviour | Correct when | Module |
|---|---|---|---|---|---|
| Spending `services/credit_service.py` | `credit_lots`, `credit_ledger` | spend, refund, forfeit, expire | locked spend against unlocked refund and expiry | a lot is what its ledger says; cap respected | `RoomBookings`, `CreditCycle` |
| Pool and monthly cycle, the same and `admin/credits_routes.py` | allocations with pending changes, lots of each month | allocate, grant, bonus, roll over, run the cycle | a cycle late or repeated; allocation next to it | one monthly lot a month; the pool is never over-allocated | `CreditCycle` |

### Marketplace

| Component | State | Operations | Hard behaviour | Correct when | Module |
|---|---|---|---|---|---|
| Bookings `services/marketplace.py` | bookings with deadlines, ID review and payment; a block for each | request, approve, decline, pay, confirm, cancel, check in, expire, review IDs | status tested before the lock; a hold expires while it is paid for | the room is kept for a live booking; commission follows the money | `Marketplace` |
| Commission invoices `services/marketplace_commission.py` | entries, invoices | monthly invoices by job, command and staff | runs overlap; reversals later | an entry is on one invoice | `CommissionInvoices` |
| Partners, enquiries `services/marketplace_leads.py`, `marketplace_partner.py` | applications, leads, workspaces | apply, approve, reject | two approve at once | one workspace for an application | `Operators`, `Leads` |
| Listings' photos, documents, receipts `services/storage.py`, `marketplace_photos.py` | stored files and rows | upload, delete, order | overlapping uploads, a file without its row | what is stored is within the plan | `Files` |

### Money

| Component | State | Operations | Hard behaviour | Correct when | Module |
|---|---|---|---|---|---|
| Member billing `services/billing_service.py`, `admin/billing_routes.py`, `customer_billing.py` | agreements, invoices, payments, reports, notes, refunds, deposits, notices, revisions | the monthly run and every handler on an invoice | the run repeated; void after payment; notice during the run | a day is charged once; what is paid is explained | `AgreementBilling` |
| Platform billing `services/operator_billing.py`, `platform/finance_routes.py`, `admin/hub1z_billing_routes.py` | plan, schedule, add-ons, invoices, payments, reports, usage | request, confirm, report, renew, reduce, cancel, bill usage | changes next to a renewal; two confirmations at once | what runs is paid for; each thing is charged once | `PlatformBilling` |
| Entitlements `services/entitlement_resolver.py` | bindings, grants, buckets, events | check, reserve, settle | two reservations of one bucket; a key sent twice; a crash in between | allowance kept; one settlement each | `UsageLedger`, `UsageReservations`, `EntitlementGrants` |
| Quotas `services/operator_quotas.py` | row counts | flush | several rows at once; a lower plan scheduled | counts stay within the plan | `Leads`, `Files`, `PlatformBilling` |
| Staff, payroll, expenses `admin/staff_routes.py` | staff, salaries, runs, receipts | hire, let go, set a salary, run, approve, pay | a run next to somebody leaving | who left is not paid | `Payroll`, `Files` |

### People, messages, the platform

| Component | State | Operations | Hard behaviour | Correct when | Module |
|---|---|---|---|---|---|
| Companies and people `blueprints/company/routes.py`, `admin/invite_routes.py`, `auth/routes.py` | companies, users, mailed links | invite, accept, deactivate, revoke, archive, restore | an old link opened after its account was put out; restore | access comes back as it was, and to whom it was given back | `CompanyPeople` |
| Operators' workspaces `platform/routes.py`, `invite_routes.py`, `cli.py` | operators with their status | make, hold, suspend, activate, edit, accept an invitation | a request that had loaded the workspace before it was suspended | a suspension is ended by who may | `Operators`, `PlatformBilling` |
| Leads `services/leads.py`, `blueprints/lead_routes.py` | leads and their activities | enter, move, edit, note, delete | stale copies; the plan's allowance, which changes meanwhile | history tells the stage; nothing is added beyond the allowance | `Leads` |
| Notifications `services/notifications.py` | each user's bell | notify, load a page, sweep, read | told by three parties of one thing | told once, and in time | `Inbox` |
| Reminders `services/alerts.py` | notices that something was mailed | the hourly job | mails before its commit; runs overlap | mailed once | `Reminders` |
| Sign-in, sessions, two-factor | users | sign in, reset, enrol | local to one request | - | not modelled (`MaySignIn` of `CompanyPeople` says who may) |
| Reports, PDFs, presentation | derived | read | - | - | not modelled |

How they interact. A booking spends credits in its own transaction, and so does the series' job
for each meeting it makes; blocks and marketplace bookings share the room's row lock with room
bookings. A marketplace booking that is paid or refunded writes commission entries, which the
monthly job puts on platform invoices. A paid platform invoice changes the plan, its limits and
the operator's status; the limits bound leads, files, seats and usage. A subscription's
spaces and extra people decide what the monthly run of member billing invoices. An archived
company's people lose their access, their places and what they are told of.

## Modules

| Module | Content |
|---|---|
| `RoomCalendar` | abstract: claims on rooms, no two of which overlap: take, move, give back |
| `RoomBookings` | requests and jobs on room bookings, their transactions, the room lock, the constraint, credits |
| `Marketplace` | outsiders' bookings of one room next to members' meetings; implements `RoomCalendar` too |
| `CreditCycle` | the pool, allocations, grants, spending over several lots, the monthly cycle |
| `AgreementBilling` | one agreement: invoices, late fees, payments, notes, refunds, deposit, notice, increases |
| `PlatformBilling` | one operator's plan, add-ons, renewals, payments, usage, status |
| `UsageLedger` | abstract: what reservations of an allowance promise, each at once |
| `UsageReservations` | the requests that reserve and settle, with row locks, keys, failures, crashes; implements `UsageLedger` |
| `EntitlementGrants` | extends it with the bindings and grants that the allowance comes from |
| `SubscriptionSpaces` | spaces, places, extra people and the month's invoices of subscriptions |
| `RoomSeries`, `SeatBookings`, `Attendance`, `FrontDesk` | what else happens at a location |
| `CompanyPeople`, `Inbox`, `Reminders`, `CommissionInvoices` | the office: people, what they are told and mailed, commission |
| `Leads`, `Operators`, `Payroll`, `Files` | the back office |
| `Premises`, `Office`, `BackOffice` | several of the small ones side by side |
| `MC...` | instances for TLC: small sets, and the bounds |
| `RoomBookings_proofs`, `Marketplace_proofs`, `AgreementBilling_proofs`, `PlatformBilling_proofs`, `EntitlementGrants_proofs`, `Premises_proofs`, `Office_proofs`, `BackOffice_proofs` | proofs, see below |

`Premises`, `Office` and `BackOffice` each put several small components side by side. The
parts share no state, so a behaviour is of one of them, chosen at the start by `part`, and the
state space is the sum of theirs, not the product. The first part is the module that the
composition extends; the others are instances.
What these modules have in common: a request that overlaps others loads in one step what it will
rely on, and in a later step writes the columns it changed; `Fail` or `Die` is an exception or a
killed process. A variable marked *history* exists for a property only; no guard reads it.

### `RoomBookings` and the code

State. `bookings` is the table `room_bookings` (a function from ids), `blocks` is
`room_blocks`, `remaining` is `credit_lots.remaining` of one lot for each payer (a company,
or an individual), and the ledger is kept as the sums the code computes from it: `net`
(USE and REFUND entries of a booking), `expired` (EXPIRE entries of a lot) and `forfeited`
(bookings with a FORFEIT entry). `now` counts half hours, the program's slot length. `task`
holds, for each process, the stage of its handler and the local variables it will use.

Actions. A handler is one step for each group of reads whose answers it keeps, and one step
for the last flush together with the commit.

| Handler | Steps |
|---|---|
| `create_room_booking` | `CreateLock` (permission, room row lock), `CreatePrepare` (window, blocks, conflicts, quote, company rules), `CreateCommit` (INSERT under the exclusion constraint, `spend` under the lot locks, commit) |
| `cancel_booking`, `refund_booking` | `CancelLoad` (row and checks), `CancelRefund` (ledger and lot read, `lot.remaining` computed), `CancelCommit` |
| `update_room_booking` | `UpdateLoad` (row and checks before the lock), `UpdateLock`, `UpdateCheck` (conflicts, old credits refunded and the new price found), `UpdateCommit` |
| `room_check_in` | `CheckInLoad`, `CheckInCommit` |
| `release_no_shows`, `forfeit_booking` | `ReleaseLoad` (all rows of the run), `ReleaseCommit` (the single commit) |
| `expire_lots` | `ExpireLoad`, `ExpireCommit` |
| `calendar_block`, `calendar_block_delete` | `BlockCheck` (clash check before the lock), `BlockCommit`, `BlockDelete` |
| any exception or a killed process | `Fail`: the transaction is rolled back and its lock released |

A commit writes what the handler assigned from what it had read: an UPDATE changes only the
columns whose value differs from the one loaded (`Written`, `Rewritten`). The row lock is
`RoomIsLocked`: some process is between its lock and its commit. The exclusion constraint of
`migrations/` is `ConstraintAllows`, evaluated with the commit, which is where PostgreSQL
would make one of two conflicting transactions wait for the other and then fail.

Data kept abstract: instants are half hours, money is the number of credits the cash stands
for, a payer has a single lot (`CreditCycle` has several), wording and mails are left out, and
so are opening hours and the waiting list. Series are in `RoomSeries`, seats in `SeatBookings`.
The operator is ACTIVE or TRIAL: `release_no_shows` and `run_all_cycles`, the monthly billing run
and the hourly alerts pass all others by (`services/booking_service.py:506-507`,
`services/credit_service.py:420-421`, `services/billing_service.py:295-296`, `services/alerts.py:159`),
and so the modules of the others take their operator to be one of these, too.

### `CreditCycle` and the code

State. `today` counts days of months of `DaysInMonth` days; `alloc` is `credit_allocations`
(monthly credits and the pending change with the month it starts), `lots` is `credit_lots`
in the order of their ids, `drawn` is what the ledger says each booking has drawn from each
lot, `task` as above.

| Handler | Steps |
|---|---|
| `allocate` | `AllocateLoad` (pool check, which of the three ways it will go), `AllocateCommit` |
| the automatic allocation of a first subscription | `AutoAllocateLoad` (what the pool refuses becomes an allocation of nothing), `AllocateCommit` |
| `credits_bonus` | `GrantBonus` |
| `spend` and `refund_booking` over several lots, for a booking, a cancellation or a move | `Spend`, `RefundOrReprice` |
| `run_cycle` | `CycleLoad` (finished lots, allocations, missing grants), `CycleCommit` (one commit) |
| any exception or a killed process | `Fail` |

`Spend` and `RefundOrReprice` are one step each: how they interleave is the subject of
`RoomBookings`, and what is at stake here is which lots a booking's credits come from and go
back to. `Overlapping` says whether two processes may have handlers open at once.

### `Marketplace` and the code

State. `rows` is `marketplace_bookings` by idempotency key, `blocks` the `room_blocks` the
marketplace inserted, `meetings` the stretches of members' bookings, `ledger` the sum of a
booking's commission entries and whether it has an accrual, `listing` the listing's status.
`lifted` remembers whose block an operator deleted, for a property. `apart` is chosen once
for each behaviour: when it holds, handlers wait for one another, otherwise they overlap.

| Handler | Steps |
|---|---|
| `create_booking` | `CreateLoad` (retry, rules, open holds), `CreateCommit` (from the room lock to the commit) |
| `approve` | `ApproveLoad`, `ApproveCommit` (from the room lock to the commit) |
| `decline`, `submit_payment`, `check_in`, `mark_no_show`, `complete`, `upload_id`, `review_id` | `DeclineLoad`, `SubmitLoad` ... and `ChangeCommit` |
| `confirm_payment` | `ConfirmLoad`, `ConfirmCommit` |
| `cancel`, `reject_id_at_venue` | `CancelLoad` or `TurnAwayLoad` (with the refund), `CancelCommit` |
| `release_expired` | `ExpireLoad` (every overdue row), `ExpireCommit` (one commit) |
| `set_listing_status` | `SetListing`; for unlisting `UnlistLoad` (which has locked the listing's row), `UnlistCommit` |
| `create_room_booking`, `cancel_booking` of a member; `calendar_block_delete` | `BookMeeting`, `CancelMeeting`; `LiftBlock` |

A commit writes, through `Merged`, the columns the handler changed from what it had loaded;
so approving a request that expired meanwhile brings it back, with the new deadline. Ledger
sums are read with the commit: autoflush has locked the booking's row by then, so two
confirmations accrue once. Both modules implement `RoomCalendar`: in `RoomBookings` the
claims are members' bookings, here they are meetings and blocks.

### `AgreementBilling` and the code

State. `sub` is the agreement's status and `terminate_on`, `terms` its terms; `invoices`,
`payments`, `reports` (`payment_submissions`), `notes` (`credit_notes`), `refunds`,
`deposits` and `revisions` are tables in the order of their ids. An invoice carries its
lines, and a line the days it charges for, which the code writes into its description.
`everVoid` and `sub.backdated` are history. `desk` is the set of operations that a behaviour uses: it is chosen
once, so that the state space is the sum of several and not their product.

| Code | Action |
|---|---|
| `_generate` from `run_monthly_billing`; with `--month` | `RunMonthlyBilling`; `RunBillingForMonth` |
| `issue_drafts`; `invoice_issue`, `invoice_void`, `invoice_line_add`, `invoice_line_delete` | `IssueDrafts`; `Issue`, `Void`, `LineAdd`, `LineDelete` |
| `payment_new`; `payment_submission_new`, `payment_submission_review` | `PaymentNew`; `PaymentSubmissionNew`, `SubmissionAccept`, `SubmissionReject` |
| `credit_note_new`, `_apply`, `_cancel` | `CreditNoteNew`, `CreditNoteApply`, `CreditNoteCancel` |
| `refund_new`, `_complete`, `_fail` | `RefundNew`, `RefundComplete`, `RefundFail` |
| `record_deposit`, by hand | `DepositEntry` |
| `give_notice`, `withdraw_notice`, `end_terminated_subscriptions` | `GiveNotice`, `WithdrawNotice`, `EndTerminated` |
| `propose_revisions`, `decide_revision` | `ProposeRevisions`, `RevisionConfirm`, `RevisionDismiss` |

Each handler is one step: what is at stake here is the order of handlers, not their overlap. A
notice has any date the form takes, past or to come (`admin/agreement_routes.py:161-170`), out of
`NoticeDates`; one that was dated before the month in which it is recorded is remembered as
`backdated`. GST is part of the amounts, and a credit note for no invoice, which changes none, is left out.

### `PlatformBilling` and the code

State. `operator`, `sub` (plan, period, terms and what is scheduled), `addons`, `invoices`,
`payments`, `reports`, `usage` are tables; `seats` and `storage` is what the operator uses;
`desk` is the set of operations a behaviour is tried with, and `tasks` what two
overlapping requests have loaded. Amounts are whole paise, GST included.

| Code | Action |
|---|---|
| `request_plan` by the operator; by the platform with a negotiated price | `RequestPlan`; `RequestContract` |
| `request_addon`, `schedule_addon_renewal` | `RequestAddon`, `ScheduleAddonRenewal` |
| `confirm_payment`, one at a time; overlapping | `ConfirmPayment`; `ConfirmLoad`, `ConfirmCommit` |
| `hub1z_payment_report`, `finance_payment_report_review` | `ReportPayment`; `AcceptReport`, `RejectReport` |
| `hub1z_invoice_cancel`, one at a time; overlapping | `CancelInvoice`; `CancelLoad`, `CancelCommit` |
| `finance_invoice_new` | `ManualInvoice` |
| `run_jobs` (renewal invoices, activation of paid renewals, usage in arrears, overdue) | `RunJobs`, and `StartRenewal` for the job on the day a paid renewal starts |
| `record_usage_snapshot` | `RecordUsage` |
| allocations and uploads under the plan's quotas | `SeatsGrow`, `StorageGrows` |
| `operator_hold`, `operator_release_hold`, `operator_suspend`, `operator_activate` | `Hold`, `ReleaseHold`, `Suspend`, `ActivateOperator` |

`_activate`, which every paid invoice goes through, is the operator `Activated`; a run of
`run_jobs` bills each window of usage that has no invoice yet, then issues the renewal or starts
the one that is paid, then looks for what is overdue, in the code's order.

### `UsageReservations`, `UsageLedger`, `EntitlementGrants` and the code

`buckets` and `events` are `entitlement_usage_buckets` and `entitlement_usage_events`;
`bucketLock` and `eventLock` say who holds a row, or a key inserted and not yet committed.
`reserve_usage` is `ReserveBegin` (the key is looked up), `LockBucket` (the row's lock, and what
it holds), `InsertEvent` (waits for whoever has inserted the key; its failure abandons the
savepoint, `Abandon`), `ReserveCommit`. `settle_usage_reservation` is `SettleBegin` (locks the
event), `LockSettledBucket`, `SettleCommit`. `Abandon` is every refusal and every crash (`Refused`
the refusals alone); `End` gives the locks back. The allowance a request goes by is the one it has
resolved before it waits for the bucket. `UsageLedger` does each in one step. `EntitlementGrants`
adds `Bind` (`_active_binding`), `Begins` and `Ends` (a grant's window), `Requested`
(`check_entitlement`), and `Allowance`, which combines grants as `_new_decision` does: overrides
by priority, sums, maxima, denials, conflicts.

### `SubscriptionSpaces` and the code

State. `subs` are the agreements with their extra people (and the count before a deferred
change), `places` the active `seat_allocations`, `requests` the change requests that wait,
`bills` what this month's invoices of each subscription count, `agreed` history.

| Code | Action |
|---|---|
| `_subscribe` with `_read_spaces`, `attach_spaces`, `create_deposit_invoice` | `Subscribe` |
| `individual_subscription_cancel`, `company_subscription_cancel` (`end_places`) | `EndSub` |
| `change_extra_people`, now or from the next month, added to an invoice or alone | `ChangeExtraPeople` |
| `plans` (a request), `company_subscription_request_review` | `RequestChange`; `Approve`, `Deny` |
| `allocations`, `allocation_end` | `Allocate`, `EndAllocation` |
| `allocation_assign`, `employee_edit`, `allocation_release`, `employee_deactivate` | `Assign`, `EditPlace`, `Release`, `ReleaseAll` |
| `_generate` from `run_monthly_billing` | `MonthlyBilling` |

### `CompanyPeople` and the code

State. `accounts` are the users with their access, `links` the mailed invitations that have not
expired, each with the stamp it was made with; `company` has its status and the access its people
had when it was archived. Pages that stay open, and mails, lie days apart; requests do not
overlap.

| Code | Action |
|---|---|
| `register_individual`, `register_company`, `invite_company_new`, `invite_individual_new`, `invite_team_new`, `employee_new` | `RegisterIndividual`, `RegisterCompany`, `InviteCompany`, `InviteIndividual`, `InviteTeam`, `EmployeeInvite` |
| `invite_resend`, `employee_resend`; `read_token` | `OperatorResend`, `EmployeeResend`; `LinkExpires` |
| `accept_invite`, `accept_member_invite`, `accept_team_invite`, `accept_company_invite` | `AcceptInvite`, `AcceptMemberInvite`, `AcceptCompanyInvite` |
| `employee_edit`, `individual_edit`, `reset_password`, `change_password` | `EmployeeEdit`, `IndividualEdit`, `ChangePassword` |
| `employee_deactivate`, `employee_reactivate`, `individual_status`, `invite_..._revoke` | `EmployeeDeactivate`, `EmployeeReactivate`, `IndividualDeactivate`, `IndividualReactivate`, `RevokeMember`, `RevokeCompany` |
| `company_archive`, `company_restore`, `company_edit` | `Archive`, `Restore`, `EditCompany` |

### The parts of `Premises`

- `RoomSeries`: one series in one room. `CreateSeries` and `QuickBook` make it, `UpdateSeries` and
  `CancelSeries` move and stop it, `MoveOne` and `CancelOne` one meeting; the daily job is
  `JobReads` (the series, once) and `JobMakes`, a transaction for each of the two days, with
  requests between. Other bookings and credits may refuse any meeting.
- `SeatBookings`: `create_seat_booking` is `BookLoad`, `BookCheck` (takes the row's lock and looks
  for conflicts) and `BookCommit`; `seat_delete` and `allocations` are a check and a commit each,
  since neither locks. Bulk and single edits wait for the lock.
- `Attendance`: `toggle` reads the open stay (`Toggle`) and writes it or a new one (`Commit`), for
  scans by the person (`SelfScan`, which needs a current code), reception, the team and by hand;
  `CheckOut` closes any stay; `RegenerateKey` retires the posters.
- `FrontDesk`: one row of any kind; two clerks have it open, each writes back the columns it
  changed (`Flushed`). `HandOver`, `Remind`, `VisitorCheckIn`, `AssignLocker`, `Admit` and so on.

### The parts of `Office`

`CompanyPeople`, and:

- `Inbox`: one matter (an announcement, ticket, parcel or meeting). `Tell` is what its handler
  writes, `PageLoad` is `sync_user` for one person, `SweepBegins`, `SweepUser`, `SweepEnds` the
  job over all with a single commit; `MarkRead`, `MarkUnread`, `ReadAll`.
- `Reminders`: `Begin` (what the run finds and has not noted), `SendMails`, `Commit` (the
  notices).
- `CommissionInvoices`: `Begin` (which operators have something), `Invoice` (locks one's entries,
  sums them, finds a free key), `Commit`; three callers, and the months they ask for.

### The parts of `BackOffice`

`CreditCycle`, and:

- `Leads`: `LeadMove`, `LeadEdit`, `LeadNote`, `Approve` load; `Flush` is the `before_flush` hook,
  which locks the operator and counts; `Commit` writes the changed columns and the activity.
  `LeadNew`, `WebsiteEnquiry`, `VoEnquiry`, `PartnerApplication` make leads. What the plan allows
  is `terms`: the limit in force (the trial's or the tier's until a plan is `paid`), that of a
  scheduled plan, and the limits of the plans that are invoiced, as a set (how the invoices
  themselves go is in `PlatformBilling`). `PlanInvoiced` and `ScheduleTerms` are `request_plan`,
  which holds the operator and counts (`Fits`); `RenewalInvoiced` is `run_jobs`, `InvoiceCancelled`
  and `TierEdited` the handlers of those names. `PlanPaid` is `_activate`, which neither counts nor
  waits for the operator's lock. Each is one step. A plan with all features has no limit of its own
  (`platform/forms.py:181-184`).
- `Operators`: `OperatorNew`, `OperatorInvite`, `RegisterOperator`, `CreateOperator` make
  workspaces; `OperatorHold`, `OperatorSuspend`, `OperatorEdit`, `InvoicePaid`, `AcceptInvite` and
  their like load, and `Commit` writes; `ApproveLoad`, `Provision`, `ApproveCommit`, `RejectLoad`
  and `RejectCommit` handle an application.
- `Payroll`: `SalaryLoad`/`SalaryCommit`, `TerminateLoad`/`TerminateCommit`, `StaffEdit`; a run is
  `PayrollBegin` (who is active), `PayslipOf` for each member, `PayrollCommit`.
- `Files`: `Upload` stores the file under the operator's lock, `Commit` writes the row;
  `DeletePhotoFile` comes before `DeletePhotoRow`, as in the code.

## Runs

| Run | Specification | Checks |
|---|---|---|
| `rooms_concurrent` | `Spec` of `RoomBookings`, handlers overlapping | `TypeOK`, `PromisedStretchKept`, refinement `RoomsNeverDoubleBooked` |
| `rooms_closing` | `FairSpec` of it | `EveryMeetingCloses` |
| `rooms_serial` | `SerialSpec` of it, one handler at a time | `CreditsAccounted` (`LedgerExplainsBalance`, `CreditsFollowTheMeeting`), `CapRespected` |
| `marketplace` | `Spec` of `Marketplace`, overlapping or not | overlapping too: refinement `NeverDoubleBooked`, `RoomKept`'s `TypeOK`; one at a time: its `BlockWhileOccupying`, `CommissionFollowsMoney`, `ImagePurgedAtEnd` |
| `agreement_billing` | `FairSpec` of `AgreementBilling` | `MoneyExplained` (`TypeOK`, `PaidIsExplained`, `DepositLedgerSound`), `NoDayChargedTwice`, `NoticeRunsOut` |
| `platform_billing` | `FairSpec` of `PlatformBilling` | `BilledOnce` (`TypeOK`, `MoneyCountsOnce`, `ExtraSeatsBilledOnce`), `WhatRunsIsPaidFor`, `RenewalFollowsAddons`, `PaidRenewalStarts` |
| `platform_downgrade_lost` | `Spec` of it | `DowngradeAppliesAtRenewal`: violated |
| `usage_reservations` | `GrantsSpec` of `EntitlementGrants`, requests overlapping | `AllowanceKept`, refinement `ImplementsLedger`, `EveryRequestEnds`, `MoreIsNeverLess` |
| `spaces_month_unbilled` | `Spec` of `SubscriptionSpaces` | `MonthIsBilled`: violated |
| `premises` | one of five parts | `SpacesSound` (`TypeOK`, `SpaceHeldOnce`, `NobodyBilledTwice`), `RegularBillsPeople`, `OneMeetingADay`, `SeatBookedOnce`, `PresentOnce`, `DeskIsRight` |
| `office` | one of four parts | `TypeOK`, `RestoreReturnsAccess`, `OutUntilReadmitted`, `ToldOnceAndInTime`, `MailedOnce`, `CommissionBilledOnce`, `InvoicesAddUp` |
| `back_office` | one of five parts | `CreditsSound` (`TypeOK`, `OneMonthlyLot`, `LedgerExplainsLots`, `RolloverWithinCap`, `PoolNeverOverAllocated`), `LeadsKept` (`TypeOK`, `HistoryTellsStage`, `ScheduledFits`, `AdditionsCounted`), `ApplicationMakesOne`, `SuspensionHolds`, `LeaversAreNotPaid`, `StoredWithinLimit` |

The passing runs have between 173 thousand (`rooms_closing`) and 2.7 million (`back_office`)
distinct states and take up to a little over three minutes each with two workers.
`CHECK_DEADLOCK FALSE` is said where the days, rows or amounts of the instance run out: the system
goes on, the instance does not.

What they show.

*Rooms.* Whatever requests and jobs interleave, a room is never double booked and a stretch
promised under the room lock is kept; a lot never goes below zero, although a quote may have
seen credits that another booking spends before it; and every meeting is closed in the end.
One handler at a time, the ledger explains every balance, the credits follow the meeting, and
the company's cap holds. A series has one meeting a day, a seat one booking at a time.

*Credits.* One grant for each subject and month (also when a grant in mid-month rounds down to
nothing, when an allocation restarts from zero, and when the job runs late or twice), lots
explained over spends, moves and refunds that reach back to lots that have expired since,
rollover once and within the cap, and a pool that block mode never over-allocates.

*Marketplace.* Whatever overlaps, no slot is sold that a member or another customer has. One
handler at a time, block, commission, payment and the ID image follow the booking through every
sequence of requests, approvals, payments, refunds and expiries. Reversals round halves up, as
`money` does: of a commission of one paisa, which the run has, half a refund leaves nothing.

*Agreements.* Whatever the order of invoices, payments, refunds and notices, no day is charged or
fined twice, the sum paid on an invoice is what happened to it, a deposit is held once, a
withdrawn notice gives back what it took, and a notice runs out although the job missed the
day. `NoDayBilledTwice`, a part of `NoDayChargedTwice`, names what it needs, and each is a way to
lose it: no notice period at all, no pro rata, a month billed ahead with `--month`, an
invoice that was void and came back, or a notice that is dated before a month already billed.
`give_notice` takes any date, and its fee for leaving is then for days that the plan was billed for
(`services/billing_service.py:457`, `:470-478`). Nothing else is charged twice even then: a month that is
billed after the notice ends where its fee begins.

*The platform's billing.* A payment counts once, however it is reported, confirmed and sent again,
also when two requests confirm or cancel one invoice at the same time, unless the add-ons change
meanwhile; nothing works that is not
on a paid invoice; the untouched renewal of an operator that keeps its plan is repriced with every
change of the add-ons; no day's extra seats are billed twice; and a renewal paid in advance
starts.

*Usage.* Requests that race for a bucket or for a key, fail or are killed change the ledger as if
each ran alone, and none waits for ever. A grant that overrides nothing never takes anything
away.

*People and the rest.* A restored company has the people it had, with the access of the time; who
was put out comes back only when readmitted, whatever old link is opened. What was read does not
ring again, nobody is mailed twice, and commission is on one invoice. A lead's history tells its
stage, the open leads fit a plan that is scheduled, and none is added beyond the allowance it was
counted with; one workspace is made of an application; a
suspension is ended by who may; who was let go is not paid; what is stored is within the plan.

Two runs show where the code falls short of what its documents and tests say:

1. *A downgrade is lost* (`platform_downgrade_lost`). It is accepted after the renewal's invoice
   was issued. `run_jobs` finds the invoice by its key and leaves its terms; paying it starts the
   dearer plan and clears the schedule. `README.md:63-64` says downgrades apply at renewal.
2. *A month is not billed* (`spaces_month_unbilled`). A subscription with a deposit starts on the
   first. The deposit's invoice has the first as its day, so an increase of the extra people takes
   it for the month's invoice and raises one beside it; the monthly run takes that one for the
   month's invoice, and the plan is never billed for the month.

### What the properties leave out

The properties say themselves where they claim nothing. The models do show these behaviours of
the code, each of which some property excludes:

- *Handlers that overlap.* `refund_booking` reads a lot without a lock, so a spend between its
  read and its write is lost from the balance; two makers of monthly grants both grant; a
  cancellation is undone by a no-show job that had loaded the booking; approving a marketplace
  request that expired meanwhile brings it back. Two bookings in two rooms pass the company's cap
  together. A seat deleted while it is booked takes the booking with it, and an allocation does
  not look at bookings. Two scans at once leave two open stays; a locker assigned and released at
  once has a status that does not match its holder; two clerks can hand one parcel over and send
  it back. A hold, an edit or a payment that had loaded a workspace before it was suspended lifts
  the suspension, and so does an accepted invitation of a partner that was given a plan. A payment
  of Hub1z's renewal that is confirmed while fewer units are chosen to renew is compared with the
  amount from before, as `confirm_payment` locks the row but keeps what its request had loaded
  (`AmountsStay`): more is recorded than the invoice then asks for. An
  application approved and rejected at once ends rejected with a workspace. A request that moves a
  lead on from a stale copy passes the allowance and leaves its date of closing wrong; one that
  reopens a lead it had loaded open, and another has closed since, is not counted. Two changes
  of one salary leave two current salaries. Two uploads pass `MAX_PHOTOS`, which is counted before
  the lock.
- *Sequences.* An allocation made on the first of a month overwrites the change that is due that
  day. An invoice that was voided returns when a payment report on it is accepted. A credit note
  on an exit charge keeps the notice from ever being withdrawn. Unlisting a space declines its
  requests without purging the ID images (`services/marketplace.py:507-518`); every other end purges
  them. A notice dated back charges days twice, as said above. The page of the seats offers the places
  that have no subscription, but ends any (`admin/routes.py:614-622`). Extra people reduced and added in one month are billed
  twice; a change put on this month's invoice after one for the next month bills that one too
  soon; a reduction frees a place that is paid for; who has a space on his own can never reduce
  his extra people. Approving a request after its subscription was cancelled revives it without
  places. A company archived, edited to active, and archived again cannot be restored to anybody.
  A meeting of a series that somebody moved is made again at its old time, and a job that had read
  a series still makes a meeting after it was stopped. An upgrade paid late moves the period back,
  and a renewal that was issued before keeps the units it was issued with: what was bought since
  is lost when it starts.
- *Counting.* A plan is counted against the open leads when it is asked for, not when it is paid
  for: leads that were added in between under the trial's terms, or those of the plan before, stay
  above the limit that then comes into force, and so do they when a tier on trial is edited. The
  handlers only keep more from being added. Naming an employee to a place on the employee's own page passes by the capacity that
  the page of the seats checks; photos and ID images do not count as stored; a lead entered as won
  is counted as open by the flush that inserts it; leads that are closed by an approval have no
  activity that says so.
- *Failures.* A mail that was not delivered is noted as sent, and a run that dies after its mails
  sends them again; a photo's file is deleted before its row; the audit of a deleted lead is
  committed before the deletion.

### Bounds, and why they are enough

- *`RoomBookings`: one room, two bookings, two processes, `Horizon = 2`.* Rooms interact only
  through the payers' credits and the no-show job. Every property of the concurrent runs relates a
  row to another row or to one handler in flight, and is broken (or not) by one handler
  overlapping another. Both processes serve requests and jobs, so every pair of handlers overlaps;
  they are interchangeable, so their permutations are a sound symmetry (the liveness run uses
  none). Three instants give windows that are equal, overlapping, nested and touching, meetings
  that are over, and lots that have expired. `rooms_concurrent` has one person, an operator admin,
  who may do whatever any other user may: permissions only remove behaviours. The permissions, the
  cap and pay-per-use matter to `rooms_serial`, which has three people and a block.
- *`CreditCycle`: two subjects, amounts 0 and 2, a pool of 2, months of two days.* One subject's
  increase must wait for the other's decrease; half of a month's 2 credits is 1, of which the cap
  of 1 is carried whole or in part; a first day, on which changes are due, and a later one; a
  month to be granted, one to roll over into, and one into which nothing may be carried again.
- *`Marketplace`: one slot, an instant before it and one after its start.* All bookings and the
  meeting compete for it; before it refunds are full and afterwards partial. Overlapping handlers
  are checked on one booking (`Contended`) and a meeting: what goes stale is one row, and bookings
  meet in the capacity check, under the room's lock. The commission is one paisa, so that half of it
  is rounded; the proof is for every commission.
- *`AgreementBilling`: three months of two days, a lock-in of two months, three invoices, three
  movements of money.* Notices are dated on the first two days and on the fourth, and recorded on any:
  the same day, later or earlier, in a month that is billed or in the next. Notice on the second day of a month ends in the middle of the next, so that
  pro rata, the exit fees and a month that is not charged at all occur; a late fee is charged
  twice on one invoice; a payment, its refund and another payment.
- *`PlatformBilling`: months of two days, years of two months, five days.* A window of usage, one
  cut by an upgrade, and a renewal to be invoiced, paid early, late or never. The cases differ in
  plan and `desk`; what has many states of its own is tried with fewer requests and payments
  (`RequestsFor`, `MoneyFor`, `DayFor`). Two plans, one add-on of at most two units, part payments
  of half.
- *Usage: two keys, two buckets, two processes.* Two requests for one bucket, for one key in two
  buckets, and a settlement next to either. Two grants at a time are enough for sums, maxima,
  overrides and conflicts.
- *`SubscriptionSpaces`: two seats, two subscriptions, ten cases*, each with the operations that
  touch one another; a desk for one and an office for two.
- *`CompanyPeople`: five people*: the company's admin, two employees of whom it may have one, an
  individual, one of the team; a person's link is made at most twice, and the second employee's
  and the team's once.
- *`RoomSeries`*: two days of two slots. *`SeatBookings`*: two seats, two requests, a booking
  each. *`Attendance`*: one person, two desks, four hours, stale after one. *`FrontDesk`*: two
  clerks, one row of each kind, two dates. *`Inbox`*: a member and one of the team, three moments,
  two changes of the matter. *`Reminders`*: two runs, two days. *`CommissionInvoices`*: two runs,
  operators, entries (one of them negative) and months. *`Leads`*: two leads, two requests, three
  stages, plans with a limit of one and with none, so that each can come before or after the other. *`Operators`*: two workspaces of which the status of one is worked
  on, an edit changes one thing. *`Payroll`*: one member, three salaries, one run. *`Files`*:
  three files of one unit, a limit of one or two, one photo. The requests of `back_office` are
  interchangeable: nothing tells them apart, and their permutations are a sound symmetry. In each, two actors work on the one
  row that goes stale, and there is one more row for it to be mistaken for.
- The bounds in guards are `MaxBookings`, `Horizon`, `MaxBlocks`, `LastDay`, `MaxLots`,
  `Contended`, `NoticeDates`, `MaxInvoices`, `MaxMoney`, `MaxEntries`, `MaxRevisions`, `MaxRequests`, `MaxUsage`,
  `MaxUnits`, `MaxSubs`, `MaxQuantity`, `MaxExtra`, `MaxStamps`, `MaxAllowances`, `MaxGrants`,
  `MaxSeats`, `MaxKeys`, `MaxStays`, `LastHour`, `LastDate`, `LastSlot`, `LastMoment`,
  `LastMonth`, `MaxChanges`, `MaxLeads`, `MaxOperators`, `MaxSalaries`, `MaxRuns`, `MaxFiles`, and
  the one line that may be added to an invoice.

### Fairness

Nothing is assumed of people: nobody need check in, cancel, pay or finish anything.

- `RoomBookings`: `Tick` is weakly fair. For each cron process `ReleaseLoad` and `ReleaseCommit`
  are strongly fair: cron starts `release-no-shows` every five minutes (`README.md:32`), so not
  every run of it meets another job or is killed half way; it is started for this operator while it is
  ACTIVE or TRIAL, which the module takes it to be: the meetings of one that is on hold or
  suspended wait. `ExpireCommit` is weakly fair: a job that has loaded its rows goes on.
- `AgreementBilling`: days pass and `EndTerminated`, part of the daily job, is weakly fair: a run
  may be missed, not all of them. `PlatformBilling`: days pass, and `StartRenewal`, the job on a
  day on which a paid renewal is due, is weakly fair.
- `UsageReservations`: for each process, `Proceed` or `Refused` is strongly fair: a request that
  has begun goes on, and PostgreSQL gives a row lock to those who wait in turn. Requests never
  wait in a circle: who waits for a bucket holds at most an event that no one waits for with that
  bucket in hand, and who waits for a new key waits for a request that has its bucket already.

## Proofs

Everything here holds for every value of the constants: any number of processes, requests, rooms,
rows and people, every price, limit and length of a month. It rests on the assumptions named in the
modules, which only say that counts are natural numbers, that sets of statuses contain the ones the
code names, that constants which stand for nobody are nobody, and the like.

**Rooms** (`RoomBookings_proofs`). `TypeCorrect` (`Spec => []TypeOK`), `PromiseKept`
(`Spec => []PromisedStretchKept`), `NeverDoubleBooked` (it implements `RoomCalendar`), and what that
buys, `LiveRowsNeverOverlap`. `PromisedStretchKept` is not inductive: it speaks of handlers past
their check, and what keeps their stretch free is the lock, which must be known to be held by one
process only, by handlers whose task names the room their row is in. `IInv` conjoins `TypeOK`,
`TasksNameRows`, `EditsLockTheirRoom` (no handler changes a room), `ChecksSawTheirWindow`,
`LockExclusive` and `PromisedStretchKept`. Each action is shown to be a `GoodStep`: it starts or
ends one task and adds at most one confirmed stretch, only for the holder of the lock; one lemma
shows that a `GoodStep` preserves each conjunct. The refinement needs `OneRowWritten` of each action:
it writes one row or only closes rows, so it is a take, a move, a give-back, or a stutter.
`CreditsAreAccountedFor` (`SerialSpec => []CreditsAccounted`) and `CapIsRespected` are about handlers
that do not overlap. Neither is inductive, as a commit writes what its task computed: `SerialInv` says
of each stage that what it knows of the rows is still so (`TasksKnow`), and of each row that the
ledger took what it says it used, unless its lot has expired and it says it used nothing
(`RowsAddUp`). A step then leaves the rows alone (`LoadStep`), or writes one row and one entry
(`OneRowCommit`), of which `RowKept` and `RowAdded` say what they do to the sums over the rows of a
payer and of a user.

**Marketplace** (`Marketplace_proofs`). `MembersAndOutsidersShareOneRoom` is the refinement of
`RoomCalendar`, with any handlers overlapping. Its invariant `MarketInv` says of every task what its
handler had checked of the rows it loaded, and that rows name no block but their own; a step is then
a take, a give-back or a stutter, although a stale handler may write an old status back. With
handlers one at a time, `OccupantsHaveTheirBlock`, `CommissionIsOwedOnWhatIsKept` and
`ImagesGoWithTheirBookings` follow from `ApartInv`: one handler works at a time (`Single`), on rows
that are as it loaded them (`Fresh`), so that each booking can be judged on its row, its block and
its entry alone (`BookingKept`). The commission that is left of a cancelled booking is within half a paisa of
its share, whatever the commission and the refund are, which is what rounding halves up comes to; and an
image outlives its booking only on the rows that unlisting has declined (`withdrawn`).

**Agreements** (`AgreementBilling_proofs`). `DaysAreChargedOnce` (`Spec => []NoDayChargedTwice`). The
invariant `BillingInv` is about the days of lines alone. `FineInv`: fines of one invoice lie apart, and
none reaches beyond the day the invoice says it is fined to. `PlanInv`, under what `NoDayBilledTwice`
names: a plan's line stays within its month and before the end of the notice, two invoices that were
never void have different months, and there is one fee for leaving, from the day the notice ends. The
plan's lines lie before that day, but for those billed before a notice that is dated back (`FeeApartAt`):
a notice that is dated in the month in which it is recorded, or later, ends after all that is billed.
`MoneyAddsUp` (`Spec => []MoneyExplained`), from the assumptions on terms, amounts and bounds
(`DaysOfTerms`, `SumsOfTerms`, `Uses`, `Calendar`, `Amounts`, `Bounds`), has the invariant `MoneyInv`. It
says of the tables of payments, notes and refunds that what an invoice says is paid is the sum over
their rows (`PaidAsExplained`). The code takes a refund from what is paid but never below nothing, and
that would lose a part of it: it never does, since a payment covers its refunds (`Covered`, the guard
of `refund_new`), so that the payments on an invoice cover all of its refunds together
(`CoveredTogether`). Of the deposit's ledger (`LedgerOK`) it says that the deposit was received once,
for the invoice made with the agreement, and that no more left it than came in. `withdraw_notice`
restores the forfeits after as many as there are reversals; `GivenBack` says that these are the last
forfeit or none, and none when no notice stands, so that this count is the right one (`LostIsOpen`).
A handler then adds a row to a table or replaces one by a row of the same amount (`Grown`, `Altered`),
and what is paid on one invoice moves by that amount and on all others stays (`Moves`, `Stays`).

**Platform billing** (`PlatformBilling_proofs`). `WhatRunsHasBeenPaid` and `RenewalsAskForWhatRenews`,
for requests that do not overlap. The handlers work through helpers that each change a part of the
books (`Activated`, `Repriced`, the parts of `run_jobs`), so the invariant `BooksInv` is about books,
and each helper is shown to pass it on. It says that the period is that of a paid invoice
(`PlanBacked`), the units of an add-on are those of a paid invoice that ends when they do
(`UnitsBacked`), and, for who bought one plan only, that one renewal follows the present period and the
others were paid and have begun (`InOrder`); only then does an untouched renewal follow the add-ons
(`Follows`). With two plans bought it does not, which is why the property says `KeepsItsPlan`.
`PaymentsAndSeatsCountOnce` (`Spec => []BilledOnce`), from `Bounds`, `Offers` and `Amounts`, has an
invariant of two parts. `MInv` is of all requests, the overlapping ones too: unless add-ons change the
amounts of open invoices meanwhile, what is paid on an invoice is the sum of its payments, within its
amount and equal to it once it is paid (`Right`), and what a request has loaded is what its invoice
still asks for (`TaskRight`); keys and reports are taken once. The helpers pass this on, as what they
write is related to what was there (`Carries`, `Firm`). `OInv` is of requests that do not overlap: the
periods of the paid plan and of its renewals follow one another (`InSequence`, `Ordered`), for who began
one plan from one start (`OneStart`), and every bill of usage is a month of one of them (`MonthOf`);
months counted from one start are the same or apart.

**Usage** (`EntitlementGrants_proofs`). `LedgerKeepsItsPromise`: in the abstract ledger no bucket holds
more than some allowance that was in force; its invariant adds that what a bucket has reserved is the
sum of the pending reservations on it, so that a settlement never finds less reserved than it takes
away. `TypesHold`, `RequestsImplementLedger` and `AllowanceAlwaysKept` of the requests: the invariant says
who holds the locks, and that what a request read under a lock is still there until its commit,
which then is the ledger's `Reserve` or `Settle`; all other steps stutter.
`GrantedRequestsImplementLedger` and `GrantedAllowanceKept` carry both to `GrantsSpec`: a grant that
begins or ends only chooses another of the limits, which is the ledger's `ChangeLimit`.
`MoreGrantsAllowNoLess` (`MoreIsNeverLess`): a limit is what the grants in force come to, finitely many
(`GInv`, from the assumption `GrantsAreGrants`); a sum over more grants is no smaller (`TotalGrows`), nor is
the largest of more of them, so that only a grant that overrides can take something away.

**`Premises`** (`Premises_proofs`), a theorem for each part:
- `SeatsBookedOnce`: one request at a time has looked at a seat under its lock, and what it found is
  still so (`LockHeldOnce`, `StillFree`).
- `NobodyIsInTwice`: of a person whose requests did not overlap, one scan is in hand, and a scan that
  found nobody in is still right (`OneScan`, `StillOut`).
- `ClerksDoNotUndoEachOther`: what a clerk has in hand of a parcel leaves its status or hands it over
  (`ParcelLeavesOnce`); a locker that no two had in hand is as its clerk read it (`LockerInOneHand`).
- `SeriesMeetsOnceADay`: on a day that is not excused all meetings are at the time of the series
  (`AtTime`), and what the job has read is that time, or is about days that are excused (`JobKnows`).
- `PeopleAreBilledOnce` and `RegularBillIsForThoseAgreed`: what is billed now is what was agreed, and
  that and what was billed by itself are not more than there are (`BillInv`).
- `SpacesAreHeldOnce`: what is held under a subscription is held by its holder, who never changes
  (`PlacesInv`), so that rows added for more people agree with the ones that are there. The rows that
  stay when some are deleted (`Kept`) and those of several spaces at once (`SpacePlaces`) are shown to be
  what they are meant to be by counting the rows before each (`Ranks`) and by division (`Blocks`).

**`Office`** (`Office_proofs`):
- `NobodyPutOutIsActive`, `RestoredAsArchived`, `PutOutStayOut`: an account's stamp bounds those of its
  links, and what was remembered of an archived company stands until it is restored, unless its status
  was edited by hand (`SnapshotStands`).
- `NobodyIsMailedTwice`: what was mailed is noted, or held by a run that will note it
  (`HeldOrNoted`).
- `ToldOnceEach`: a box has one notification of each key, and whomever the job owes something it has
  told or has yet to see (`BoxOf`, `Owed`).
- `CommissionIsOwedOnce`: an entry that a run has locked is on no invoice, and nobody else has locked
  it (`LocksHeld`, `NewInvoices`).
- `InvoicesAreForTheirEntries`: the keys that entries are marked with are those of the invoices that
  are there (`InvoicesThere`), a key that a run chooses is on none of them, as one of the first
  numbers is free (`KeyIsFree`), and amounts stay, so that what entries came to when the invoice was
  made is what they come to (`AmountsStay`).

**`BackOffice`** (`BackOffice_proofs`):
- `CreditsAddUp`, for handlers one at a time, which is what the run checks: how they overlap is the
  subject of `RoomBookings`. `CreditsInv` says that what `allocate` and `run_cycle` have read is still so when
  they write (`Alone`, `TasksAgree`), and of the lots: no month has a lot before it begins, a lot of
  the month is for an allocation, a pending change starts in a month that has none, one lot of a
  subject is alive at a time and a lot is carried over once (`OneAlive`, `CarriedOnce`), and no booking
  has drawn less than nothing from a lot (`DrawnOfLots`). That the lots add up, that a spend over
  several lots takes what it should and that the pool's allocations keep to its limit are sums over
  finite sets; the lemmas about them (`SumWithout`, `SumWithOneChanged`) come of an order in which a
  set is picked empty one by one (`SetsByPicking`), which is well-founded as the sets are finite
  (`Countable`).
- `LeadsKeepToThePlan`, an invariant (`LeadsFitTheScheduledPlan`) and an action property
  (`LeadsAreAddedWithinTheAllowance`): one request at a time has flushed and holds the operator (`OneFlushed`), and until it commits there is room for
  the lead it adds within the allowance it was counted with, whatever is paid for meanwhile
  (`WasCounted`); no plan is scheduled while it does, so that a scheduled limit is one it was
  counted with (`RoomLeft`). Only leads that nobody moved from a stale copy can be counted on.
- `ApplicationHandledOnce`: the slug of an approval is the first that was free, so that the second of
  two finds it taken (`ApprovalsAgree`), unless a workspace was renamed meanwhile.
- `SuspensionIsEndedByThoseWhoMay`, an action property, from the types of what requests have loaded.
- `LeaversStayUnpaid`: one salary of a member is open at most, and none of who was let go, while no two
  requests closed them at once (`OneSalary`, `LateWereCrossed`).
- `StorageKeepsToThePlan`, an action property: one request at a time has rows it has yet to commit, as
  it holds the operator's row from its first upload (`OneUploads`); with the documents they are within
  what the plan allowed when the last of their files was stored (`WithinPlan`), whatever the plan has
  become since. A document keeps its file because no photo, deleted or kept, ever has the key of a
  document's file (`FilesThere`, `KeysApart`).

Every invariant that a passing run checks is proved. Only model-checked are the properties that rest on
fairness: that something happens at last is out of the prover's reach.

## Plan

Every component with control of its own has a module. What a further development would take, in
this order:

1. Two runs of the monthly member billing that overlap, and handlers on one invoice that do.
2. The daily job as a whole: the order of its steps, and what one that fails leaves to the next.
3. A second series in one room, opening hours, the waiting list; day access on the marketplace.
4. Edits of tiers, of a subscription's dates by the platform, and several add-ons at once.

## Not modelled, and why

- Sign-in, sessions, two-factor: local to one request and one user's row.
- Reports, PDFs, presentation, the price page and the texts of mails read what other components
  wrote.
- Expenses' approvals, an agreement's terms, the catalogue of tiers and entitlements, rooms,
  locations and settings are edited by assignments that look at nothing before; they are constants
  here, and so is the size of the credit pool, which is computed from them.
- The quotas on locations and staff accounts go through the same `enforce_quotas` as those on
  leads and seats.
- The migrations' data moves run once, on a stopped system; of the schema, the constraints that
  matter are in the actions they make fail.
