-------------------------------- MODULE Inbox --------------------------------
(***************************************************************************)
(* The bell: what each person is told of in the application, by the        *)
(* handler of what happened, by the pages they load, and by the job that   *)
(* goes over everybody (services/notifications.py,                         *)
(* blueprints/notifications.py, and the announcements and tickets of       *)
(* blueprints/community/routes.py).                                        *)
(*                                                                         *)
(* What people are told of does not interact: there is one matter, of any  *)
(* kind.                                                                   *)
(***************************************************************************)
EXTENDS Naturals, FiniteSets

CONSTANTS
    Members,
    Team,           \* the operator's admins
    Soon,           \* how long before a meeting its owner is reminded (30 minutes),
    PostAge,        \*   for how long a post is news (30 days),
    StaleAfter,     \*   and when a parcel has waited for long (3 days)
    LastMoment,     \* bounds: the moments are 0..LastMoment,
    MaxChanges      \*   and the changes of a ticket

VARIABLES
    now,
    standing,   \* users.is_active, and whether the company is suspended or has left
    matter,     \* what there is to be told of
    inbox,      \* notifications, of each user
    sweep,      \* run_jobs: whom a running one has yet to see, what it will add, whom it owes what
    seen,       \* history: what each has read and not marked as unread since,
    missed      \*   and what a run of the job did not tell

vars == <<now, standing, matter, inbox, sweep, seen, missed>>

Users == Members \union Team
Moments == 0..LastMoment
NoMatter == [kind |-> "none"]
NoSweep == [busy |-> FALSE, todo |-> {}, new |-> {}, owed |-> {}]

Init ==
    /\ now = 0
    /\ standing = [u \in Users |-> "active"]
    /\ matter = NoMatter
    /\ inbox = [u \in Users |-> {}]
    /\ sweep = NoSweep
    /\ seen = [u \in Users |-> {}]
    /\ missed = {}
-----------------------------------------------------------------------------
(* Telling *)

Notification(key) == [key |-> key, read |-> FALSE]
Announcement(author, to) == [kind |-> "post", author |-> author, to |-> to, at |-> now]
SupportTicket(u, stamped) ==
    [kind |-> "ticket", by |-> u, status |-> "open", changes |-> 0, stamped |-> stamped]

\* A mutation of Added: what is told again is new again.
AddedAnew(box, keys) ==
    {n \in box : n.key \notin keys} \union {Notification(k) : k \in keys}

\* notify: the key is unique for a user, and a conflict does nothing.
Added(box, keys) ==
    box \union {Notification(k) : k \in keys \ {n.key : n \in box}}

\* A handler tells, in its own transaction, those that have an account.
Tell(to, key) ==
    inbox' = [u \in Users |->
        IF u \in to /\ standing[u] # "inactive" THEN Added(inbox[u], {key}) ELSE inbox[u]]

Is(kind) == matter.kind = kind
If(condition, key) == IF condition THEN {key} ELSE {}

TicketKey(t) == <<"ticket", t.status, t.changes>>
MeetingKey(m) == <<"meeting", m.start>>

IsSoon(m) == m.status = "confirmed" /\ now < m.start /\ m.start <= now + Soon
IsStale(p) == p.since + StaleAfter < now

\* sync_user
Due(u) ==
    If(Is("post") /\ u # matter.author /\ u \in matter.to /\ now <= matter.at + PostAge,
       <<"announcement">>)
    \union If(Is("ticket") /\ u = matter.by /\ matter.stamped, TicketKey(matter))
    \union If(Is("ticket") /\ u \in Team \ {matter.by} /\ matter.status = "open", <<"ticket-new">>)
    \union If(Is("meeting") /\ u = matter.owner /\ IsSoon(matter), MeetingKey(matter))
    \union If(Is("item") /\ matter.due /\ u \in matter.to, <<"item">>)
    \union If(Is("parcel") /\ matter.waiting /\ (u = matter.owner \/ (u \in Team /\ IsStale(matter))),
              <<"parcel">>)
-----------------------------------------------------------------------------
(* What happens *)

Others == <<now, standing, sweep, seen, missed>>

\* announcement_added: `to' are those that the post is visible to.
Post(author, to) ==
    /\ matter = NoMatter
    /\ matter' = Announcement(author, to)
    /\ Tell(to \ {author}, <<"announcement">>)
    /\ UNCHANGED Others

\* tickets: updated_at, taken after created_at, may be later.
OpenTicket(u) ==
    /\ matter = NoMatter
    /\ \E stamped \in BOOLEAN : matter' = SupportTicket(u, stamped)
    /\ Tell(Team \ {u}, <<"ticket-new">>)
    /\ UNCHANGED Others

\* ticket_resolve, as often as it is pressed
ResolveTicket ==
    /\ Is("ticket") /\ matter.changes < MaxChanges
    /\ matter' = [matter EXCEPT !.status = "resolved", !.changes = matter.changes + 1, !.stamped = TRUE]
    /\ Tell({matter.by}, TicketKey(matter'))
    /\ UNCHANGED Others

\* A meeting is booked, and moved or cancelled, see RoomBookings.
BookMeeting(u, start) ==
    /\ matter = NoMatter /\ start > now
    /\ matter' = [kind |-> "meeting", owner |-> u, start |-> start, status |-> "confirmed"]
    /\ UNCHANGED <<inbox, Others>>

ChangeMeeting ==
    /\ Is("meeting") /\ matter.status = "confirmed" /\ matter.start > now
    /\ \/ \E start \in Moments : start > now /\ matter' = [matter EXCEPT !.start = start]
       \/ matter' = [matter EXCEPT !.status = "cancelled"]
    /\ sweep' = [sweep EXCEPT !.owed = {}]
    /\ UNCHANGED <<now, standing, inbox, seen, missed>>

\* An agreement that ends, an invoice that is overdue, a payment to confirm, a lead to follow up;
\* `to' are those of them whom it concerns.
ItemChanges(to, due) ==
    /\ matter = NoMatter \/ Is("item")
    /\ matter' = [kind |-> "item", to |-> to, due |-> due]
    /\ UNCHANGED <<inbox, Others>>

ParcelArrives(u) ==
    /\ matter = NoMatter
    /\ matter' = [kind |-> "parcel", owner |-> u, since |-> now, waiting |-> TRUE]
    /\ UNCHANGED <<inbox, Others>>

ParcelLeaves ==
    /\ Is("parcel")
    /\ matter' = [matter EXCEPT !.waiting = FALSE]
    /\ UNCHANGED <<inbox, Others>>

SetStanding(u, to) ==
    /\ standing' = [standing EXCEPT ![u] = to]
    /\ sweep' = [sweep EXCEPT !.owed = {o \in sweep.owed : o[1] # u}]
    /\ UNCHANGED <<now, matter, inbox, seen, missed>>

Tick ==
    /\ now < LastMoment
    /\ now' = now + 1
    /\ UNCHANGED <<standing, matter, inbox, sweep, seen, missed>>
-----------------------------------------------------------------------------
(* Pages *)

\* collect_due_notifications, when the last was more than a minute ago
PageLoad(u) ==
    /\ standing[u] = "active"
    /\ inbox' = [inbox EXCEPT ![u] = Added(inbox[u], Due(u))]
    /\ UNCHANGED <<matter, Others>>

\* update: read or open, and unread; read_all
Mark(u, ns, read) ==
    /\ standing[u] = "active" /\ ns # {} /\ ns \subseteq inbox[u]
    /\ inbox' = [inbox EXCEPT ![u] = (inbox[u] \ ns) \union {[n EXCEPT !.read = read] : n \in ns}]
    /\ seen' = [seen EXCEPT ![u] = IF read THEN seen[u] \union {n.key : n \in ns}
                                   ELSE seen[u] \ {n.key : n \in ns}]
    /\ UNCHANGED <<now, standing, matter, sweep, missed>>
MarkRead(u, n) == Mark(u, {n}, TRUE)
MarkUnread(u, n) == Mark(u, {n}, FALSE)
ReadAll(u) == Mark(u, {n \in inbox[u] : ~n.read}, TRUE)
-----------------------------------------------------------------------------
(* The job *)

\* What somebody is to be told of now, if they can be.
Concerns ==
    LET told == If(Is("parcel") /\ matter.waiting, <<matter.owner, <<"parcel">>>>)
                \union If(Is("ticket") /\ matter.status = "resolved", <<matter.by, TicketKey(matter)>>)
                \union If(Is("meeting") /\ IsSoon(matter), <<matter.owner, MeetingKey(matter)>>)
    IN {t \in told : standing[t[1]] = "active"}

\* run_jobs reads the users,
SweepBegins ==
    /\ ~sweep.busy
    /\ sweep' = [busy |-> TRUE, todo |-> {u \in Users : standing[u] # "inactive"}, new |-> {},
                 owed |-> Concerns]
    /\ UNCHANGED <<now, standing, matter, inbox, seen, missed>>

\* sees one after the other,
SweepUser(u) ==
    /\ sweep.busy /\ u \in sweep.todo
    /\ sweep' = [sweep EXCEPT !.todo = sweep.todo \ {u},
                              !.new = sweep.new \union
                                  (IF standing[u] = "suspended" THEN {} ELSE {u} \X Due(u))]
    /\ UNCHANGED <<now, standing, matter, inbox, seen, missed>>

\* and commits once.
SweepEnds ==
    /\ sweep.busy /\ sweep.todo = {}
    /\ inbox' = [u \in Users |-> Added(inbox[u], {x[2] : x \in {y \in sweep.new : y[1] = u}})]
    /\ missed' = missed \union {o \in sweep.owed \intersect Concerns :
                                    o[2] \notin {n.key : n \in inbox'[o[1]]}}
    /\ sweep' = NoSweep
    /\ UNCHANGED <<now, standing, matter, seen>>

SweepDies ==
    /\ sweep.busy
    /\ sweep' = NoSweep
    /\ UNCHANGED <<now, standing, matter, inbox, seen, missed>>

Next ==
    \/ ResolveTicket \/ ChangeMeeting \/ ParcelLeaves \/ Tick \/ SweepBegins \/ SweepEnds \/ SweepDies
    \/ \E u \in Users :
        \/ OpenTicket(u) \/ ParcelArrives(u) \/ PageLoad(u) \/ ReadAll(u) \/ SweepUser(u)
        \/ \E start \in Moments : BookMeeting(u, start)
        \/ \E to \in {"active", "suspended", "inactive"} : SetStanding(u, to)
        \/ \E n \in inbox[u] : MarkRead(u, n) \/ MarkUnread(u, n)
    \/ \E to \in SUBSET Users :
        \/ \E author \in Team : Post(author, to)
        \/ \E due \in BOOLEAN : ItemChanges(to, due)
-----------------------------------------------------------------------------
TypeOK ==
    /\ now \in Moments
    /\ standing \in [Users -> {"active", "suspended", "inactive"}]
    /\ matter.kind \in {"none", "post", "ticket", "meeting", "item", "parcel"}
    /\ \A u \in Users : \A n \in inbox[u] : n.read \in BOOLEAN
    /\ sweep.todo \subseteq Users
    /\ \A u \in Users : \A n, m \in inbox[u] : n.key = m.key => n = m

\* What somebody has read is not new again, though the handler, the pages and the job each tell of
\* the same thing again and again (notify); and whatever happens while the job runs, it tells a
\* person of their parcel, their resolved ticket and their meeting that is about to begin
\* (sync_user, run_jobs).
ToldOnceAndInTime ==
    /\ \A u \in Users : \A n \in inbox[u] : n.key \in seen[u] => n.read
    /\ missed = {}
=============================================================================
