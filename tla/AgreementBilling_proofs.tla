------------------------ MODULE AgreementBilling_proofs ------------------------
(***************************************************************************)
(* No day of an agreement is charged twice, neither the plan nor a fine:   *)
(* invariants about the days that the lines of the invoices charge for.    *)
(* What an invoice says is paid, and what is held as a deposit, is what    *)
(* the tables of payments, credit notes, refunds and deposit entries say:  *)
(* invariants about sums over their rows.                                  *)
(***************************************************************************)
EXTENDS AgreementBilling, FiniteSetTheorems, SequenceTheorems, WellFoundedInduction, TLAPS

Fields == {"start", "end", "due", "lines", "paid", "status", "through", "everVoid"}

IsSeq(s) == s \in Seq(ToSet(s))

LineOK(line) == {line.of, line.from, line.upto} \subseteq Nat

SheetOK(inv) ==
    /\ DOMAIN inv = Fields
    /\ inv.start \in Nat /\ inv.due \in Nat /\ inv.through \in Nat \union {NoDate}
    /\ inv.status = "void" => inv.everVoid
    /\ IsSeq(inv.lines) /\ \A k \in DOMAIN inv.lines : LineOK(inv.lines[k])

\* What the other invariants need of the types, and that a void invoice is remembered as one.
SheetsOK ==
    /\ today \in Nat
    /\ {terms.start, terms.notice, terms.lockIn, terms.dueDay, terms.grace} \subseteq Nat
    /\ DOMAIN sub = {"status", "ends", "backdated"} /\ sub.ends \in Nat \union {NoDate}
    /\ IsSeq(invoices) /\ \A i \in DOMAIN invoices : SheetOK(invoices[i])

Fee(i, k) == invoices[i].lines[k].type = "late_fee"

\* A fine is for days after the grace, up to those the fined invoice says are fined.
FineAt(i, k) ==
    LET line == invoices[i].lines[k] IN
    Fee(i, k) => /\ line.of \in DOMAIN invoices
                 /\ line.upto <= invoices[line.of].through
                 /\ invoices[line.of].due + terms.grace <= line.from

FinesApartAt(i, k, j, m) ==
    /\ Fee(i, k) /\ Fee(j, m) /\ invoices[i].lines[k].of = invoices[j].lines[m].of
    /\ i # j \/ k # m
    => ~Overlap(invoices[i].lines[k], invoices[j].lines[m])

FineInv ==
    /\ \A i \in DOMAIN invoices : \A k \in DOMAIN invoices[i].lines : FineAt(i, k)
    /\ \A i, j \in DOMAIN invoices :
          \A k \in DOMAIN invoices[i].lines, m \in DOMAIN invoices[j].lines :
              FinesApartAt(i, k, j, m)

Plan(i, k) == invoices[i].lines[k].type = "plan"
Exit(i, k) == invoices[i].lines[k].type = "early_exit"
Standing(i) == ~invoices[i].everVoid

Billed == terms.notice >= 1 /\ terms.prorate /\ "bill_month" \notin desk

\* The plan is charged for days of the month of the invoice, which has begun, by one line.
PlanAt(i, k) ==
    LET line == invoices[i].lines[k] IN
    Plan(i, k) =>
        /\ \E q \in Nat : invoices[i].start = q * DaysInMonth
        /\ invoices[i].end = invoices[i].start + DaysInMonth - 1
        /\ invoices[i].start <= today
        /\ invoices[i].start <= line.from /\ line.upto <= invoices[i].start + DaysInMonth
        /\ \A m \in DOMAIN invoices[i].lines : Plan(i, m) => m = k

\* A month has one invoice that was never void.
MonthsDifferAt(i, k, j, m) ==
    Plan(i, k) /\ Plan(j, m) /\ Standing(i) /\ Standing(j) /\ i # j
    => invoices[i].start # invoices[j].start

\* There is one fee for leaving, from the day on which the notice that is given runs out.
ExitAt(i, k) ==
    Exit(i, k) /\ Standing(i) => sub.ends # NoDate /\ invoices[i].lines[k].from = sub.ends

OneExitAt(i, k, j, m) ==
    Exit(i, k) /\ Exit(j, m) /\ Standing(i) /\ Standing(j) => i = j /\ k = m

\* Beside a fee for leaving, the plan is charged for no days after the notice has run out, unless
\* they were billed before a notice was recorded that is dated back.
FeeApartAt(i, k, j, m) ==
    Plan(i, k) /\ Exit(j, m) /\ Standing(i) /\ Standing(j)
    => invoices[i].lines[k].upto <= sub.ends \/ (sub.backdated /\ i < j)

PlanInv ==
    Billed =>
        /\ \A i \in DOMAIN invoices : \A k \in DOMAIN invoices[i].lines :
              PlanAt(i, k) /\ ExitAt(i, k)
        /\ \A i, j \in DOMAIN invoices :
              \A k \in DOMAIN invoices[i].lines, m \in DOMAIN invoices[j].lines :
                  MonthsDifferAt(i, k, j, m) /\ OneExitAt(i, k, j, m) /\ FeeApartAt(i, k, j, m)

BillingInv == SheetsOK /\ FineInv /\ PlanInv
-----------------------------------------------------------------------------
(* Sequences, and the larger and the smaller of two days *)

LEMMA MaxOfTwo ==
    \A a, b \in Int : Max({a, b}) = IF a >= b THEN a ELSE b
  <1>1. ASSUME NEW a \in Int, NEW b \in Int
        PROVE  Max({a, b}) = IF a >= b THEN a ELSE b
    <2>1. \E x \in {a, b} : \A y \in {a, b} : x >= y
      BY <1>1
    <2>2. Max({a, b}) \in {a, b} /\ \A y \in {a, b} : Max({a, b}) >= y
      BY <2>1 DEF Max
    <2> QED
      BY <2>2
  <1> QED
    BY <1>1

LEMMA MinOfTwo ==
    \A a, b \in Int : Min({a, b}) = IF a <= b THEN a ELSE b
  <1>1. ASSUME NEW a \in Int, NEW b \in Int
        PROVE  Min({a, b}) = IF a <= b THEN a ELSE b
    <2>1. \E x \in {a, b} : \A y \in {a, b} : x =< y
      BY <1>1
    <2>2. Min({a, b}) \in {a, b} /\ \A y \in {a, b} : Min({a, b}) =< y
      BY <2>1 DEF Min
    <2> QED
      BY <2>2
  <1> QED
    BY <1>1

LEMMA SeqDomain ==
    ASSUME NEW s, IsSeq(s)
    PROVE  /\ Len(s) \in Nat /\ DOMAIN s = 1..Len(s)
           /\ s = [i \in 1..Len(s) |-> s[i]]
  BY DEF IsSeq

LEMMA FunctionIsSeq ==
    ASSUME NEW n \in Nat, NEW s, s = [i \in 1..n |-> s[i]]
    PROVE  IsSeq(s) /\ Len(s) = n
  <1>1. s \in [1..n -> ToSet(s)]
    BY DEF ToSet
  <1>2. s \in Seq(ToSet(s))
    BY <1>1
  <1> QED
    BY <1>1, <1>2 DEF IsSeq

LEMMA EmptyIsSeq == IsSeq(<<>>) /\ DOMAIN <<>> = {}
  BY DEF IsSeq

LEMMA OneIsSeq ==
    ASSUME NEW x
    PROVE  IsSeq(<<x>>) /\ DOMAIN <<x>> = {1} /\ <<x>>[1] = x
  BY DEF IsSeq, ToSet

LEMMA InSeqIsSeq ==
    ASSUME NEW S, NEW s \in Seq(S)
    PROVE  IsSeq(s)
  <1>1. Len(s) \in Nat /\ s = [i \in 1..Len(s) |-> s[i]]
    BY LenProperties
  <1> QED
    BY <1>1, FunctionIsSeq

LEMMA AppendIsSeq ==
    ASSUME NEW s, IsSeq(s), NEW x
    PROVE  /\ IsSeq(Append(s, x))
           /\ DOMAIN Append(s, x) = DOMAIN s \union {Len(s) + 1}
           /\ \A i \in DOMAIN s : Append(s, x)[i] = s[i]
           /\ Append(s, x)[Len(s) + 1] = x
           /\ Len(s) + 1 \notin DOMAIN s
  <1> DEFINE S == ToSet(s) \union {x}
  <1>1. s \in Seq(S) /\ x \in S
    BY DEF IsSeq
  <1> HIDE DEF S
  <1>2. /\ Append(s, x) \in Seq(S) /\ Len(Append(s, x)) = Len(s) + 1
        /\ \A i \in 1..Len(s) : Append(s, x)[i] = s[i]
        /\ Append(s, x)[Len(s) + 1] = x
    BY <1>1, AppendProperties
  <1>3. Len(s) \in Nat /\ DOMAIN s = 1..Len(s)
    BY SeqDomain
  <1>4. IsSeq(Append(s, x))
    BY <1>2, InSeqIsSeq
  <1>5. DOMAIN Append(s, x) = 1..(Len(s) + 1)
    BY <1>2, <1>4, SeqDomain
  <1> QED
    BY <1>2, <1>3, <1>4, <1>5

LEMMA ConcatIsSeq ==
    ASSUME NEW s, IsSeq(s), NEW t, IsSeq(t)
    PROVE  /\ IsSeq(s \o t) /\ Len(s \o t) = Len(s) + Len(t)
           /\ \A i \in 1..(Len(s) + Len(t)) :
                (s \o t)[i] = IF i <= Len(s) THEN s[i] ELSE t[i - Len(s)]
  <1> DEFINE S == ToSet(s) \union ToSet(t)
  <1>1. s \in Seq(S) /\ t \in Seq(S)
    BY DEF IsSeq
  <1> HIDE DEF S
  <1>2. /\ s \o t \in Seq(S) /\ Len(s \o t) = Len(s) + Len(t)
        /\ \A i \in 1..(Len(s) + Len(t)) :
              (s \o t)[i] = IF i <= Len(s) THEN s[i] ELSE t[i - Len(s)]
    BY <1>1, ConcatProperties
  <1> QED
    BY <1>2, InSeqIsSeq

LEMMA RemoveIsSeq ==
    ASSUME NEW s, IsSeq(s), NEW k \in DOMAIN s
    PROVE  /\ IsSeq(RemoveAt(s, k)) /\ DOMAIN RemoveAt(s, k) = 1..(Len(s) - 1)
           /\ \A i \in 1..(Len(s) - 1) :
                RemoveAt(s, k)[i] = s[IF i < k THEN i ELSE i + 1]
  <1> DEFINE a == SubSeq(s, 1, k - 1)
             b == SubSeq(s, k + 1, Len(s))
  <1>1. Len(s) \in Nat /\ k \in 1..Len(s) /\ DOMAIN s = 1..Len(s)
    BY SeqDomain
  <1>2. \A i \in 1..Len(s) : s[i] \in ToSet(s)
    BY <1>1 DEF ToSet
  <1>3. /\ a \in Seq(ToSet(s)) /\ Len(a) = k - 1
        /\ \A i \in 1..(k - 1) : a[i] = s[i]
    BY <1>1, <1>2, SubSeqProperties
  <1>4. /\ b \in Seq(ToSet(s)) /\ Len(b) = Len(s) - k
        /\ \A i \in 1..(Len(s) - k) : b[i] = s[i + k]
    <2>1. \A i \in (k + 1)..Len(s) : s[i] \in ToSet(s)
      BY <1>1, <1>2
    <2>2. /\ b \in Seq(ToSet(s)) /\ Len(b) = IF k + 1 <= Len(s) THEN Len(s) - (k + 1) + 1 ELSE 0
          /\ \A i \in 1..(Len(s) - (k + 1) + 1) : b[i] = s[k + 1 + i - 1]
      BY <1>1, <2>1, SubSeqProperties
    <2> HIDE DEF b
    <2>3. \A i \in 1..(Len(s) - k) : i \in 1..(Len(s) - (k + 1) + 1) /\ k + 1 + i - 1 = i + k
      BY <1>1
    <2> QED
      BY <1>1, <2>2, <2>3
  <1>5. IsSeq(a) /\ IsSeq(b)
    BY <1>3, <1>4, InSeqIsSeq
  <1>6. RemoveAt(s, k) = a \o b
    BY DEF RemoveAt
  <1> HIDE DEF a, b
  <1>7. /\ IsSeq(a \o b) /\ Len(a \o b) = Len(a) + Len(b)
        /\ \A i \in 1..(Len(a) + Len(b)) :
                (a \o b)[i] = IF i <= Len(a) THEN a[i] ELSE b[i - Len(a)]
    BY <1>5, ConcatIsSeq
  <1>8. ASSUME NEW i \in 1..(Len(s) - 1)
        PROVE  (a \o b)[i] = s[IF i < k THEN i ELSE i + 1]
    <2>1. CASE i < k
      BY <1>1, <1>3, <1>4, <1>7, <2>1
    <2>2. CASE ~(i < k)
      <3>1. i \in 1..(Len(a) + Len(b)) /\ ~(i <= Len(a)) /\ i - Len(a) = i - k + 1
        BY <1>1, <1>3, <1>4, <2>2
      <3>2. (a \o b)[i] = b[i - k + 1]
        BY <1>7, <3>1
      <3>3. i - k + 1 \in 1..(Len(s) - k) /\ i - k + 1 + k = i + 1
        BY <1>1, <2>2
      <3> QED
        BY <1>4, <2>2, <3>2, <3>3
    <2> QED
      BY <2>1, <2>2
  <1>9. DOMAIN (a \o b) = 1..(Len(s) - 1)
    <2>1. DOMAIN (a \o b) = 1..Len(a \o b)
      BY <1>7, SeqDomain
    <2>2. Len(a \o b) = Len(s) - 1
      BY <1>1, <1>3, <1>4, <1>7
    <2> QED
      BY <2>1, <2>2
  <1> QED
    BY <1>6, <1>7, <1>8, <1>9
-----------------------------------------------------------------------------
(* What most handlers do to the invoices: the days that are charged for stay, or some go. *)

\* The lines of `new' are some of those of `old', each once, and lines for no days.
LinesKept(old, new) ==
    \E g \in [DOMAIN new -> Nat] :
        /\ \A k \in DOMAIN new :
              new[k].type # "other" => g[k] \in DOMAIN old /\ old[g[k]] = new[k]
        /\ \A k, m \in DOMAIN new : k # m => g[k] # g[m]

Follows(old, new) ==
    /\ SheetOK(new)
    /\ new.start = old.start /\ new.end = old.end /\ new.due = old.due
    /\ old.through <= new.through
    /\ old.everVoid => new.everVoid
    /\ LinesKept(old.lines, new.lines)

AllFollow ==
    /\ IsSeq(invoices')
    /\ DOMAIN invoices \subseteq DOMAIN invoices'
    /\ \A i \in DOMAIN invoices : Follows(invoices[i], invoices'[i])

LEMMA SameLines ==
    ASSUME NEW s, IsSeq(s)
    PROVE  LinesKept(s, s)
  <1> DEFINE g == [k \in DOMAIN s |-> k]
  <1>1. DOMAIN s = 1..Len(s) /\ Len(s) \in Nat
    BY SeqDomain
  <1>2. g \in [DOMAIN s -> Nat]
    BY <1>1
  <1> QED
    BY <1>2 DEF LinesKept

LEMMA LineAdded ==
    ASSUME NEW s, IsSeq(s), NEW line, line.type = "other"
    PROVE  LinesKept(s, Append(s, line))
  <1> DEFINE t == Append(s, line)
             g == [k \in DOMAIN t |-> k]
  <1>1. /\ DOMAIN t = DOMAIN s \union {Len(s) + 1}
        /\ \A i \in DOMAIN s : t[i] = s[i]
        /\ t[Len(s) + 1] = line
    BY AppendIsSeq
  <1>2. DOMAIN s = 1..Len(s) /\ Len(s) \in Nat
    BY SeqDomain
  <1> HIDE DEF t
  <1>3. g \in [DOMAIN t -> Nat]
    BY <1>1, <1>2
  <1>4. ASSUME NEW k \in DOMAIN t, t[k].type # "other"
        PROVE  g[k] \in DOMAIN s /\ s[g[k]] = t[k]
    BY <1>1, <1>4
  <1>5. \A k, m \in DOMAIN t : k # m => g[k] # g[m]
    OBVIOUS
  <1> HIDE DEF g
  <1>6. LinesKept(s, t)
    BY <1>3, <1>4, <1>5 DEF LinesKept
  <1> QED
    BY <1>6 DEF t

LEMMA LineRemoved ==
    ASSUME NEW s, IsSeq(s), NEW n \in DOMAIN s
    PROVE  LinesKept(s, RemoveAt(s, n))
  <1> DEFINE t == RemoveAt(s, n)
             g == [k \in DOMAIN t |-> IF k < n THEN k ELSE k + 1]
  <1>1. /\ DOMAIN t = 1..(Len(s) - 1)
        /\ \A i \in 1..(Len(s) - 1) : t[i] = s[IF i < n THEN i ELSE i + 1]
    BY RemoveIsSeq
  <1>2. DOMAIN s = 1..Len(s) /\ Len(s) \in Nat /\ n \in 1..Len(s)
    BY SeqDomain
  <1> HIDE DEF t
  <1>3. g \in [DOMAIN t -> Nat]
    BY <1>1, <1>2
  <1>4. \A k \in DOMAIN t : g[k] \in DOMAIN s /\ s[g[k]] = t[k]
    BY <1>1, <1>2
  <1>5. \A k, m \in DOMAIN t : k # m => g[k] # g[m]
    BY <1>1, <1>2
  <1> HIDE DEF g
  <1>6. LinesKept(s, t)
    BY <1>3, <1>4, <1>5 DEF LinesKept
  <1> QED
    BY <1>6 DEF t

LEMMA SheetFollowsItself ==
    ASSUME NEW inv, SheetOK(inv)
    PROVE  Follows(inv, inv)
  BY SameLines DEF Follows, SheetOK, NoDate

\* Another status, and another sum that is paid.
LEMMA StatusFollows ==
    ASSUME NEW inv, SheetOK(inv), NEW paidNow, NEW status, status # "void" \/ status = inv.status
    PROVE  Follows(inv, [[inv EXCEPT !.paid = paidNow] EXCEPT !.status = status])
  <1> DEFINE new == [[inv EXCEPT !.paid = paidNow] EXCEPT !.status = status]
  <1>1. /\ DOMAIN new = Fields /\ new.start = inv.start /\ new.end = inv.end /\ new.due = inv.due
        /\ new.through = inv.through /\ new.lines = inv.lines /\ new.status = status
    BY DEF SheetOK, Fields
  <1>2. new.everVoid = inv.everVoid
    BY DEF SheetOK, Fields
  <1> HIDE DEF new
  <1>3. (inv.everVoid => new.everVoid) /\ (new.status = "void" => new.everVoid)
    BY <1>1, <1>2 DEF SheetOK
  <1>4. SheetOK(new)
    BY <1>1, <1>3 DEF SheetOK
  <1>5. Follows(inv, new)
    BY <1>1, <1>3, <1>4, SameLines DEF Follows, SheetOK, NoDate
  <1> QED
    BY <1>5 DEF new

LEMMA IssuedFollows ==
    ASSUME NEW inv, SheetOK(inv)
    PROVE  /\ Follows(inv, [inv EXCEPT !.status = "issued"])
           /\ Follows(inv, [inv EXCEPT !.status = inv.status])
  <1>1. ASSUME NEW status, status \in {"issued", inv.status}
        PROVE  Follows(inv, [inv EXCEPT !.status = status])
    <2> DEFINE new == [inv EXCEPT !.status = status]
    <2>1. /\ DOMAIN new = Fields /\ new.start = inv.start /\ new.end = inv.end
          /\ new.due = inv.due /\ new.through = inv.through /\ new.lines = inv.lines
          /\ new.status = status
      BY DEF SheetOK, Fields
    <2>2. new.everVoid = inv.everVoid
      BY DEF SheetOK, Fields
    <2> HIDE DEF new
    <2>3. (inv.everVoid => new.everVoid) /\ (new.status = "void" => new.everVoid)
      BY <1>1, <2>1, <2>2 DEF SheetOK
    <2>4. SheetOK(new)
      BY <2>1, <2>3 DEF SheetOK
    <2>5. Follows(inv, new)
      BY <2>1, <2>3, <2>4, SameLines DEF Follows, SheetOK, NoDate
    <2> QED
      BY <2>5 DEF new
  <1> QED
    BY <1>1

LEMMA PaidFollows ==
    ASSUME NEW inv, SheetOK(inv), NEW paidNow
    PROVE  Follows(inv, Refreshed([inv EXCEPT !.paid = paidNow]))
  <1> DEFINE more == [inv EXCEPT !.paid = paidNow]
             status == IF Balance(more) <= 0 THEN "paid"
                       ELSE IF more.paid > 0 THEN "partial"
                       ELSE IF more.due < today THEN "overdue"
                       ELSE more.status
  <1>1. more.status = inv.status
    BY DEF SheetOK, Fields
  <1>2. Refreshed(more) = [more EXCEPT !.status = status]
    BY DEF Refreshed
  <1>3. status # "void" \/ status = inv.status
    BY <1>1
  <1> HIDE DEF status
  <1>4. Follows(inv, [more EXCEPT !.status = status])
    BY <1>3, StatusFollows
  <1> QED
    BY <1>2, <1>4

LEMMA VoidedFollows ==
    ASSUME NEW inv, SheetOK(inv)
    PROVE  Follows(inv, Voided(inv)) /\ Voided(inv).everVoid
  <1> DEFINE new == Voided(inv)
  <1>1. /\ DOMAIN new = Fields /\ new.start = inv.start /\ new.end = inv.end /\ new.due = inv.due
        /\ new.through = inv.through /\ new.lines = inv.lines
    BY DEF SheetOK, Fields, Voided
  <1>2. new.everVoid = TRUE
    BY DEF SheetOK, Fields, Voided
  <1> HIDE DEF new
  <1>3. new.everVoid
    BY <1>2
  <1>4. SheetOK(new)
    BY <1>1, <1>3 DEF SheetOK
  <1>5. Follows(inv, new)
    BY <1>1, <1>3, <1>4, SameLines DEF Follows, SheetOK, NoDate
  <1> QED
    BY <1>3, <1>5 DEF new

LEMMA NewLinesFollow ==
    ASSUME NEW inv, SheetOK(inv), NEW lines, IsSeq(lines), \A k \in DOMAIN lines : LineOK(lines[k]),
           LinesKept(inv.lines, lines)
    PROVE  Follows(inv, [inv EXCEPT !.lines = lines])
  <1> DEFINE new == [inv EXCEPT !.lines = lines]
  <1>1. /\ DOMAIN new = Fields /\ new.start = inv.start /\ new.end = inv.end /\ new.due = inv.due
        /\ new.through = inv.through /\ new.lines = lines /\ new.status = inv.status
    BY DEF SheetOK, Fields
  <1>2. new.everVoid = inv.everVoid
    BY DEF SheetOK, Fields
  <1> HIDE DEF new
  <1>3. (inv.everVoid => new.everVoid) /\ (new.status = "void" => new.everVoid)
    BY <1>1, <1>2 DEF SheetOK
  <1>4. SheetOK(new)
    BY <1>1, <1>3 DEF SheetOK
  <1>5. Follows(inv, new)
    BY <1>1, <1>3, <1>4 DEF Follows, SheetOK, NoDate
  <1> QED
    BY <1>5 DEF new

LEMMA OneFollows ==
    ASSUME IsSeq(invoices), \A i \in DOMAIN invoices : SheetOK(invoices[i]),
           NEW i \in DOMAIN invoices, NEW inv, Follows(invoices[i], inv),
           invoices' = [invoices EXCEPT ![i] = inv]
    PROVE  AllFollow /\ DOMAIN invoices' = DOMAIN invoices
  <1>1. Len(invoices) \in Nat /\ DOMAIN invoices = 1..Len(invoices)
    BY SeqDomain
  <1>2. /\ DOMAIN invoices' = DOMAIN invoices
        /\ \A j \in DOMAIN invoices : invoices'[j] = IF j = i THEN inv ELSE invoices[j]
    OBVIOUS
  <1>3. invoices' = [j \in 1..Len(invoices) |-> invoices'[j]]
    BY <1>1
  <1>4. IsSeq(invoices')
    BY <1>1, <1>3, FunctionIsSeq
  <1>5. ASSUME NEW j \in DOMAIN invoices PROVE Follows(invoices[j], invoices'[j])
    BY <1>2, SheetFollowsItself
  <1> QED
    BY <1>2, <1>4, <1>5 DEF AllFollow

LEMMA NoneChanges ==
    ASSUME IsSeq(invoices), \A i \in DOMAIN invoices : SheetOK(invoices[i]), UNCHANGED invoices
    PROVE  AllFollow /\ DOMAIN invoices' = DOMAIN invoices
  BY SheetFollowsItself DEF AllFollow
-----------------------------------------------------------------------------
(* What stays true of the lines that were there *)

\* The line that a line of an invoice was before.
Was(i) ==
    CHOOSE g \in [DOMAIN invoices'[i].lines -> Nat] :
        /\ \A k \in DOMAIN invoices'[i].lines :
              invoices'[i].lines[k].type # "other" =>
                  g[k] \in DOMAIN invoices[i].lines
                  /\ invoices[i].lines[g[k]] = invoices'[i].lines[k]
        /\ \A k, m \in DOMAIN invoices'[i].lines : k # m => g[k] # g[m]

LEMMA LinesWere ==
    ASSUME AllFollow, NEW i \in DOMAIN invoices
    PROVE  /\ \A k \in DOMAIN invoices'[i].lines :
                invoices'[i].lines[k].type # "other" =>
                    Was(i)[k] \in DOMAIN invoices[i].lines
                    /\ invoices[i].lines[Was(i)[k]] = invoices'[i].lines[k]
           /\ \A k, m \in DOMAIN invoices'[i].lines : k # m => Was(i)[k] # Was(i)[m]
  <1>1. LinesKept(invoices[i].lines, invoices'[i].lines)
    BY DEF AllFollow, Follows
  <1>2. \E g \in [DOMAIN invoices'[i].lines -> Nat] :
        /\ \A k \in DOMAIN invoices'[i].lines :
              invoices'[i].lines[k].type # "other" =>
                  g[k] \in DOMAIN invoices[i].lines
                  /\ invoices[i].lines[g[k]] = invoices'[i].lines[k]
        /\ \A k, m \in DOMAIN invoices'[i].lines : k # m => g[k] # g[m]
    BY <1>1 DEF LinesKept
  <1> QED
    BY <1>2 DEF Was

LEMMA SheetsFollow ==
    ASSUME SheetsOK, AllFollow, UNCHANGED terms, today' \in Nat,
           DOMAIN sub' = {"status", "ends", "backdated"}, sub'.ends \in Nat \union {NoDate},
           \A i \in DOMAIN invoices' \ DOMAIN invoices : SheetOK(invoices'[i])
    PROVE  SheetsOK'
  <1>1. \A i \in DOMAIN invoices' : SheetOK(invoices'[i])
    BY DEF AllFollow, Follows
  <1> QED
    BY <1>1 DEF SheetsOK, AllFollow, IsSeq, SheetOK, LineOK, Fields, NoDate

LEMMA FinesFollow ==
    ASSUME SheetsOK, FineInv, AllFollow, UNCHANGED terms
    PROVE  /\ \A i \in DOMAIN invoices : \A k \in DOMAIN invoices'[i].lines : FineAt(i, k)'
           /\ \A i, j \in DOMAIN invoices :
                 \A k \in DOMAIN invoices'[i].lines, m \in DOMAIN invoices'[j].lines :
                     FinesApartAt(i, k, j, m)'
  <1>1. ASSUME NEW i \in DOMAIN invoices, NEW k \in DOMAIN invoices'[i].lines, Fee(i, k)'
        PROVE  /\ Was(i)[k] \in DOMAIN invoices[i].lines
               /\ invoices[i].lines[Was(i)[k]] = invoices'[i].lines[k]
               /\ Fee(i, Was(i)[k])
    BY <1>1, LinesWere DEF Fee
  <1>2. ASSUME NEW i \in DOMAIN invoices, NEW k \in DOMAIN invoices'[i].lines, Fee(i, k)'
        PROVE  FineAt(i, k)'
    <2> DEFINE line == invoices'[i].lines[k]
    <2>1. /\ line.of \in DOMAIN invoices
          /\ line.upto <= invoices[line.of].through
          /\ invoices[line.of].due + terms.grace <= line.from
      BY <1>1, <1>2 DEF FineInv, FineAt
    <2>2. /\ invoices'[line.of].due = invoices[line.of].due
          /\ invoices[line.of].through <= invoices'[line.of].through
          /\ line.of \in DOMAIN invoices'
          /\ SheetOK(invoices'[line.of]) /\ SheetOK(invoices[line.of])
      BY <2>1 DEF AllFollow, Follows, SheetsOK
    <2>3. line.upto \in Nat
      BY DEF AllFollow, Follows, SheetOK, LineOK
    <2>4. line.upto <= invoices'[line.of].through
      BY <2>1, <2>2, <2>3 DEF SheetOK, NoDate
    <2> QED
      BY <2>1, <2>2, <2>4 DEF FineAt
  <1>3. ASSUME NEW i \in DOMAIN invoices, NEW j \in DOMAIN invoices,
               NEW k \in DOMAIN invoices'[i].lines, NEW m \in DOMAIN invoices'[j].lines,
               Fee(i, k)', Fee(j, m)', invoices'[i].lines[k].of = invoices'[j].lines[m].of,
               i # j \/ k # m
        PROVE  ~Overlap(invoices'[i].lines[k], invoices'[j].lines[m])
    <2>1. i # j \/ Was(i)[k] # Was(j)[m]
      BY <1>3, LinesWere
    <2>2. FinesApartAt(i, Was(i)[k], j, Was(j)[m])
      BY <1>1, <1>3 DEF FineInv
    <2> QED
      BY <1>1, <1>3, <2>1, <2>2 DEF FinesApartAt
  <1>4. \A i \in DOMAIN invoices : \A k \in DOMAIN invoices'[i].lines : FineAt(i, k)'
    BY <1>2 DEF FineAt
  <1>5. \A i, j \in DOMAIN invoices :
            \A k \in DOMAIN invoices'[i].lines, m \in DOMAIN invoices'[j].lines :
                FinesApartAt(i, k, j, m)'
    BY <1>3 DEF FinesApartAt, Overlap
  <1> QED
    BY <1>4, <1>5

\* The notice that runs: the same, one that is withdrawn with its fee, or one that is given.
EndsMove ==
    \/ sub'.ends = sub.ends /\ sub'.backdated = sub.backdated
    \/ /\ sub'.ends = NoDate
       /\ \A i \in DOMAIN invoices : \A k \in DOMAIN invoices'[i].lines : ~(Exit(i, k)' /\ Standing(i)')
    \/ sub.ends = NoDate

LEMMA NoticeIsAMonth ==
    ASSUME NEW n \in Nat, n >= 1
    PROVE  n * DaysInMonth \in Nat /\ n * DaysInMonth >= DaysInMonth
  <1>1. DaysInMonth \in Nat
    BY Calendar
  <1>2. PICK m \in Nat : n = m + 1
    <2>1. n - 1 \in Nat /\ n = (n - 1) + 1
      OBVIOUS
    <2> QED
      BY <2>1
  <1>3. (m + 1) * DaysInMonth = m * DaysInMonth + DaysInMonth /\ m * DaysInMonth \in Nat
    BY <1>1
  <1> QED
    BY <1>1, <1>2, <1>3

LEMMA PlansFollow ==
    ASSUME SheetsOK, PlanInv, AllFollow, UNCHANGED <<terms, desk>>, today' \in Nat, today <= today',
           EndsMove, Billed
    PROVE  /\ \A i \in DOMAIN invoices : \A k \in DOMAIN invoices'[i].lines :
                 PlanAt(i, k)' /\ ExitAt(i, k)'
           /\ \A i, j \in DOMAIN invoices :
                 \A k \in DOMAIN invoices'[i].lines, m \in DOMAIN invoices'[j].lines :
                     /\ MonthsDifferAt(i, k, j, m)' /\ OneExitAt(i, k, j, m)'
                     /\ FeeApartAt(i, k, j, m)'
  <1>1. ASSUME NEW i \in DOMAIN invoices, NEW k \in DOMAIN invoices'[i].lines,
               Plan(i, k)' \/ Exit(i, k)'
        PROVE  /\ Was(i)[k] \in DOMAIN invoices[i].lines
               /\ invoices[i].lines[Was(i)[k]] = invoices'[i].lines[k]
               /\ Plan(i, k)' => Plan(i, Was(i)[k])
               /\ Exit(i, k)' => Exit(i, Was(i)[k])
    BY <1>1, LinesWere DEF Plan, Exit
  <1>2. ASSUME NEW i \in DOMAIN invoices, Standing(i)'
        PROVE  Standing(i)
    BY <1>2 DEF AllFollow, Follows, Standing
  <1>3. ASSUME NEW i \in DOMAIN invoices
        PROVE  /\ invoices'[i].start = invoices[i].start /\ invoices'[i].end = invoices[i].end
               /\ invoices[i].start \in Nat /\ SheetOK(invoices'[i])
    BY DEF AllFollow, Follows, SheetsOK, SheetOK
  <1>4. ASSUME NEW i \in DOMAIN invoices, NEW k \in DOMAIN invoices'[i].lines, Plan(i, k)'
        PROVE  PlanAt(i, k)'
    <2> DEFINE line == invoices'[i].lines[k]
    <2>1. /\ \E q \in Nat : invoices[i].start = q * DaysInMonth
          /\ invoices[i].end = invoices[i].start + DaysInMonth - 1
          /\ invoices[i].start <= today
          /\ invoices[i].start <= line.from /\ line.upto <= invoices[i].start + DaysInMonth
          /\ \A m \in DOMAIN invoices[i].lines : Plan(i, m) => m = Was(i)[k]
      BY <1>1, <1>4 DEF PlanInv, PlanAt
    <2>2. \A m \in DOMAIN invoices'[i].lines : Plan(i, m)' => m = k
      BY <1>1, <1>4, <2>1, LinesWere
    <2>3. today \in Nat
      BY DEF SheetsOK
    <2>4. invoices[i].start <= today'
      BY <1>3, <2>1, <2>3
    <2> QED
      BY <1>3, <2>1, <2>2, <2>4 DEF PlanAt
  <1>5. ASSUME NEW i \in DOMAIN invoices, NEW k \in DOMAIN invoices'[i].lines, Exit(i, k)', Standing(i)'
        PROVE  sub'.ends # NoDate /\ invoices'[i].lines[k].from = sub'.ends
    <2>1. sub.ends # NoDate /\ invoices'[i].lines[k].from = sub.ends
      BY <1>1, <1>2, <1>5 DEF PlanInv, ExitAt
    <2> QED
      BY <1>5, <2>1 DEF EndsMove
  <1>6. ASSUME NEW i \in DOMAIN invoices, NEW j \in DOMAIN invoices,
               NEW k \in DOMAIN invoices'[i].lines, NEW m \in DOMAIN invoices'[j].lines
        PROVE  MonthsDifferAt(i, k, j, m)'
    <2>1. ASSUME Plan(i, k)', Plan(j, m)', Standing(i)', Standing(j)', i # j
          PROVE  invoices'[i].start # invoices'[j].start
      <3>1. MonthsDifferAt(i, Was(i)[k], j, Was(j)[m])
        BY <1>1, <2>1 DEF PlanInv
      <3> QED
        BY <1>1, <1>2, <1>3, <2>1, <3>1 DEF MonthsDifferAt
    <2> QED
      BY <2>1 DEF MonthsDifferAt
  <1>7. ASSUME NEW i \in DOMAIN invoices, NEW j \in DOMAIN invoices,
               NEW k \in DOMAIN invoices'[i].lines, NEW m \in DOMAIN invoices'[j].lines
        PROVE  OneExitAt(i, k, j, m)'
    <2>1. ASSUME Exit(i, k)', Exit(j, m)', Standing(i)', Standing(j)'
          PROVE  i = j /\ k = m
      <3>1. OneExitAt(i, Was(i)[k], j, Was(j)[m])
        BY <1>1, <2>1 DEF PlanInv
      <3>2. i = j /\ Was(i)[k] = Was(j)[m]
        BY <1>1, <1>2, <2>1, <3>1 DEF OneExitAt
      <3> QED
        BY <3>2, LinesWere
    <2> QED
      BY <2>1 DEF OneExitAt
  <1>8. ASSUME NEW i \in DOMAIN invoices, NEW k \in DOMAIN invoices'[i].lines
        PROVE  PlanAt(i, k)' /\ ExitAt(i, k)'
    <2>1. PlanAt(i, k)'
      BY <1>4 DEF PlanAt
    <2>2. ExitAt(i, k)'
      BY <1>5 DEF ExitAt
    <2> QED
      BY <2>1, <2>2
  <1>9. ASSUME NEW i \in DOMAIN invoices, NEW j \in DOMAIN invoices,
               NEW k \in DOMAIN invoices'[i].lines, NEW m \in DOMAIN invoices'[j].lines
        PROVE  FeeApartAt(i, k, j, m)'
    <2>1. ASSUME Plan(i, k)', Exit(j, m)', Standing(i)', Standing(j)'
          PROVE  invoices'[i].lines[k].upto <= sub'.ends \/ (sub'.backdated /\ i < j)
      <3>1. FeeApartAt(i, Was(i)[k], j, Was(j)[m]) /\ ExitAt(j, Was(j)[m])
        BY <1>1, <2>1 DEF PlanInv
      <3>2. sub'.ends = sub.ends /\ sub'.backdated = sub.backdated
        BY <1>1, <1>2, <2>1, <3>1 DEF ExitAt, EndsMove
      <3> QED
        BY <1>1, <1>2, <2>1, <3>1, <3>2 DEF FeeApartAt
    <2> QED
      BY <2>1 DEF FeeApartAt
  <1> QED
    BY <1>6, <1>7, <1>8, <1>9

\* A step that raises no invoice and charges for nothing keeps everything.
LEMMA QuietStep ==
    ASSUME BillingInv, AllFollow, DOMAIN invoices' = DOMAIN invoices, UNCHANGED <<terms, desk>>,
           today' \in Nat, today <= today', DOMAIN sub' = {"status", "ends", "backdated"},
           sub'.ends \in Nat \union {NoDate}, EndsMove
    PROVE  BillingInv'
  <1>1. SheetsOK'
    BY SheetsFollow DEF BillingInv
  <1>2. FineInv'
    BY FinesFollow DEF BillingInv, FineInv
  <1>3. Billed' => Billed
    BY DEF Billed
  <1>4. PlanInv'
    BY <1>3, PlansFollow DEF BillingInv, PlanInv
  <1> QED
    BY <1>1, <1>2, <1>4 DEF BillingInv
-----------------------------------------------------------------------------
(* The handlers that charge for nothing *)

\* A handler that changes one invoice, if there is one.
LEMMA InvoiceChanged ==
    ASSUME BillingInv, NEW i, NEW inv, i \in DOMAIN invoices => Follows(invoices[i], inv),
           InvoiceBecomes(i, inv)
    PROVE  BillingInv'
  <1>1. IsSeq(invoices) /\ \A j \in DOMAIN invoices : SheetOK(invoices[j])
    BY DEF BillingInv, SheetsOK
  <1>2. UNCHANGED <<terms, desk, today, sub>> /\ invoices' = [invoices EXCEPT ![i] = inv]
    BY DEF InvoiceBecomes, agreement
  <1>3. AllFollow /\ DOMAIN invoices' = DOMAIN invoices
    <2>1. CASE i \in DOMAIN invoices
      BY <1>1, <1>2, <2>1, OneFollows
    <2>2. CASE i \notin DOMAIN invoices
      <3>1. invoices = [j \in 1..Len(invoices) |-> invoices[j]]
        BY <1>1, SeqDomain
      <3>2. invoices' = invoices
        BY <1>2, <2>2, <3>1
      <3> QED
        BY <1>1, <3>2, NoneChanges
    <2> QED
      BY <2>1, <2>2
  <1>4. /\ today' \in Nat /\ today <= today' /\ DOMAIN sub' = {"status", "ends", "backdated"}
        /\ sub'.ends \in Nat \union {NoDate} /\ EndsMove
    BY <1>2 DEF BillingInv, SheetsOK, EndsMove
  <1> QED
    BY <1>2, <1>3, <1>4, QuietStep

LEMMA InvoiceKept ==
    ASSUME BillingInv, UNCHANGED <<terms, desk, invoices>>, today' \in Nat, today <= today',
           DOMAIN sub' = {"status", "ends", "backdated"}, sub'.ends \in Nat \union {NoDate}, EndsMove
    PROVE  BillingInv'
  BY NoneChanges, QuietStep DEF BillingInv, SheetsOK

LEMMA AllAsBefore ==
    ASSUME BillingInv, UNCHANGED <<terms, desk, today, sub, invoices>>
    PROVE  BillingInv'
  BY InvoiceKept DEF BillingInv, SheetsOK, EndsMove

LEMMA SheetAt ==
    ASSUME BillingInv, NEW i \in DOMAIN invoices
    PROVE  SheetOK(invoices[i])
  BY DEF BillingInv, SheetsOK

LEMMA PayFollows ==
    ASSUME BillingInv, NEW i, NEW amount, i \in DOMAIN invoices
    PROVE  Follows(invoices[i], Pay(invoices[i], amount))
  <1>1. SheetOK(invoices[i])
    BY SheetAt
  <1>2. Pay(invoices[i], amount)
            = Refreshed([invoices[i] EXCEPT !.paid = invoices[i].paid + amount])
    BY DEF Pay
  <1> QED
    BY <1>1, <1>2, PaidFollows

LEMMA Received ==
    ASSUME BillingInv, NEW i, NEW amount, Receive(i, amount)
    PROVE  BillingInv'
  BY InvoiceChanged, PayFollows DEF Receive

LEMMA MoneyMoves ==
    ASSUME BillingInv, NEW k, CreditNoteApply(k) \/ RefundComplete(k)
    PROVE  BillingInv'
  <1>1. CASE CreditNoteApply(k)
    BY <1>1, InvoiceChanged, PayFollows DEF CreditNoteApply
  <1>2. CASE RefundComplete(k)
    <2> DEFINE i == payments[refunds[k].payment].invoice
               left == Max({0, invoices[i].paid - refunds[k].amount})
    <2>1. InvoiceBecomes(i, Refreshed([invoices[i] EXCEPT !.paid = left]))
      BY <1>2 DEF RefundComplete
    <2> HIDE DEF left
    <2>2. i \in DOMAIN invoices => Follows(invoices[i], Refreshed([invoices[i] EXCEPT !.paid = left]))
      BY SheetAt, PaidFollows
    <2> HIDE DEF i
    <2> QED
      BY <2>1, <2>2, InvoiceChanged
  <1> QED
    BY <1>1, <1>2

LEMMA LinesEdited ==
    ASSUME BillingInv, NEW i \in DOMAIN invoices,
           \/ \E amount \in Parts : LineAdd(i, amount)
           \/ \E k \in DOMAIN invoices[i].lines : LineDelete(i, k)
    PROVE  BillingInv'
  <1> DEFINE lines == invoices[i].lines
  <1>1. SheetOK(invoices[i]) /\ IsSeq(lines) /\ \A k \in DOMAIN lines : LineOK(lines[k])
    BY SheetAt DEF SheetOK
  <1>2. ASSUME NEW amount \in Parts, LineAdd(i, amount)
        PROVE  BillingInv'
    <2> DEFINE new == Append(lines, Other("other", amount))
    <2>1. InvoiceBecomes(i, [invoices[i] EXCEPT !.lines = new])
      BY <1>2 DEF LineAdd
    <2>2. Other("other", amount).type = "other" /\ LineOK(Other("other", amount))
      BY DEF Other, LineOK
    <2>3. IsSeq(new) /\ \A k \in DOMAIN new : LineOK(new[k])
      BY <1>1, <2>2, AppendIsSeq
    <2>4. LinesKept(lines, new)
      BY <1>1, <2>2, LineAdded
    <2> QED
      BY <1>1, <2>1, <2>3, <2>4, NewLinesFollow, InvoiceChanged
  <1>3. ASSUME NEW k \in DOMAIN lines, LineDelete(i, k)
        PROVE  BillingInv'
    <2> DEFINE new == RemoveAt(lines, k)
    <2>1. InvoiceBecomes(i, [invoices[i] EXCEPT !.lines = new])
      BY <1>3 DEF LineDelete
    <2>2. /\ IsSeq(new) /\ DOMAIN new = 1..(Len(lines) - 1)
          /\ \A m \in 1..(Len(lines) - 1) : new[m] = lines[IF m < k THEN m ELSE m + 1]
      BY <1>1, RemoveIsSeq
    <2>3. DOMAIN lines = 1..Len(lines) /\ Len(lines) \in Nat
      BY <1>1, SeqDomain
    <2>4. \A m \in DOMAIN new : LineOK(new[m])
      <3>1. \A m \in 1..(Len(lines) - 1) : (IF m < k THEN m ELSE m + 1) \in DOMAIN lines
        BY <2>3
      <3> QED
        BY <1>1, <2>2, <3>1
    <2>5. LinesKept(lines, new)
      BY <1>1, LineRemoved
    <2> QED
      BY <1>1, <2>1, <2>2, <2>4, <2>5, NewLinesFollow, InvoiceChanged
  <1> QED
    BY <1>2, <1>3

LEMMA StatusSet ==
    ASSUME BillingInv, NEW i \in DOMAIN invoices, Issue(i) \/ Void(i)
    PROVE  BillingInv'
  <1>1. SheetOK(invoices[i])
    BY SheetAt
  <1>2. CASE Issue(i)
    <2> DEFINE inv == [invoices[i] EXCEPT !.status = "issued"]
    <2>1. InvoiceBecomes(i, inv)
      BY <1>2 DEF Issue
    <2>2. Follows(invoices[i], inv)
      BY <1>1, IssuedFollows
    <2> QED
      BY <2>1, <2>2, InvoiceChanged
  <1>3. CASE Void(i)
    BY <1>1, <1>3, VoidedFollows, InvoiceChanged DEF Void
  <1> QED
    BY <1>2, <1>3

LEMMA DraftsIssued ==
    ASSUME BillingInv, IssueDrafts
    PROVE  BillingInv'
  <1>1. IsSeq(invoices) /\ \A j \in DOMAIN invoices : SheetOK(invoices[j])
    BY DEF BillingInv, SheetsOK
  <1>2. UNCHANGED <<terms, desk, today, sub>>
    BY DEF IssueDrafts, agreement
  <1>3. /\ DOMAIN invoices' = DOMAIN invoices
        /\ \A i \in DOMAIN invoices :
              \/ invoices'[i] = [invoices[i] EXCEPT !.status = "issued"]
              \/ invoices'[i] = [invoices[i] EXCEPT !.status = invoices[i].status]
    BY DEF IssueDrafts
  <1>4. \A i \in DOMAIN invoices : Follows(invoices[i], invoices'[i])
    BY <1>1, <1>3, IssuedFollows
  <1>5. IsSeq(invoices')
    <2>1. Len(invoices) \in Nat /\ DOMAIN invoices = 1..Len(invoices)
      BY <1>1, SeqDomain
    <2>2. invoices' = [i \in 1..Len(invoices) |-> invoices'[i]]
      BY <2>1 DEF IssueDrafts
    <2> QED
      BY <2>1, <2>2, FunctionIsSeq
  <1>6. /\ today' \in Nat /\ today <= today' /\ DOMAIN sub' = {"status", "ends", "backdated"}
        /\ sub'.ends \in Nat \union {NoDate} /\ EndsMove
    BY <1>2 DEF BillingInv, SheetsOK, EndsMove
  <1> QED
    BY <1>2, <1>3, <1>4, <1>5, <1>6, QuietStep DEF AllFollow
-----------------------------------------------------------------------------
(* Months *)

LEMMA DaysOfMonths ==
    ASSUME NEW day \in Nat, NEW d \in Nat, d > 0
    PROVE  /\ day - (day % d) = (day \div d) * d
           /\ day % d \in Nat /\ day - (day % d) \in Nat /\ day \div d \in Nat
  <1>1. day - (day % d) = (day \div d) * d
    OBVIOUS
  <1>2. day % d \in 0..(d - 1) /\ day \div d \in Nat
    OBVIOUS
  <1>3. (day \div d) * d \in Nat
    BY <1>2
  <1> QED
    BY <1>1, <1>2, <1>3

LEMMA MonthStarts ==
    ASSUME NEW day \in Nat
    PROVE  /\ MonthStart(day) \in Nat /\ MonthStart(day) <= day
           /\ \E q \in Nat : MonthStart(day) = q * DaysInMonth
  <1>1. DaysInMonth \in Nat /\ DaysInMonth > 0
    BY Calendar
  <1>2. /\ MonthStart(day) = (day \div DaysInMonth) * DaysInMonth
        /\ day \div DaysInMonth \in Nat /\ MonthStart(day) \in Nat
    BY <1>1, DaysOfMonths DEF MonthStart
  <1>3. MonthStart(day) <= day
    <2>1. day % DaysInMonth \in Nat
      BY <1>1, DaysOfMonths
    <2> QED
      BY <2>1 DEF MonthStart
  <1> QED
    BY <1>2, <1>3

LEMMA MonthsApart ==
    ASSUME NEW q \in Nat, NEW r \in Nat, q * DaysInMonth # r * DaysInMonth
    PROVE  \/ q * DaysInMonth + DaysInMonth <= r * DaysInMonth
           \/ r * DaysInMonth + DaysInMonth <= q * DaysInMonth
  <1>1. DaysInMonth \in Nat /\ DaysInMonth > 0
    BY Calendar
  <1>2. q < r \/ r < q
    BY <1>1
  <1>3. ASSUME q < r
        PROVE  q * DaysInMonth + DaysInMonth <= r * DaysInMonth
    BY <1>1, <1>3
  <1>4. ASSUME r < q
        PROVE  r * DaysInMonth + DaysInMonth <= q * DaysInMonth
    BY <1>1, <1>4
  <1> QED
    BY <1>2, <1>3, <1>4

\* A month that has begun is over a month after the start of the current one.
LEMMA MonthIsOver ==
    ASSUME NEW q \in Nat, NEW day \in Nat, q * DaysInMonth <= day
    PROVE  q * DaysInMonth <= MonthStart(day)
  <1>1. DaysInMonth \in Nat /\ DaysInMonth > 0
    BY Calendar
  <1>2. day - (day % DaysInMonth) \in Nat /\ day % DaysInMonth \in 0..(DaysInMonth - 1)
    BY <1>1, DaysOfMonths
  <1>3. PICK p \in Nat : MonthStart(day) = p * DaysInMonth
    BY MonthStarts
  <1>4. day < MonthStart(day) + DaysInMonth
    BY <1>1, <1>2 DEF MonthStart
  <1>5. q * DaysInMonth \in Nat /\ p * DaysInMonth \in Nat
    BY <1>1
  <1>6. CASE q * DaysInMonth = p * DaysInMonth
    BY <1>3, <1>5, <1>6
  <1>7. CASE q * DaysInMonth # p * DaysInMonth
    <2>1. \/ q * DaysInMonth + DaysInMonth <= p * DaysInMonth
          \/ p * DaysInMonth + DaysInMonth <= q * DaysInMonth
      BY <1>7, MonthsApart
    <2> QED
      BY <1>1, <1>3, <1>4, <1>5, <2>1
  <1> QED
    BY <1>6, <1>7
-----------------------------------------------------------------------------
(* Notice *)

LEMMA NoticeGiven ==
    ASSUME BillingInv, NEW on \in Nat, GiveNotice(on)
    PROVE  BillingInv'
  <1> DEFINE ends == on + terms.notice * DaysInMonth
             months == MonthsBetween(ends, LockInEnd)
  <1>1. /\ sub.ends = NoDate
        /\ sub' = [sub EXCEPT !.ends = ends, !.backdated = on < MonthStart(today)]
        /\ UNCHANGED <<terms, desk, today>>
        /\ \/ UNCHANGED invoices
           \/ invoices' = Append(invoices, EarlyExit(ends, months, on))
    BY DEF GiveNotice
  <1> HIDE DEF months
  <1>2. terms.notice \in Nat /\ DaysInMonth \in Nat /\ today \in Nat
    BY Calendar DEF BillingInv, SheetsOK
  <1>3. ends \in Nat
    <2>1. terms.notice * DaysInMonth \in Nat
      BY <1>2
    <2> QED
      BY <1>2, <2>1
  <1>4. /\ today' \in Nat /\ today <= today' /\ DOMAIN sub' = {"status", "ends", "backdated"}
        /\ sub'.ends = ends /\ sub'.ends \in Nat \union {NoDate} /\ EndsMove /\ sub'.ends # NoDate
        /\ sub'.backdated = (on < MonthStart(today))
    BY <1>1, <1>2, <1>3 DEF BillingInv, SheetsOK, EndsMove, NoDate
  <1>5. CASE UNCHANGED invoices
    BY <1>1, <1>4, <1>5, InvoiceKept
  <1>6. CASE invoices' = Append(invoices, EarlyExit(ends, months, on))
    <2>0. PICK n : n = Len(invoices) + 1
      OBVIOUS
    <2> DEFINE inv == EarlyExit(ends, months, on)
               line == inv.lines[1]
    <2>1. IsSeq(invoices) /\ \A j \in DOMAIN invoices : SheetOK(invoices[j])
      BY DEF BillingInv, SheetsOK
    <2>2. /\ IsSeq(invoices') /\ DOMAIN invoices' = DOMAIN invoices \union {n}
          /\ \A i \in DOMAIN invoices : invoices'[i] = invoices[i]
          /\ invoices'[n] = inv /\ n \notin DOMAIN invoices
      BY <1>6, <2>0, <2>1, AppendIsSeq
    <2>3. AllFollow
      BY <2>1, <2>2, SheetFollowsItself DEF AllFollow
    <2>4. DueDate(ends, on) \in Nat
      <3>1. terms.dueDay \in Nat /\ MonthStart(ends) \in Int
        BY <1>2, <1>3, Calendar DEF BillingInv, SheetsOK, MonthStart
      <3>2. MonthStart(ends) + terms.dueDay \in Int
        BY <3>1
      <3> DEFINE d == MonthStart(ends) + terms.dueDay
      <3>3. DueDate(ends, on) = Max({d, on}) /\ d \in Int
        BY <3>2 DEF DueDate
      <3> HIDE DEF d
      <3>4. Max({d, on}) = IF d >= on THEN d ELSE on
        BY <3>3, MaxOfTwo
      <3> QED
        BY <1>2, <3>3, <3>4
    <2>5. LockInEnd \in Nat
      <3>1. terms.start \in Nat /\ terms.lockIn \in Nat
        BY DEF BillingInv, SheetsOK
      <3>2. terms.lockIn * DaysInMonth \in Nat
        BY <1>2, <3>1
      <3> QED
        BY <3>1, <3>2 DEF LockInEnd
    <2>6. /\ DOMAIN inv = Fields /\ inv.start = ends /\ inv.due = DueDate(ends, on)
          /\ inv.status = "issued" /\ inv.through = NoDate
          /\ inv.lines = <<[type |-> "early_exit", amount |-> months * EffectivePrice(ends),
                            of |-> 0, from |-> ends, upto |-> LockInEnd]>>
      BY DEF EarlyExit, NewInvoice, Fields
    <2> HIDE DEF inv
    <2>7. /\ IsSeq(inv.lines) /\ DOMAIN inv.lines = {1}
          /\ line.type = "early_exit" /\ line.of = 0 /\ line.from = ends /\ line.upto = LockInEnd
      BY <2>6, OneIsSeq
    <2> HIDE DEF line
    <2>8. LineOK(line)
      BY <1>3, <2>5, <2>7 DEF LineOK
    <2>9. SheetOK(inv)
      BY <1>3, <2>4, <2>6, <2>7, <2>8 DEF SheetOK, line
    <2>10. SheetsOK'
      BY <1>1, <1>4, <2>2, <2>3, <2>9, SheetsFollow DEF BillingInv
    <2>11. \A k \in DOMAIN invoices'[n].lines : k = 1 /\ ~Fee(n, k)' /\ ~Plan(n, k)'
      BY <2>2, <2>7 DEF Fee, Plan, line
    <2> HIDE DEF ends
    <2>12. FineInv'
      <3>1. /\ \A i \in DOMAIN invoices : \A k \in DOMAIN invoices'[i].lines : FineAt(i, k)'
            /\ \A i, j \in DOMAIN invoices :
                  \A k \in DOMAIN invoices'[i].lines, m \in DOMAIN invoices'[j].lines :
                      FinesApartAt(i, k, j, m)'
        BY <1>1, <2>3, FinesFollow DEF BillingInv
      <3>2. ASSUME NEW i \in DOMAIN invoices', NEW k \in DOMAIN invoices'[i].lines
            PROVE  FineAt(i, k)'
        <4>1. CASE i \in DOMAIN invoices
          BY <3>1, <4>1
        <4>2. CASE i = n
          BY <2>11, <4>2 DEF FineAt
        <4> QED
          BY <2>2, <4>1, <4>2
      <3>3. ASSUME NEW i \in DOMAIN invoices', NEW j \in DOMAIN invoices',
                   NEW k \in DOMAIN invoices'[i].lines, NEW m \in DOMAIN invoices'[j].lines
            PROVE  FinesApartAt(i, k, j, m)'
        <4>1. CASE i \in DOMAIN invoices /\ j \in DOMAIN invoices
          BY <3>1, <4>1
        <4>2. CASE i = n \/ j = n
          BY <2>11, <4>2 DEF FinesApartAt
        <4> QED
          BY <2>2, <4>1, <4>2
      <3> QED
        BY <3>2, <3>3 DEF FineInv
    <2>13. ASSUME Billed'
           PROVE  /\ \A i \in DOMAIN invoices' : \A k \in DOMAIN invoices'[i].lines :
                        PlanAt(i, k)' /\ ExitAt(i, k)'
                  /\ \A i, j \in DOMAIN invoices' :
                        \A k \in DOMAIN invoices'[i].lines, m \in DOMAIN invoices'[j].lines :
                            /\ MonthsDifferAt(i, k, j, m)' /\ OneExitAt(i, k, j, m)'
                            /\ FeeApartAt(i, k, j, m)'
      <3>1. Billed
        BY <1>1, <2>13 DEF Billed
      <3>2. /\ \A i \in DOMAIN invoices : \A k \in DOMAIN invoices'[i].lines :
                  PlanAt(i, k)' /\ ExitAt(i, k)'
            /\ \A i, j \in DOMAIN invoices :
                  \A k \in DOMAIN invoices'[i].lines, m \in DOMAIN invoices'[j].lines :
                      /\ MonthsDifferAt(i, k, j, m)' /\ OneExitAt(i, k, j, m)'
                      /\ FeeApartAt(i, k, j, m)'
        BY <1>1, <1>4, <2>3, <3>1, PlansFollow DEF BillingInv
      <3>3. \A i \in DOMAIN invoices : \A k \in DOMAIN invoices'[i].lines :
                ~(Exit(i, k)' /\ Standing(i)')
        <4>1. ASSUME NEW i \in DOMAIN invoices, NEW k \in DOMAIN invoices[i].lines
              PROVE  ~(Exit(i, k) /\ Standing(i))
          BY <1>1, <3>1 DEF BillingInv, PlanInv, ExitAt
        <4> QED
          BY <2>2, <4>1 DEF Exit, Standing
      <3>4. \A k \in DOMAIN invoices'[n].lines : invoices'[n].lines[k].from = sub'.ends
        BY <1>4, <2>2, <2>7 DEF line
      <3>5. ASSUME NEW i \in DOMAIN invoices', NEW k \in DOMAIN invoices'[i].lines
            PROVE  PlanAt(i, k)'
        <4>1. CASE i \in DOMAIN invoices
          BY <3>2, <4>1
        <4>2. CASE i = n
          BY <2>11, <4>2 DEF PlanAt
        <4> QED
          BY <2>2, <4>1, <4>2
      <3>6. \A i \in DOMAIN invoices' : \A k \in DOMAIN invoices'[i].lines : ExitAt(i, k)'
        BY <1>4, <2>2, <3>2, <3>4 DEF ExitAt
      <3>7. ASSUME NEW i \in DOMAIN invoices', NEW j \in DOMAIN invoices',
                   NEW k \in DOMAIN invoices'[i].lines, NEW m \in DOMAIN invoices'[j].lines
            PROVE  MonthsDifferAt(i, k, j, m)'
        <4>1. CASE i \in DOMAIN invoices /\ j \in DOMAIN invoices
          BY <3>2, <4>1
        <4>2. CASE i = n \/ j = n
          BY <2>11, <4>2 DEF MonthsDifferAt
        <4> QED
          BY <2>2, <4>1, <4>2
      <3>8. \A i, j \in DOMAIN invoices' :
                \A k \in DOMAIN invoices'[i].lines, m \in DOMAIN invoices'[j].lines :
                    OneExitAt(i, k, j, m)'
        BY <2>2, <2>11, <3>2, <3>3 DEF OneExitAt
      <3>9. ASSUME NEW i \in DOMAIN invoices, NEW k \in DOMAIN invoices'[i].lines, Plan(i, k)',
                   ~sub'.backdated
            PROVE  invoices'[i].lines[k].upto <= sub'.ends
        <4>1. PICK q \in Nat : invoices[i].start = q * DaysInMonth
          BY <2>2, <3>1, <3>9 DEF BillingInv, PlanInv, PlanAt, Plan
        <4>2. /\ invoices[i].start <= today
              /\ invoices'[i].lines[k].upto <= invoices[i].start + DaysInMonth
          BY <2>2, <3>1, <3>9 DEF BillingInv, PlanInv, PlanAt, Plan
        <4>3. invoices[i].start <= MonthStart(today)
          BY <1>2, <4>1, <4>2, MonthIsOver
        <4>4. MonthStart(today) <= on /\ MonthStart(today) \in Nat
          <5>1. ~(on < MonthStart(today))
            BY <1>4, <3>9
          <5> QED
            BY <1>2, <5>1, MonthStarts
        <4>5. terms.notice * DaysInMonth \in Nat /\ terms.notice * DaysInMonth >= DaysInMonth
          BY <1>2, <3>1, NoticeIsAMonth DEF Billed
        <4>6. invoices'[i].lines[k].upto \in Nat /\ invoices[i].start \in Nat
          BY <2>1, <2>2, <3>9 DEF SheetOK, LineOK
        <4>7. sub'.ends = on + terms.notice * DaysInMonth
          BY <1>4 DEF ends
        <4>8. PICK d : d = terms.notice * DaysInMonth
          OBVIOUS
        <4> QED
          BY <1>2, <4>2, <4>3, <4>4, <4>5, <4>6, <4>7, <4>8
      <3>10. ASSUME NEW i \in DOMAIN invoices', NEW j \in DOMAIN invoices',
                    NEW k \in DOMAIN invoices'[i].lines, NEW m \in DOMAIN invoices'[j].lines,
                    Plan(i, k)', Exit(j, m)', Standing(j)'
             PROVE  invoices'[i].lines[k].upto <= sub'.ends \/ (sub'.backdated /\ i < j)
        <4>1. j = n /\ i \in DOMAIN invoices
          BY <2>2, <2>11, <3>3, <3>10
        <4>2. i < j
          BY <2>0, <2>1, <4>1, SeqDomain
        <4> QED
          BY <3>9, <3>10, <4>1, <4>2
      <3>11. \A i, j \in DOMAIN invoices' :
                \A k \in DOMAIN invoices'[i].lines, m \in DOMAIN invoices'[j].lines :
                    FeeApartAt(i, k, j, m)'
        BY <3>10 DEF FeeApartAt
      <3> QED
        BY <3>5, <3>6, <3>7, <3>8, <3>11
    <2> QED
      BY <2>10, <2>12, <2>13 DEF BillingInv, PlanInv
  <1> QED
    BY <1>1, <1>5, <1>6

LEMMA NoticeWithdrawn ==
    ASSUME BillingInv, WithdrawNotice
    PROVE  BillingInv'
  <1>1. IsSeq(invoices) /\ \A j \in DOMAIN invoices : SheetOK(invoices[j])
    BY DEF BillingInv, SheetsOK
  <1>2. /\ UNCHANGED <<terms, desk, today>>
        /\ sub' = [sub EXCEPT !.ends = NoDate, !.backdated = FALSE]
        /\ invoices' = [i \in DOMAIN invoices |->
                          IF i \in ExitInvoices THEN Voided(invoices[i]) ELSE invoices[i]]
    BY DEF WithdrawNotice
  <1>3. IsSeq(invoices')
    <2>1. Len(invoices) \in Nat /\ DOMAIN invoices = 1..Len(invoices)
      BY <1>1, SeqDomain
    <2>2. invoices' = [i \in 1..Len(invoices) |-> invoices'[i]]
      BY <1>2, <2>1
    <2> QED
      BY <2>1, <2>2, FunctionIsSeq
  <1>4. \A i \in DOMAIN invoices : Follows(invoices[i], invoices'[i])
    BY <1>1, <1>2, VoidedFollows, SheetFollowsItself
  <1>5. AllFollow /\ DOMAIN invoices' = DOMAIN invoices
    BY <1>2, <1>3, <1>4 DEF AllFollow
  <1>6. ASSUME NEW i \in DOMAIN invoices, NEW k \in DOMAIN invoices'[i].lines, Exit(i, k)'
        PROVE  ~Standing(i)'
    <2>1. CASE i \in ExitInvoices
      BY <1>1, <1>2, <2>1, VoidedFollows DEF Standing
    <2>2. CASE i \notin ExitInvoices
      <3>1. invoices'[i] = invoices[i] /\ Bills(invoices[i], "early_exit")
        BY <1>2, <1>6, <2>2 DEF Exit, Bills
      <3>2. invoices[i].status = "void"
        BY <2>2, <3>1 DEF ExitInvoices
      <3> QED
        BY <1>1, <3>1, <3>2 DEF SheetOK, Standing
    <2> QED
      BY <2>1, <2>2
  <1>7. /\ today' \in Nat /\ today <= today' /\ DOMAIN sub' = {"status", "ends", "backdated"}
        /\ sub'.ends = NoDate /\ sub'.ends \in Nat \union {NoDate}
    BY <1>2 DEF BillingInv, SheetsOK
  <1>8. EndsMove
    BY <1>6, <1>7 DEF EndsMove
  <1> QED
    BY <1>2, <1>5, <1>7, <1>8, QuietStep
-----------------------------------------------------------------------------
(* The month's invoice, and the fines on it *)

LEMMA OfSetToSeq ==
    ASSUME NEW S, IsFiniteSet(S)
    PROVE  /\ IsSeq(SetToSeq(S)) /\ \A k \in DOMAIN SetToSeq(S) : SetToSeq(S)[k] \in S
           /\ \A k, m \in DOMAIN SetToSeq(S) : SetToSeq(S)[k] = SetToSeq(S)[m] => k = m
  <1>1. Cardinality(S) \in Nat /\ ExistsBijection(1..Cardinality(S), S)
    BY FS_CardinalityType
  <1>2. \E f \in [1..Cardinality(S) -> S] : IsInjective(f)
    <2>1. PICK f : f \in Bijection(1..Cardinality(S), S)
      BY <1>1 DEF ExistsBijection
    <2>2. f \in [1..Cardinality(S) -> S] /\ \A a, b \in 1..Cardinality(S) : f[a] = f[b] => a = b
      BY <2>1 DEF Bijection, Injection, IsInjective
    <2> QED
      BY <2>2 DEF IsInjective
  <1>3. SetToSeq(S) \in [1..Cardinality(S) -> S] /\ IsInjective(SetToSeq(S))
    BY <1>2 DEF SetToSeq
  <1>4. SetToSeq(S) = [k \in 1..Cardinality(S) |-> SetToSeq(S)[k]]
    BY <1>3
  <1> QED
    BY <1>1, <1>3, <1>4, FunctionIsSeq DEF IsInjective

\* The line for the plan: days of the month, none after the agreement has ended.
LEMMA ChargeOfMonth ==
    ASSUME SheetsOK, NEW start \in Nat, PlanCharge(start) # <<>>
    PROVE  \E line :
              /\ PlanCharge(start) = <<line>> /\ LineOK(line) /\ line.type = "plan"
              /\ start <= line.from /\ line.upto <= start + DaysInMonth
              /\ terms.prorate /\ sub.ends # NoDate => line.upto <= sub.ends
  <1> DEFINE end   == start + DaysInMonth
             first == Max({start, terms.start})
             last  == IF sub.ends = NoDate THEN end ELSE Min({end, sub.ends})
             some  == terms.prorate /\ last - first < DaysInMonth
             price == EffectivePrice(start)
             line  == [type |-> "plan", of |-> 0,
                       amount |-> IF some THEN Rounded(price * (last - first), DaysInMonth) ELSE price,
                       from |-> IF some THEN first ELSE start, upto |-> IF some THEN last ELSE end]
  <1>1. PlanCharge(start) = <<line>> /\ ~(last <= first)
    BY DEF PlanCharge
  <1>2. end \in Nat /\ terms.start \in Nat /\ DaysInMonth \in Nat
    BY Calendar DEF SheetsOK
  <1>3. first \in Nat /\ start <= first
    <2>1. first = IF start >= terms.start THEN start ELSE terms.start
      BY <1>2, MaxOfTwo
    <2> QED
      BY <1>2, <2>1
  <1>4. last \in Nat /\ last <= end /\ (sub.ends # NoDate => last <= sub.ends)
    <2>1. CASE sub.ends = NoDate
      BY <1>2, <2>1
    <2>2. CASE sub.ends # NoDate
      <3>1. sub.ends \in Nat
        BY <2>2 DEF SheetsOK
      <3>2. last = IF end <= sub.ends THEN end ELSE sub.ends
        BY <1>2, <2>2, <3>1, MinOfTwo
      <3> QED
        BY <1>2, <3>1, <3>2
    <2> QED
      BY <2>1, <2>2
  <1>5. end = start + DaysInMonth
    OBVIOUS
  <1>6. /\ line.type = "plan" /\ line.of = 0 /\ line.from = (IF some THEN first ELSE start)
        /\ line.upto = IF some THEN last ELSE end
    OBVIOUS
  <1> HIDE DEF line, first, last, end
  <1>7. start <= line.from /\ line.upto <= end /\ LineOK(line)
    BY <1>2, <1>3, <1>4, <1>6 DEF LineOK
  <1>8. ASSUME terms.prorate, sub.ends # NoDate
        PROVE  line.upto <= sub.ends
    <2>1. CASE last - first < DaysInMonth
      BY <1>4, <1>6, <1>8, <2>1
    <2>2. CASE ~(last - first < DaysInMonth)
      <3>1. last = end
        BY <1>2, <1>3, <1>4, <1>5, <2>2
      <3> QED
        BY <1>4, <1>6, <1>8, <2>2, <3>1
    <2> QED
      BY <2>1, <2>2
  <1> QED
    BY <1>1, <1>5, <1>6, <1>7, <1>8

\* An invoice that is late is remembered to be fined up to today.
LEMMA LateFollows ==
    ASSUME SheetsOK, NEW i \in DOMAIN invoices
    PROVE  /\ Follows(invoices[i], [invoices[i] EXCEPT !.through = IF i \in LateInvoices THEN today ELSE @])
           /\ i \in LateInvoices =>
                 /\ FeeStart(invoices[i]) \in Nat /\ FeeStart(invoices[i]) < today
                 /\ FeeStart(invoices[i]) >= invoices[i].due + terms.grace
                 /\ FeeStart(invoices[i]) >= invoices[i].through
  <1> DEFINE inv == invoices[i]
             up  == IF i \in LateInvoices THEN today ELSE inv.through
             new == [inv EXCEPT !.through = up]
  <1>1. SheetOK(inv) /\ today \in Nat /\ terms.grace \in Nat
    BY DEF SheetsOK
  <1>2. ASSUME i \in LateInvoices
        PROVE  /\ FeeStart(inv) \in Nat /\ FeeStart(inv) < today
               /\ FeeStart(inv) >= inv.due + terms.grace /\ FeeStart(inv) >= inv.through
    <2>1. inv.due + terms.grace \in Nat /\ inv.through \in Int
      BY <1>1 DEF SheetOK, NoDate
    <2> DEFINE d == inv.due + terms.grace
    <2>2. FeeStart(inv) = IF d >= inv.through THEN d ELSE inv.through
      BY <2>1, MaxOfTwo DEF FeeStart
    <2>3. today > FeeStart(inv)
      BY <1>2 DEF LateInvoices
    <2> QED
      BY <1>1, <2>1, <2>2, <2>3
  <1>3. up \in Nat \union {NoDate} /\ inv.through <= up
    BY <1>1, <1>2 DEF SheetOK, NoDate
  <1> HIDE DEF up
  <1>4. /\ DOMAIN new = Fields /\ new.start = inv.start /\ new.end = inv.end /\ new.due = inv.due
        /\ new.through = up /\ new.lines = inv.lines /\ new.status = inv.status
    BY <1>1 DEF SheetOK, Fields
  <1>5. new.everVoid = inv.everVoid
    BY <1>1 DEF SheetOK, Fields
  <1> HIDE DEF inv, new
  <1>6. (inv.everVoid => new.everVoid) /\ (new.status = "void" => new.everVoid)
    BY <1>1, <1>4, <1>5 DEF SheetOK
  <1>7. SheetOK(new)
    BY <1>1, <1>3, <1>4, <1>6 DEF SheetOK
  <1>8. Follows(inv, new)
    BY <1>1, <1>3, <1>4, <1>6, <1>7, SameLines DEF Follows, SheetOK
  <1> QED
    BY <1>2, <1>8 DEF new, up, inv

\* The fines of a month's invoice: one for each invoice that is late, for days not yet fined.
LEMMA FinesOfMonth ==
    ASSUME SheetsOK
    PROVE  /\ IsSeq(FeeLines)
           /\ \A k \in DOMAIN FeeLines :
                 LET line == FeeLines[k] IN
                 /\ LineOK(line) /\ line.type = "late_fee" /\ line.of \in LateInvoices
                 /\ line.from = FeeStart(invoices[line.of]) /\ line.upto = today
           /\ \A k, m \in DOMAIN FeeLines : FeeLines[k].of = FeeLines[m].of => k = m
  <1> DEFINE late == SetToSeq(LateInvoices)
  <1>1. Len(invoices) \in Nat /\ DOMAIN invoices = 1..Len(invoices)
    BY SeqDomain DEF SheetsOK
  <1>2. IsFiniteSet(LateInvoices)
    <2>1. IsFiniteSet(1..Len(invoices))
      BY <1>1, FS_Interval
    <2>2. LateInvoices \in SUBSET (1..Len(invoices))
      BY <1>1 DEF LateInvoices
    <2> QED
      BY <2>1, <2>2, FS_Subset
  <1>3. /\ IsSeq(late) /\ \A k \in DOMAIN late : late[k] \in LateInvoices
        /\ \A k, m \in DOMAIN late : late[k] = late[m] => k = m
    BY <1>2, OfSetToSeq
  <1>4. Len(late) \in Nat /\ DOMAIN late = 1..Len(late)
    BY <1>3, SeqDomain
  <1>5. /\ DOMAIN FeeLines = DOMAIN late
        /\ \A k \in DOMAIN late :
              FeeLines[k] = [type |-> "late_fee", amount |-> LateFee(invoices[late[k]]), of |-> late[k],
                             from |-> FeeStart(invoices[late[k]]), upto |-> today]
    BY DEF FeeLines
  <1>6. IsSeq(FeeLines)
    <2>1. FeeLines = [k \in 1..Len(late) |-> FeeLines[k]]
      BY <1>4 DEF FeeLines
    <2> QED
      BY <1>4, <2>1, FunctionIsSeq
  <1> HIDE DEF late
  <1>7. ASSUME NEW k \in DOMAIN FeeLines
        PROVE  LET line == FeeLines[k] IN
               /\ LineOK(line) /\ line.type = "late_fee" /\ line.of \in LateInvoices
               /\ line.from = FeeStart(invoices[line.of]) /\ line.upto = today
               /\ line.of = late[k]
    <2>1. late[k] \in LateInvoices /\ late[k] \in DOMAIN invoices /\ late[k] \in Nat
      BY <1>1, <1>3, <1>5 DEF LateInvoices
    <2>2. FeeStart(invoices[late[k]]) \in Nat /\ today \in Nat
      BY <2>1, LateFollows DEF SheetsOK
    <2> QED
      BY <1>5, <2>1, <2>2 DEF LineOK
  <1> QED
    BY <1>3, <1>5, <1>6, <1>7

LEMMA MonthBilled ==
    ASSUME BillingInv, NEW start \in Nat, \E q \in Nat : start = q * DaysInMonth,
           Billed => start <= today, Generate(start)
    PROVE  BillingInv'
  <1>0. PICK n : n = Len(invoices) + 1
    OBVIOUS
  <1>1. /\ IsSeq(invoices) /\ \A j \in DOMAIN invoices : SheetOK(invoices[j])
        /\ today \in Nat /\ SheetsOK
    BY DEF BillingInv, SheetsOK
  <1>2. PICK line : /\ PlanCharge(start) = <<line>> /\ LineOK(line) /\ line.type = "plan"
                    /\ start <= line.from /\ line.upto <= start + DaysInMonth
                    /\ terms.prorate /\ sub.ends # NoDate => line.upto <= sub.ends
    BY <1>1, ChargeOfMonth DEF Generate
  <1> DEFINE lines == <<line>> \o FeeLines
             inv == NewInvoice(start, start + DaysInMonth - 1, DueDate(start, today), FirstStatus, lines)
             known == [i \in DOMAIN invoices |->
                          [invoices[i] EXCEPT !.through = IF i \in LateInvoices THEN today ELSE @]]
  <1>3. /\ UNCHANGED <<terms, desk, today, sub>>
        /\ invoices' = Append(known, inv)
        /\ ~Generated(start)
    BY <1>2 DEF Generate, agreement
  <1>4. Len(invoices) \in Nat /\ DOMAIN invoices = 1..Len(invoices)
    BY <1>1, SeqDomain
  <1>5. IsSeq(known) /\ Len(known) = Len(invoices)
    <2>1. known = [i \in 1..Len(invoices) |-> known[i]]
      BY <1>4
    <2> QED
      BY <1>4, <2>1, FunctionIsSeq
  <1>6. /\ IsSeq(invoices') /\ DOMAIN invoices' = DOMAIN invoices \union {n}
        /\ \A i \in DOMAIN invoices : invoices'[i] = known[i]
        /\ invoices'[n] = inv /\ n \notin DOMAIN invoices
    <2>1. DOMAIN known = DOMAIN invoices
      OBVIOUS
    <2> HIDE DEF known, inv
    <2> QED
      BY <1>0, <1>3, <1>5, <2>1, AppendIsSeq
  <1>7. AllFollow
    <2>1. \A i \in DOMAIN invoices : Follows(invoices[i], invoices'[i])
      BY <1>1, <1>6, LateFollows
    <2> QED
      BY <1>6, <2>1 DEF AllFollow
  <1>8. /\ IsSeq(lines) /\ lines[1] = line
        /\ \A k \in DOMAIN lines : k # 1 => k - 1 \in DOMAIN FeeLines /\ lines[k] = FeeLines[k - 1]
    <2>1. IsSeq(<<line>>) /\ Len(<<line>>) = 1 /\ IsSeq(FeeLines)
      BY <1>1, OneIsSeq, FinesOfMonth
    <2>2. DOMAIN FeeLines = 1..Len(FeeLines) /\ Len(FeeLines) \in Nat
      BY <2>1, SeqDomain
    <2>3. /\ IsSeq(lines) /\ Len(lines) = 1 + Len(FeeLines)
          /\ \A k \in 1..(1 + Len(FeeLines)) :
                lines[k] = IF k <= 1 THEN <<line>>[k] ELSE FeeLines[k - 1]
      <3> DEFINE one == <<line>>
      <3>1. IsSeq(one) /\ Len(one) = 1
        BY <2>1
      <3> HIDE DEF one
      <3>2. /\ IsSeq(one \o FeeLines) /\ Len(one \o FeeLines) = Len(one) + Len(FeeLines)
            /\ \A k \in 1..(Len(one) + Len(FeeLines)) :
                  (one \o FeeLines)[k] = IF k <= Len(one) THEN one[k] ELSE FeeLines[k - Len(one)]
        BY <2>1, <3>1, ConcatIsSeq
      <3> QED
        BY <3>1, <3>2 DEF one
    <2> HIDE DEF lines
    <2>4. DOMAIN lines = 1..(1 + Len(FeeLines))
      BY <2>3, SeqDomain
    <2> QED
      BY <2>2, <2>3, <2>4
  <1>9. DueDate(start, today) \in Nat
    <2>1. MonthStart(start) \in Nat /\ terms.dueDay \in Nat
      BY <1>1, MonthStarts DEF SheetsOK
    <2> DEFINE d == MonthStart(start) + terms.dueDay
    <2>2. DueDate(start, today) = Max({d, today}) /\ d \in Nat
      BY <2>1 DEF DueDate
    <2> HIDE DEF d
    <2>3. Max({d, today}) = IF d >= today THEN d ELSE today
      <3>1. d \in Int /\ today \in Int
        BY <1>1, <2>2
      <3> QED
        BY <3>1, MaxOfTwo
    <2> QED
      BY <1>1, <2>2, <2>3
  <1> HIDE DEF lines
  <1>10. /\ DOMAIN inv = Fields /\ inv.start = start /\ inv.end = start + DaysInMonth - 1
         /\ inv.due = DueDate(start, today) /\ inv.status = FirstStatus /\ inv.through = NoDate
         /\ inv.lines = lines
    BY DEF NewInvoice, Fields
  <1>11. inv.status # "void"
    BY <1>10 DEF FirstStatus
  <1> HIDE DEF inv, known
  <1>12. \A k \in DOMAIN FeeLines :
            LET fine == FeeLines[k] IN
            /\ LineOK(fine) /\ fine.type = "late_fee" /\ fine.of \in LateInvoices
            /\ fine.from = FeeStart(invoices[fine.of]) /\ fine.upto = today
    BY <1>1, FinesOfMonth
  <1>13. SheetOK(inv)
    <2>1. \A k \in DOMAIN lines : LineOK(lines[k])
      BY <1>2, <1>8, <1>12
    <2> QED
      BY <1>8, <1>9, <1>10, <1>11, <2>1 DEF SheetOK
  <1>14. SheetsOK'
    BY <1>1, <1>3, <1>6, <1>7, <1>13, SheetsFollow DEF SheetsOK
  <1>15. \A k \in DOMAIN invoices'[n].lines :
            IF k = 1 THEN invoices'[n].lines[k] = line
            ELSE k - 1 \in DOMAIN FeeLines /\ invoices'[n].lines[k] = FeeLines[k - 1]
    BY <1>6, <1>8, <1>10
  <1>16. ASSUME NEW k \in DOMAIN invoices'[n].lines, Fee(n, k)'
         PROVE  LET fine == invoices'[n].lines[k] IN
                /\ k # 1 /\ k - 1 \in DOMAIN FeeLines /\ fine = FeeLines[k - 1]
                /\ fine.of \in DOMAIN invoices /\ fine.from \in Nat /\ fine.upto = today
                /\ invoices'[fine.of].through = today
                /\ invoices'[fine.of].due + terms.grace <= fine.from
                /\ invoices[fine.of].through <= fine.from
    <2> DEFINE fine == invoices'[n].lines[k]
    <2>1. k # 1 /\ k - 1 \in DOMAIN FeeLines /\ fine = FeeLines[k - 1]
      BY <1>2, <1>15, <1>16 DEF Fee
    <2>2. fine.of \in LateInvoices /\ fine.from = FeeStart(invoices[fine.of]) /\ fine.upto = today
      BY <1>12, <2>1
    <2> HIDE DEF fine
    <2>3. fine.of \in DOMAIN invoices
      BY <2>2 DEF LateInvoices
    <2>4. /\ FeeStart(invoices[fine.of]) \in Nat
          /\ FeeStart(invoices[fine.of]) >= invoices[fine.of].due + terms.grace
          /\ FeeStart(invoices[fine.of]) >= invoices[fine.of].through
      BY <1>1, <2>2, <2>3, LateFollows
    <2>5. SheetOK(invoices[fine.of]) /\ terms.grace \in Nat
      BY <1>1, <2>3 DEF SheetsOK
    <2>6. invoices'[fine.of] = [invoices[fine.of] EXCEPT !.through = today]
      BY <1>6, <2>2, <2>3 DEF known
    <2>7. invoices'[fine.of].through = today /\ invoices'[fine.of].due = invoices[fine.of].due
      BY <2>5, <2>6 DEF SheetOK, Fields
    <2>8. /\ invoices[fine.of].due + terms.grace <= fine.from
          /\ invoices[fine.of].through <= fine.from
      BY <2>2, <2>4, <2>5 DEF SheetOK, NoDate
    <2> QED
      BY <2>1, <2>2, <2>3, <2>4, <2>7, <2>8 DEF fine
  <1>17. FineInv'
    <2>1. /\ \A i \in DOMAIN invoices : \A k \in DOMAIN invoices'[i].lines : FineAt(i, k)'
          /\ \A i, j \in DOMAIN invoices :
                \A k \in DOMAIN invoices'[i].lines, m \in DOMAIN invoices'[j].lines :
                    FinesApartAt(i, k, j, m)'
      BY <1>1, <1>3, <1>7, FinesFollow DEF BillingInv
    <2>2. ASSUME NEW k \in DOMAIN invoices'[n].lines, Fee(n, k)'
          PROVE  FineAt(n, k)'
      <3>1. today <= today
        BY <1>1
      <3> QED
        BY <1>3, <1>6, <1>16, <2>2, <3>1 DEF FineAt
    <2>3. ASSUME NEW i \in DOMAIN invoices, NEW k \in DOMAIN invoices'[i].lines, Fee(i, k)',
                 NEW m \in DOMAIN invoices'[n].lines, Fee(n, m)',
                 invoices'[i].lines[k].of = invoices'[n].lines[m].of
          PROVE  /\ ~Overlap(invoices'[i].lines[k], invoices'[n].lines[m])
                 /\ ~Overlap(invoices'[n].lines[m], invoices'[i].lines[k])
      <3> DEFINE old == invoices'[i].lines[k]
                 fine == invoices'[n].lines[m]
      <3>1. /\ Was(i)[k] \in DOMAIN invoices[i].lines /\ invoices[i].lines[Was(i)[k]] = old
            /\ Fee(i, Was(i)[k])
        BY <1>7, <2>3, LinesWere DEF Fee
      <3>2. old.upto <= invoices[old.of].through /\ old.of \in DOMAIN invoices
        BY <3>1 DEF BillingInv, FineInv, FineAt
      <3>3. invoices[fine.of].through <= fine.from /\ fine.from \in Nat
        BY <1>16, <2>3
      <3>4. LineOK(old) /\ invoices[old.of].through \in Int
        BY <1>1, <3>1, <3>2 DEF SheetOK, NoDate
      <3>5. old.of = fine.of
        BY <2>3
      <3> HIDE DEF old, fine
      <3>6. old.upto <= fine.from
        BY <3>2, <3>3, <3>4, <3>5 DEF LineOK
      <3>7. ~(fine.from < old.upto)
        BY <3>3, <3>4, <3>6 DEF LineOK
      <3> QED
        BY <3>7 DEF Overlap, old, fine
    <2>4. ASSUME NEW k \in DOMAIN invoices'[n].lines, Fee(n, k)',
                 NEW m \in DOMAIN invoices'[n].lines, Fee(n, m)', k # m
          PROVE  invoices'[n].lines[k].of # invoices'[n].lines[m].of
      <3>1. DOMAIN lines = 1..Len(lines) /\ Len(lines) \in Nat /\ k \in Int /\ m \in Int
        <4>1. DOMAIN lines = 1..Len(lines) /\ Len(lines) \in Nat
          BY <1>8, SeqDomain
        <4> QED
          BY <1>6, <1>10, <4>1
      <3>2. k - 1 # m - 1
        BY <2>4, <3>1
      <3> QED
        BY <1>1, <1>16, <2>4, <3>2, FinesOfMonth
    <2>5. ASSUME NEW i \in DOMAIN invoices', NEW k \in DOMAIN invoices'[i].lines
          PROVE  FineAt(i, k)'
      <3>1. CASE i \in DOMAIN invoices
        BY <2>1, <3>1
      <3>2. CASE i = n
        BY <2>2, <3>2 DEF FineAt
      <3> QED
        BY <1>6, <3>1, <3>2
    <2>6. ASSUME NEW i \in DOMAIN invoices', NEW j \in DOMAIN invoices',
                 NEW k \in DOMAIN invoices'[i].lines, NEW m \in DOMAIN invoices'[j].lines
          PROVE  FinesApartAt(i, k, j, m)'
      <3>1. CASE i \in DOMAIN invoices /\ j \in DOMAIN invoices
        BY <2>1, <3>1
      <3>2. CASE i \in DOMAIN invoices /\ j = n
        BY <2>3, <3>2 DEF FinesApartAt, Overlap
      <3>3. CASE i = n /\ j \in DOMAIN invoices
        BY <2>3, <3>3 DEF FinesApartAt, Overlap
      <3>4. CASE i = n /\ j = n
        BY <2>4, <3>4 DEF FinesApartAt
      <3> QED
        BY <1>6, <3>1, <3>2, <3>3, <3>4
    <2> QED
      BY <2>5, <2>6 DEF FineInv
  <1>18. ASSUME NEW k \in DOMAIN invoices'[n].lines
         PROVE  ~Exit(n, k)' /\ (Plan(n, k)' <=> k = 1)
    BY <1>2, <1>12, <1>15 DEF Exit, Plan
  <1>19. ASSUME Billed
         PROVE  /\ \A i \in DOMAIN invoices' : \A k \in DOMAIN invoices'[i].lines :
                      PlanAt(i, k)' /\ ExitAt(i, k)'
                /\ \A i, j \in DOMAIN invoices' :
                      \A k \in DOMAIN invoices'[i].lines, m \in DOMAIN invoices'[j].lines :
                          /\ MonthsDifferAt(i, k, j, m)' /\ OneExitAt(i, k, j, m)'
                          /\ FeeApartAt(i, k, j, m)'
    <2>1. /\ \A i \in DOMAIN invoices : \A k \in DOMAIN invoices'[i].lines :
                PlanAt(i, k)' /\ ExitAt(i, k)'
          /\ \A i, j \in DOMAIN invoices :
                \A k \in DOMAIN invoices'[i].lines, m \in DOMAIN invoices'[j].lines :
                    /\ MonthsDifferAt(i, k, j, m)' /\ OneExitAt(i, k, j, m)'
                    /\ FeeApartAt(i, k, j, m)'
      <3>1. today' \in Nat /\ today <= today' /\ EndsMove
        BY <1>1, <1>3 DEF EndsMove
      <3> QED
        BY <1>1, <1>3, <1>7, <1>19, <3>1, PlansFollow DEF BillingInv
    <2>2. ASSUME NEW k \in DOMAIN invoices'[n].lines, Plan(n, k)'
          PROVE  PlanAt(n, k)'
      <3>1. k = 1 /\ invoices'[n].lines[k] = line
        BY <1>15, <1>18, <2>2
      <3>2. start <= today'
        BY <1>3, <1>19
      <3> QED
        BY <1>2, <1>6, <1>10, <1>18, <3>1, <3>2 DEF PlanAt
    <2>3. ASSUME NEW i \in DOMAIN invoices, NEW k \in DOMAIN invoices'[i].lines, Plan(i, k)',
                 Standing(i)'
          PROVE  invoices'[i].start # start
      <3>1. invoices'[i].end = invoices'[i].start + DaysInMonth - 1
        BY <2>1, <2>3 DEF PlanAt
      <3>2. /\ invoices'[i].start = invoices[i].start /\ invoices'[i].end = invoices[i].end
            /\ Standing(i)
        BY <1>7, <2>3 DEF AllFollow, Follows, Standing
      <3>3. invoices[i].status # "void"
        BY <1>1, <3>2 DEF SheetOK, Standing
      <3> QED
        BY <1>3, <3>1, <3>2, <3>3 DEF Generated
    <2>4. ASSUME NEW i \in DOMAIN invoices', NEW k \in DOMAIN invoices'[i].lines
          PROVE  PlanAt(i, k)' /\ ExitAt(i, k)'
      <3>1. CASE i \in DOMAIN invoices
        BY <2>1, <3>1
      <3>2. CASE i = n
        <4>1. PlanAt(i, k)'
          BY <2>2, <3>2 DEF PlanAt
        <4>2. ExitAt(i, k)'
          BY <1>18, <3>2 DEF ExitAt
        <4> QED
          BY <4>1, <4>2
      <3> QED
        BY <1>6, <3>1, <3>2
    <2>5. ASSUME NEW i \in DOMAIN invoices', NEW j \in DOMAIN invoices',
                 NEW k \in DOMAIN invoices'[i].lines, NEW m \in DOMAIN invoices'[j].lines
          PROVE  /\ MonthsDifferAt(i, k, j, m)' /\ OneExitAt(i, k, j, m)'
                 /\ FeeApartAt(i, k, j, m)'
      <3>1. CASE i \in DOMAIN invoices /\ j \in DOMAIN invoices
        BY <2>1, <3>1
      <3>2. CASE i = n \/ j = n
        <4>1. OneExitAt(i, k, j, m)'
          BY <1>18, <3>2 DEF OneExitAt
        <4>2. invoices'[n].start = start
          BY <1>6, <1>10
        <4>3. MonthsDifferAt(i, k, j, m)'
          BY <1>6, <2>3, <3>2, <4>2 DEF MonthsDifferAt
        <4>4. ASSUME Plan(i, k)', Exit(j, m)', Standing(j)'
              PROVE  invoices'[i].lines[k].upto <= sub'.ends
          <5>1. i = n /\ k = 1 /\ j \in DOMAIN invoices /\ invoices'[i].lines[k] = line
            BY <1>6, <1>15, <1>18, <3>2, <4>4
          <5>2. sub'.ends # NoDate
            BY <2>1, <4>4, <5>1 DEF ExitAt
          <5>3. terms.prorate /\ sub' = sub
            BY <1>3, <1>19 DEF Billed
          <5> QED
            BY <1>2, <5>1, <5>2, <5>3
        <4>5. FeeApartAt(i, k, j, m)'
          BY <4>4 DEF FeeApartAt
        <4> QED
          BY <4>1, <4>3, <4>5
      <3> QED
        BY <1>6, <3>1, <3>2
    <2> QED
      BY <2>4, <2>5
  <1>20. PlanInv'
    <2>1. Billed' => Billed
      BY <1>3 DEF Billed
    <2> QED
      BY <1>19, <2>1 DEF PlanInv
  <1> QED
    BY <1>14, <1>17, <1>20 DEF BillingInv

LEMMA MonthlyRun ==
    ASSUME BillingInv, RunMonthlyBilling \/ RunBillingForMonth
    PROVE  BillingInv'
  <1>1. today \in Nat /\ DaysInMonth \in Nat
    BY Calendar DEF BillingInv, SheetsOK
  <1>2. PICK q \in Nat : /\ MonthStart(today) = q * DaysInMonth /\ MonthStart(today) \in Nat
                         /\ MonthStart(today) <= today
    BY <1>1, MonthStarts
  <1>3. CASE RunMonthlyBilling
    BY <1>2, <1>3, MonthBilled DEF RunMonthlyBilling
  <1>4. CASE RunBillingForMonth
    <2> DEFINE start == MonthStart(today) + DaysInMonth
    <2>1. start \in Nat
      BY <1>1, <1>2
    <2>2. start = (q + 1) * DaysInMonth /\ q + 1 \in Nat
      <3>1. (q + 1) * DaysInMonth = q * DaysInMonth + DaysInMonth
        BY <1>1
      <3> QED
        BY <1>2, <3>1
    <2>3. ~Billed /\ Generate(start)
      BY <1>4 DEF RunBillingForMonth, Billed
    <2> HIDE DEF start
    <2> QED
      BY <2>1, <2>2, <2>3, MonthBilled
  <1> QED
    BY <1>3, <1>4
-----------------------------------------------------------------------------
(* The system *)

LEMMA BillingInit == Init => BillingInv
  <1> SUFFICES ASSUME Init PROVE BillingInv
    OBVIOUS
  <1>1. PICK c \in Cases : terms = c.terms
    BY DEF Init
  <1>2. {terms.start, terms.notice, terms.lockIn, terms.dueDay, terms.grace} \subseteq Nat
    BY <1>1, DaysOfTerms
  <1>3. /\ today = 0 /\ sub = [status |-> "active", ends |-> NoDate, backdated |-> FALSE]
        /\ invoices = DepositInvoice(terms)
    BY DEF Init
  <1>4. CASE invoices = <<>>
    <2>1. IsSeq(invoices) /\ DOMAIN invoices = {}
      BY <1>4, EmptyIsSeq
    <2>2. SheetsOK
      BY <1>2, <1>3, <2>1 DEF SheetsOK
    <2> QED
      BY <2>1, <2>2 DEF BillingInv, FineInv, PlanInv
  <1>5. CASE invoices # <<>>
    <2> DEFINE lines == <<Other("deposit", terms.deposit)>>
               inv == NewInvoice(terms.start, terms.start, terms.start,
                                 IF terms.autoSend THEN "issued" ELSE "draft", lines)
    <2>1. invoices = <<inv>>
      BY <1>3, <1>5 DEF DepositInvoice
    <2>2. /\ IsSeq(lines) /\ DOMAIN lines = {1} /\ lines[1].type = "deposit"
          /\ lines[1].of = 0 /\ lines[1].from = 0 /\ lines[1].upto = 0
      BY OneIsSeq DEF Other
    <2> HIDE DEF lines
    <2>3. /\ DOMAIN inv = Fields /\ inv.start = terms.start /\ inv.due = terms.start
          /\ inv.status # "void" /\ inv.through = NoDate /\ inv.lines = lines
      BY DEF NewInvoice, Fields
    <2> HIDE DEF inv
    <2>4. IsSeq(invoices) /\ DOMAIN invoices = {1} /\ invoices[1] = inv
      BY <2>1, OneIsSeq
    <2>5. SheetOK(inv)
      BY <1>2, <2>2, <2>3 DEF SheetOK, LineOK
    <2>6. SheetsOK
      BY <1>2, <1>3, <2>4, <2>5 DEF SheetsOK
    <2>7. \A i \in DOMAIN invoices : \A k \in DOMAIN invoices[i].lines :
              ~Fee(i, k) /\ ~Plan(i, k) /\ ~Exit(i, k)
      BY <2>2, <2>3, <2>4 DEF Fee, Plan, Exit
    <2> QED
      BY <2>6, <2>7 DEF BillingInv, FineInv, PlanInv, FineAt, FinesApartAt, PlanAt, ExitAt,
                        MonthsDifferAt, OneExitAt, FeeApartAt
  <1> QED
    BY <1>4, <1>5

LEMMA BillingStep == BillingInv /\ [Next]_vars => BillingInv'
  <1> SUFFICES ASSUME BillingInv, [Next]_vars PROVE BillingInv'
    OBVIOUS
  <1> USE DEF agreement, paid
  <1>1. CASE UNCHANGED vars
    BY <1>1, AllAsBefore DEF vars
  <1>2. CASE AdvanceDay
    <2>1. today \in Nat /\ DOMAIN sub = {"status", "ends", "backdated"} /\ sub.ends \in Nat \union {NoDate}
      BY DEF BillingInv, SheetsOK
    <2>2. UNCHANGED <<terms, desk, invoices, sub>> /\ today' = today + 1
      BY <1>2 DEF AdvanceDay
    <2> QED
      BY <2>1, <2>2, InvoiceKept DEF EndsMove
  <1>3. CASE RunMonthlyBilling \/ RunBillingForMonth
    BY <1>3, MonthlyRun
  <1>4. CASE IssueDrafts
    BY <1>4, DraftsIssued
  <1>5. ASSUME NEW i \in DOMAIN invoices, OnInvoice(i)
        PROVE  BillingInv'
    <2>1. CASE \/ \E amount \in Parts : LineAdd(i, amount)
               \/ \E k \in DOMAIN invoices[i].lines : LineDelete(i, k)
      BY <2>1, LinesEdited
    <2>2. CASE Issue(i) \/ Void(i)
      BY <2>2, StatusSet
    <2>3. ASSUME NEW amount, PaymentNew(i, amount)
          PROVE  BillingInv'
      BY <2>3, Received DEF PaymentNew
    <2>4. ASSUME NEW amount, PaymentSubmissionNew(i, amount) \/ CreditNoteNew(i, amount)
          PROVE  BillingInv'
      BY <2>4, AllAsBefore DEF PaymentSubmissionNew, CreditNoteNew
    <2> QED
      BY <1>5, <2>1, <2>2, <2>3, <2>4 DEF OnInvoice
  <1>6. ASSUME NEW k, SubmissionAccept(k)
        PROVE  BillingInv'
    BY <1>6, Received DEF SubmissionAccept
  <1>7. ASSUME NEW k, CreditNoteApply(k) \/ RefundComplete(k)
        PROVE  BillingInv'
    BY <1>7, MoneyMoves
  <1>8. ASSUME NEW k, SubmissionReject(k) \/ CreditNoteCancel(k) \/ RefundFail(k)
        PROVE  BillingInv'
    BY <1>8, AllAsBefore DEF SubmissionReject, CreditNoteCancel, RefundFail
  <1>9. ASSUME NEW p, NEW amount, RefundNew(p, amount)
        PROVE  BillingInv'
    BY <1>9, AllAsBefore DEF RefundNew
  <1>10. ASSUME NEW type, NEW amount, DepositEntry(type, amount)
         PROVE  BillingInv'
    BY <1>10, AllAsBefore DEF DepositEntry
  <1>11. ASSUME NEW on \in NoticeDates, GiveNotice(on)
         PROVE  BillingInv'
    BY <1>11, Notices, NoticeGiven
  <1>12. CASE WithdrawNotice
    BY <1>12, NoticeWithdrawn
  <1>13. CASE EndTerminated
    <2>1. /\ UNCHANGED <<terms, desk, invoices, today>> /\ today \in Nat
          /\ DOMAIN sub' = {"status", "ends", "backdated"} /\ sub'.ends = sub.ends
          /\ sub'.ends \in Nat \union {NoDate} /\ sub'.backdated = sub.backdated
      BY <1>13 DEF EndTerminated, BillingInv, SheetsOK
    <2> QED
      BY <2>1, InvoiceKept DEF EndsMove
  <1>14. ASSUME NEW k, ProposeRevisions \/ RevisionConfirm(k) \/ RevisionDismiss(k)
         PROVE  BillingInv'
    BY <1>14, AllAsBefore DEF ProposeRevisions, RevisionConfirm, RevisionDismiss
  <1> QED
    BY <1>1, <1>2, <1>3, <1>4, <1>5, <1>6, <1>7, <1>8, <1>9, <1>10, <1>11, <1>12, <1>13, <1>14
       DEF Next

\* The months that are billed, and the fee for leaving, charge for different days.
LEMMA DaysBilledApart == BillingInv => NoDayBilledTwice
  <1> SUFFICES ASSUME BillingInv, Billed,
                      NEW i \in DOMAIN invoices, NEW k \in DOMAIN invoices[i].lines,
                      NEW j \in DOMAIN invoices, NEW m \in DOMAIN invoices[j].lines,
                      Plan(i, k) \/ Exit(i, k), Plan(j, m) \/ Exit(j, m), Standing(i), Standing(j),
                      i # j \/ k # m
               PROVE  \/ ~Overlap(invoices[i].lines[k], invoices[j].lines[m])
                      \/ sub.backdated /\ i < j /\ Plan(i, k) /\ Exit(j, m)
                      \/ sub.backdated /\ j < i /\ Plan(j, m) /\ Exit(i, k)
    BY DEF NoDayBilledTwice, Billed, Lines, AllLines, LineAt, Plan, Exit, Standing
  <1> DEFINE a == invoices[i].lines[k]
             b == invoices[j].lines[m]
  <1>1. /\ PlanAt(i, k) /\ ExitAt(i, k) /\ PlanAt(j, m) /\ ExitAt(j, m)
        /\ MonthsDifferAt(i, k, j, m) /\ OneExitAt(i, k, j, m)
        /\ FeeApartAt(i, k, j, m) /\ FeeApartAt(j, m, i, k)
    BY DEF BillingInv, PlanInv
  <1>2. /\ a.from \in Nat /\ a.upto \in Nat /\ b.from \in Nat /\ b.upto \in Nat
        /\ invoices[i].start \in Nat /\ invoices[j].start \in Nat /\ DaysInMonth \in Nat
    BY Calendar DEF BillingInv, SheetsOK, SheetOK, LineOK
  <1>3. CASE Plan(i, k) /\ Plan(j, m)
    <2>1. i # j
      BY <1>1, <1>3 DEF PlanAt
    <2>2. PICK q \in Nat, r \in Nat : invoices[i].start = q * DaysInMonth /\ invoices[j].start = r * DaysInMonth
      BY <1>1, <1>3 DEF PlanAt
    <2>3. invoices[i].start # invoices[j].start
      BY <1>1, <1>3, <2>1 DEF MonthsDifferAt
    <2>4. \/ invoices[i].start + DaysInMonth <= invoices[j].start
          \/ invoices[j].start + DaysInMonth <= invoices[i].start
      BY <2>2, <2>3, MonthsApart
    <2>5. /\ invoices[i].start <= a.from /\ a.upto <= invoices[i].start + DaysInMonth
          /\ invoices[j].start <= b.from /\ b.upto <= invoices[j].start + DaysInMonth
      BY <1>1, <1>3 DEF PlanAt
    <2> HIDE DEF a, b
    <2>6. ~(a.from < b.upto) \/ ~(b.from < a.upto)
      BY <1>2, <2>4, <2>5
    <2> QED
      BY <2>6 DEF Overlap, a, b
  <1>4. CASE Plan(i, k) /\ Exit(j, m)
    <2>1. b.from = sub.ends /\ (a.upto <= sub.ends \/ (sub.backdated /\ i < j))
      BY <1>1, <1>4 DEF FeeApartAt, ExitAt
    <2> HIDE DEF a, b
    <2>2. a.upto <= b.from => ~(b.from < a.upto)
      BY <1>2
    <2> QED
      BY <1>4, <2>1, <2>2 DEF Overlap, a, b
  <1>5. CASE Exit(i, k) /\ Plan(j, m)
    <2>1. a.from = sub.ends /\ (b.upto <= sub.ends \/ (sub.backdated /\ j < i))
      BY <1>1, <1>5 DEF FeeApartAt, ExitAt
    <2> HIDE DEF a, b
    <2>2. b.upto <= a.from => ~(a.from < b.upto)
      BY <1>2
    <2> QED
      BY <1>5, <2>1, <2>2 DEF Overlap, a, b
  <1>6. CASE Exit(i, k) /\ Exit(j, m)
    BY <1>1, <1>6 DEF OneExitAt
  <1> QED
    BY <1>3, <1>4, <1>5, <1>6

LEMMA DaysFinedApart == BillingInv => NoDayFinedTwice
  <1> SUFFICES ASSUME BillingInv PROVE NoDayFinedTwice
    OBVIOUS
  <1>1. \A l \in Lines({"late_fee"}) :
            /\ l = <<l[1], l[2]>> /\ l[1] \in DOMAIN invoices /\ l[2] \in DOMAIN invoices[l[1]].lines
            /\ Fee(l[1], l[2]) /\ LineAt(l) = invoices[l[1]].lines[l[2]]
    BY DEF Lines, AllLines, Fee, LineAt
  <1>2. ASSUME NEW l \in Lines({"late_fee"}), NEW m \in Lines({"late_fee"}), l # m,
               LineAt(l).of = LineAt(m).of
        PROVE  ~Overlap(LineAt(l), LineAt(m))
    <2>1. l[1] # m[1] \/ l[2] # m[2]
      BY <1>1, <1>2
    <2>2. FinesApartAt(l[1], l[2], m[1], m[2])
      BY <1>1 DEF BillingInv, FineInv
    <2> QED
      BY <1>1, <1>2, <2>1, <2>2 DEF FinesApartAt
  <1>3. ASSUME NEW l \in Lines({"late_fee"})
        PROVE  LineAt(l).from >= invoices[LineAt(l).of].due + terms.grace
    <2> DEFINE line == LineAt(l)
    <2>1. FineAt(l[1], l[2])
      BY <1>1 DEF BillingInv, FineInv
    <2>2. line.of \in DOMAIN invoices /\ invoices[line.of].due + terms.grace <= line.from
      BY <1>1, <2>1 DEF FineAt
    <2>3. line.from \in Nat /\ invoices[line.of].due \in Nat /\ terms.grace \in Nat
      BY <1>1, <2>2 DEF BillingInv, SheetsOK, SheetOK, LineOK
    <2> QED
      BY <2>2, <2>3
  <1> QED
    BY <1>2, <1>3 DEF NoDayFinedTwice

\* No day of an agreement is charged twice by the monthly run and the fee for leaving early, however
\* notice is given and withdrawn, nor fined twice, whatever is voided, edited, paid, refunded and run
\* again (_generate, _add_late_fees, give_notice, withdraw_notice of billing_service.py).
THEOREM DaysAreChargedOnce == Spec => []NoDayChargedTwice
  <1>1. BillingInv => NoDayChargedTwice
    BY DaysBilledApart, DaysFinedApart DEF NoDayChargedTwice
  <1> QED
    BY <1>1, BillingInit, BillingStep, PTL DEF Spec
-----------------------------------------------------------------------------
(* Sums.  The element a fold takes next, and what is left. *)

LEMMA Least ==
    ASSUME NEW S \in SUBSET Nat, S # {}
    PROVE  \E x \in S : \A y \in S : x <= y
  <1>1. PICK x \in S : \A y \in S : <<y, x>> \notin OpToRel(<, Nat)
    BY NatLessThanWellFounded, WFMin, Zenon
  <1>2. \A y \in S : ~(y < x)
    BY <1>1 DEF OpToRel
  <1> QED
    BY <1>2

Picked(S) == CHOOSE x \in S : TRUE
Rest(S) == S \ {Picked(S)}

\* Induction over finite sets, stated of a set of subsets.
LEMMA SetsByPicking ==
    ASSUME NEW S, IsFiniteSet(S), NEW F, {} \in F,
           \A T \in SUBSET S : T # {} /\ Rest(T) \in F => T \in F
    PROVE  \A T \in SUBSET S : T \in F
  <1> DEFINE Bad == {T \in SUBSET S : T \notin F}
             Counts == {Cardinality(T) : T \in Bad}
  <1>1. \A T \in SUBSET S : IsFiniteSet(T) /\ Cardinality(T) \in Nat
    BY FS_Subset, FS_CardinalityType
  <1>2. ASSUME Bad # {}
        PROVE  FALSE
    <2>1. Counts \in SUBSET Nat /\ Counts # {}
      BY <1>1, <1>2
    <2>2. PICK n \in Counts : \A m \in Counts : n <= m
      BY <2>1, Least
    <2>3. PICK T \in Bad : Cardinality(T) = n
      BY <2>2
    <2>4. T # {} /\ T \in SUBSET S
      BY <2>3
    <2>5. Picked(T) \in T
      BY <2>4 DEF Picked
    <2>6. Rest(T) \in SUBSET S /\ Cardinality(Rest(T)) = Cardinality(T) - 1
      BY <1>1, <2>4, <2>5, FS_RemoveElement DEF Rest
    <2>7. Cardinality(Rest(T)) \notin Counts
      BY <1>1, <2>1, <2>2, <2>3, <2>4, <2>6
    <2>8. Rest(T) \in F
      BY <2>6, <2>7
    <2> QED
      BY <2>3, <2>4, <2>8
  <1> QED
    BY <1>2

\* g is the fold of f over the subsets of S.
Fold(f, S, g) ==
    g = [s \in SUBSET S |-> IF s = {} THEN 0 ELSE f[Picked(s)] + g[Rest(s)]]

TheFold(f, S) == CHOOSE g : Fold(f, S, g)

LEMMA SumIsFold ==
    ASSUME NEW f, NEW S
    PROVE  SumFunctionOnSet(f, S) = TheFold(f, S)[S]
  BY Zenon DEF SumFunctionOnSet, FoldFunctionOnSet, MapThenFoldSet, TheFold, Fold, Picked, Rest


\* Folds over the subsets of at most n elements exist, of any n.
Small(S, n) == {T \in SUBSET S : Cardinality(T) <= n}
FoldTo(f, S, n, g) ==
    g = [s \in Small(S, n) |-> IF s = {} THEN 0 ELSE f[Picked(s)] + g[Rest(s)]]

LEMMA RestIsSmaller ==
    ASSUME NEW T, IsFiniteSet(T), T # {}
    PROVE  /\ Picked(T) \in T /\ IsFiniteSet(Rest(T)) /\ Rest(T) \subseteq T
           /\ Cardinality(T) \in Nat /\ Cardinality(Rest(T)) = Cardinality(T) - 1
  <1>1. Picked(T) \in T
    BY DEF Picked
  <1> QED
    BY <1>1, FS_RemoveElement, FS_CardinalityType, FS_Subset DEF Rest

LEMMA FoldExists ==
    ASSUME NEW f, NEW S, IsFiniteSet(S)
    PROVE  Fold(f, S, TheFold(f, S))
  <1> DEFINE Bad == {n \in Nat : ~\E g : FoldTo(f, S, n, g)}
  <1>0. \A T \in SUBSET S : IsFiniteSet(T) /\ Cardinality(T) \in Nat
    BY FS_Subset, FS_CardinalityType
  <1>1. FoldTo(f, S, 0, [s \in Small(S, 0) |-> 0])
    <2>1. \A s \in Small(S, 0) : s = {}
      BY <1>0, FS_EmptySet DEF Small
    <2> QED
      BY <2>1 DEF FoldTo
  <1>2. ASSUME NEW n \in Nat, NEW g, FoldTo(f, S, n, g)
        PROVE  \E h : FoldTo(f, S, n + 1, h)
    <2> DEFINE h == [s \in Small(S, n + 1) |-> IF s = {} THEN 0 ELSE f[Picked(s)] + g[Rest(s)]]
    <2>1. \A s \in Small(S, n) : s \in Small(S, n + 1)
      BY <1>0 DEF Small
    <2>2. \A s \in Small(S, n) : g[s] = IF s = {} THEN 0 ELSE f[Picked(s)] + g[Rest(s)]
      BY <1>2 DEF FoldTo
    <2>3. \A s \in Small(S, n) : h[s] = g[s]
      BY <2>1, <2>2
    <2>4. \A s \in Small(S, n + 1) : s # {} => Rest(s) \in Small(S, n)
      BY <1>0, RestIsSmaller DEF Small
    <2>5. \A s \in Small(S, n + 1) : h[s] = IF s = {} THEN 0 ELSE f[Picked(s)] + h[Rest(s)]
      BY <2>3, <2>4
    <2>6. h = [s \in Small(S, n + 1) |-> h[s]]
      OBVIOUS
    <2> HIDE DEF h
    <2> QED
      BY <2>5, <2>6 DEF FoldTo
  <1>3. Bad = {}
    <2> SUFFICES ASSUME Bad # {} PROVE FALSE
      OBVIOUS
    <2>1. PICK n \in Bad : \A m \in Bad : n <= m
      BY Least
    <2>2. n # 0
      BY <1>1
    <2>3. n - 1 \in Nat /\ n - 1 \notin Bad
      BY <2>1, <2>2
    <2>4. PICK g : FoldTo(f, S, n - 1, g)
      BY <2>3
    <2>5. \E h : FoldTo(f, S, (n - 1) + 1, h)
      BY <1>2, <2>3, <2>4
    <2>6. (n - 1) + 1 = n
      OBVIOUS
    <2> QED
      BY <2>5, <2>6
  <1>4. PICK g : FoldTo(f, S, Cardinality(S), g)
    BY <1>0, <1>3
  <1>5. Small(S, Cardinality(S)) = SUBSET S
    BY <1>0, FS_Subset DEF Small
  <1>6. Fold(f, S, g)
    BY <1>4, <1>5 DEF FoldTo, Fold
  <1> QED
    BY <1>6, Zenon DEF TheFold

LEMMA FoldUnique ==
    ASSUME NEW f, NEW S, IsFiniteSet(S), NEW g, Fold(f, S, g),
           NEW T \in SUBSET S, NEW h, Fold(f, T, h)
    PROVE  \A s \in SUBSET T : g[s] = h[s]
  <1> DEFINE F == {s \in SUBSET T : g[s] = h[s]}
  <1>1. \A s \in SUBSET S : g[s] = IF s = {} THEN 0 ELSE f[Picked(s)] + g[Rest(s)]
    BY DEF Fold
  <1>2. \A s \in SUBSET T : h[s] = IF s = {} THEN 0 ELSE f[Picked(s)] + h[Rest(s)]
    BY DEF Fold
  <1>3. {} \in F
    BY <1>1, <1>2
  <1>4. \A s \in SUBSET T : s # {} /\ Rest(s) \in F => s \in F
    BY <1>1, <1>2
  <1>5. IsFiniteSet(T)
    BY FS_Subset
  <1> HIDE DEF F
  <1>6. \A s \in SUBSET T : s \in F
    BY <1>3, <1>4, <1>5, SetsByPicking
  <1> QED
    BY <1>6 DEF F

LEMMA SumOfNone ==
    ASSUME NEW f
    PROVE  SumFunctionOnSet(f, {}) = 0
  <1>1. Fold(f, {}, TheFold(f, {}))
    BY FoldExists, FS_EmptySet
  <1> QED
    BY <1>1, SumIsFold DEF Fold

LEMMA SumByPicking ==
    ASSUME NEW f, NEW S, IsFiniteSet(S), S # {}
    PROVE  SumFunctionOnSet(f, S) = f[Picked(S)] + SumFunctionOnSet(f, Rest(S))
  <1> DEFINE g == TheFold(f, S)
             h == TheFold(f, Rest(S))
  <1>1. Rest(S) \in SUBSET S /\ IsFiniteSet(Rest(S))
    BY RestIsSmaller
  <1>2. Fold(f, S, g) /\ Fold(f, Rest(S), h)
    BY <1>1, FoldExists
  <1>3. SumFunctionOnSet(f, S) = g[S] /\ SumFunctionOnSet(f, Rest(S)) = h[Rest(S)]
    BY SumIsFold
  <1> HIDE DEF g, h
  <1>4. g[Rest(S)] = h[Rest(S)]
    BY <1>1, <1>2, FoldUnique
  <1>5. g[S] = f[Picked(S)] + g[Rest(S)]
    BY <1>2 DEF Fold
  <1> QED
    BY <1>3, <1>4, <1>5

LEMMA SumsAreNumbers ==
    ASSUME NEW f, NEW S, IsFiniteSet(S), \A x \in S : f[x] \in Int
    PROVE  /\ SumFunctionOnSet(f, S) \in Int
           /\ (\A x \in S : f[x] \in Nat) => SumFunctionOnSet(f, S) \in Nat
  <1> DEFINE F == {T \in SUBSET S : /\ SumFunctionOnSet(f, T) \in Int
                                    /\ (\A x \in T : f[x] \in Nat) => SumFunctionOnSet(f, T) \in Nat}
  <1>1. {} \in F
    BY SumOfNone
  <1>2. ASSUME NEW T \in SUBSET S, T # {}, Rest(T) \in F
        PROVE  T \in F
    <2> DEFINE rest == SumFunctionOnSet(f, Rest(T))
    <2>1. IsFiniteSet(T)
      BY FS_Subset
    <2>2. SumFunctionOnSet(f, T) = f[Picked(T)] + rest /\ Picked(T) \in T /\ Rest(T) \subseteq T
      BY <1>2, <2>1, SumByPicking, RestIsSmaller
    <2>3. rest \in Int /\ ((\A x \in T : f[x] \in Nat) => rest \in Nat)
      BY <1>2, <2>2
    <2> HIDE DEF rest
    <2> QED
      BY <2>2, <2>3
  <1> HIDE DEF F
  <1>3. S \in F
    BY <1>1, <1>2, SetsByPicking
  <1> QED
    BY <1>3 DEF F

LEMMA SumOfTheSame ==
    ASSUME NEW f, NEW g, NEW S, IsFiniteSet(S), \A x \in S : f[x] = g[x]
    PROVE  SumFunctionOnSet(f, S) = SumFunctionOnSet(g, S)
  <1> DEFINE F == {T \in SUBSET S : SumFunctionOnSet(f, T) = SumFunctionOnSet(g, T)}
  <1>1. {} \in F
    BY SumOfNone
  <1>2. ASSUME NEW T \in SUBSET S, T # {}, Rest(T) \in F
        PROVE  T \in F
    <2>1. IsFiniteSet(T)
      BY FS_Subset
    <2>2. /\ SumFunctionOnSet(f, T) = f[Picked(T)] + SumFunctionOnSet(f, Rest(T))
          /\ SumFunctionOnSet(g, T) = g[Picked(T)] + SumFunctionOnSet(g, Rest(T))
          /\ Picked(T) \in T
      BY <1>2, <2>1, SumByPicking, RestIsSmaller
    <2> QED
      BY <1>2, <2>2
  <1> HIDE DEF F
  <1>3. S \in F
    BY <1>1, <1>2, SetsByPicking
  <1> QED
    BY <1>3 DEF F

\* An element counts once, whichever is taken first.
Takes(f, T) == \A z \in T : SumFunctionOnSet(f, T) = f[z] + SumFunctionOnSet(f, T \ {z})

LEMMA SumWithout ==
    ASSUME NEW f, NEW S, IsFiniteSet(S), \A x \in S : f[x] \in Int, NEW y \in S
    PROVE  SumFunctionOnSet(f, S) = f[y] + SumFunctionOnSet(f, S \ {y})
  <1> DEFINE F == {T \in SUBSET S : \A V \in SUBSET S :
                      Cardinality(V) = Cardinality(T) => Takes(f, V)}
             Sum(T) == SumFunctionOnSet(f, T)
  <1>0. \A T \in SUBSET S : /\ IsFiniteSet(T) /\ Cardinality(T) \in Nat
                            /\ Cardinality(T) = 0 <=> T = {}
    BY FS_Subset, FS_CardinalityType, FS_EmptySet
  <1>1. {} \in F
    BY <1>0 DEF Takes
  <1>2. ASSUME NEW T \in SUBSET S, T # {}, Rest(T) \in F
        PROVE  T \in F
    <2> SUFFICES ASSUME NEW V \in SUBSET S, Cardinality(V) = Cardinality(T), NEW z \in V
                 PROVE  Sum(V) = f[z] + Sum(V \ {z})
      BY DEF Takes
    <2> DEFINE p == Picked(V)
               U == V \ {z}
               both == Rest(V) \ {z}
    <2>1. V # {} /\ IsFiniteSet(V)
      BY <1>0, <1>2
    <2>2. Sum(V) = f[p] + Sum(Rest(V)) /\ p \in V /\ Rest(V) = V \ {p}
      BY <2>1, SumByPicking, RestIsSmaller DEF Rest
    <2>3. Cardinality(Rest(V)) = Cardinality(Rest(T)) /\ Cardinality(U) = Cardinality(Rest(T))
      BY <1>0, <1>2, <2>1, RestIsSmaller, FS_RemoveElement
    <2>4. Takes(f, Rest(V)) /\ Takes(f, U)
      <3>1. Rest(V) \in SUBSET S /\ U \in SUBSET S
        BY <2>2
      <3> QED
        BY <1>2, <2>3, <3>1
    <2>5. CASE z = p
      BY <2>2, <2>5
    <2>6. CASE z # p
      <3>1. Sum(Rest(V)) = f[z] + Sum(both)
        BY <2>2, <2>4, <2>6 DEF Takes
      <3>2. p \in U /\ U \ {p} = both
        BY <2>2, <2>6
      <3>3. Sum(U) = f[p] + Sum(both)
        BY <2>4, <3>2 DEF Takes
      <3>4. Sum(both) \in Int
        <4>1. IsFiniteSet(both) /\ both \subseteq S
          BY <1>0, <2>2
        <4> QED
          BY <4>1, SumsAreNumbers
      <3>5. f[p] \in Int /\ f[z] \in Int
        BY <2>2
      <3> DEFINE n == Sum(both)
      <3> HIDE DEF n
      <3>6. Sum(V) = f[p] + (f[z] + n) /\ Sum(U) = f[p] + n
        BY <2>2, <3>1, <3>3 DEF n
      <3> QED
        BY <3>4, <3>5, <3>6 DEF n
    <2> QED
      BY <2>5, <2>6
  <1> HIDE DEF F
  <1>3. S \in F
    BY <1>1, <1>2, SetsByPicking
  <1> QED
    BY <1>3 DEF F, Takes

\* A sum one of whose terms changes.
LEMMA SumWithOneChanged ==
    ASSUME NEW f, NEW g, NEW S, IsFiniteSet(S), NEW y \in S,
           \A x \in S : f[x] \in Int /\ g[x] \in Int,
           \A x \in S \ {y} : g[x] = f[x]
    PROVE  /\ SumFunctionOnSet(f, S) \in Int
           /\ SumFunctionOnSet(g, S) = SumFunctionOnSet(f, S) - f[y] + g[y]
  <1> DEFINE others == SumFunctionOnSet(f, S \ {y})
  <1>1. IsFiniteSet(S \ {y})
    BY FS_Subset
  <1>2. others \in Int /\ others = SumFunctionOnSet(g, S \ {y})
    BY <1>1, SumsAreNumbers, SumOfTheSame
  <1>3. SumFunctionOnSet(f, S) = f[y] + others /\ SumFunctionOnSet(g, S) = g[y] + others
    BY <1>2, SumWithout
  <1>4. f[y] \in Int /\ g[y] \in Int
    OBVIOUS
  <1> HIDE DEF others
  <1> QED
    BY <1>2, <1>3, <1>4

LEMMA SumOfTwoSets ==
    ASSUME NEW f, NEW S, NEW T, IsFiniteSet(S \union T), S \intersect T = {},
           \A x \in S \union T : f[x] \in Int
    PROVE  /\ SumFunctionOnSet(f, S) \in Int /\ SumFunctionOnSet(f, T) \in Int
           /\ SumFunctionOnSet(f, S \union T) = SumFunctionOnSet(f, S) + SumFunctionOnSet(f, T)
  <1> DEFINE Sum(U) == SumFunctionOnSet(f, U)
             F == {U \in SUBSET T : Sum(S \union U) = Sum(S) + Sum(U)}
  <1>0. \A U \in SUBSET (S \union T) : IsFiniteSet(U) /\ Sum(U) \in Int
    <2> SUFFICES ASSUME NEW U \in SUBSET (S \union T) PROVE IsFiniteSet(U) /\ Sum(U) \in Int
      OBVIOUS
    <2>1. IsFiniteSet(U) /\ \A x \in U : f[x] \in Int
      BY FS_Subset
    <2> QED
      BY <2>1, SumsAreNumbers
  <1>1. {} \in F
    <2>1. Sum({}) = 0 /\ Sum(S) \in Int /\ S \union {} = S
      BY <1>0, SumOfNone
    <2> QED
      BY <2>1
  <1>2. ASSUME NEW U \in SUBSET T, U # {}, Rest(U) \in F
        PROVE  U \in F
    <2> DEFINE p == Picked(U)
               V == S \union U
    <2>1. IsFiniteSet(U) /\ IsFiniteSet(V) /\ \A x \in V : f[x] \in Int
      BY <1>0
    <2>2. Sum(U) = f[p] + Sum(Rest(U)) /\ p \in U /\ Rest(U) = U \ {p}
      BY <1>2, <2>1, SumByPicking, RestIsSmaller DEF Rest
    <2>3. V \ {p} = S \union Rest(U) /\ p \in V
      BY <2>2
    <2>4. Sum(V) = f[p] + Sum(S \union Rest(U))
      BY <2>1, <2>3, SumWithout
    <2>5. Sum(S \union Rest(U)) = Sum(S) + Sum(Rest(U))
      BY <1>2
    <2>6. f[p] \in Int /\ Sum(S) \in Int /\ Sum(Rest(U)) \in Int
      BY <1>0, <2>1, <2>2, <2>3
    <2> HIDE DEF Sum, p
    <2>7. Sum(V) = Sum(S) + Sum(U)
      BY <2>2, <2>4, <2>5, <2>6
    <2> QED
      BY <2>7
  <1>3. IsFiniteSet(T)
    BY <1>0
  <1> HIDE DEF F
  <1>4. T \in F
    BY <1>1, <1>2, <1>3, SetsByPicking
  <1> QED
    BY <1>0, <1>4 DEF F
-----------------------------------------------------------------------------
(* The rows of a table *)

Amount(rows) == [k \in DOMAIN rows |-> rows[k].amount]
Counted(rows) == IsSeq(rows) /\ \A k \in DOMAIN rows : rows[k].amount \in Nat

LEMMA RowsAreFinite ==
    ASSUME NEW rows, IsSeq(rows)
    PROVE  IsFiniteSet(DOMAIN rows) /\ \A S \in SUBSET DOMAIN rows : IsFiniteSet(S)
  <1>1. IsFiniteSet(DOMAIN rows)
    BY SeqDomain, FS_Interval
  <1> QED
    BY <1>1, FS_Subset

LEMMA SumIsANumber ==
    ASSUME NEW rows, Counted(rows), NEW S \in SUBSET DOMAIN rows
    PROVE  SumOver(rows, S) \in Nat
  <1>1. IsFiniteSet(S)
    BY RowsAreFinite DEF Counted
  <1>2. \A x \in S : Amount(rows)[x] \in Nat
    BY DEF Counted, Amount
  <1>3. SumFunctionOnSet(Amount(rows), S) \in Nat
    BY <1>1, <1>2, SumsAreNumbers
  <1> QED
    BY <1>3 DEF SumOver, Amount

LEMMA NothingToSum ==
    ASSUME NEW rows
    PROVE  SumOver(rows, {}) = 0
  BY SumOfNone DEF SumOver

LEMMA SumOfOneMore ==
    ASSUME NEW rows, Counted(rows), NEW S \in SUBSET DOMAIN rows, NEW k \in DOMAIN rows \ S
    PROVE  SumOver(rows, S \union {k}) = SumOver(rows, S) + rows[k].amount
  <1>1. IsFiniteSet(S \union {k}) /\ (S \union {k}) \ {k} = S
    BY RowsAreFinite DEF Counted
  <1>2. \A x \in S \union {k} : Amount(rows)[x] \in Nat
    BY DEF Counted, Amount
  <1>3. SumFunctionOnSet(Amount(rows), S \union {k})
          = Amount(rows)[k] + SumFunctionOnSet(Amount(rows), S)
    BY <1>1, <1>2, SumWithout
  <1>4. SumOver(rows, S) \in Nat /\ rows[k].amount \in Nat
    BY SumIsANumber DEF Counted
  <1>5. SumOver(rows, S \union {k}) = rows[k].amount + SumOver(rows, S)
    BY <1>3 DEF SumOver, Amount
  <1> QED
    BY <1>4, <1>5

LEMMA SumOfBoth ==
    ASSUME NEW rows, Counted(rows), NEW S \in SUBSET DOMAIN rows, NEW T \in SUBSET DOMAIN rows,
           S \intersect T = {}
    PROVE  SumOver(rows, S \union T) = SumOver(rows, S) + SumOver(rows, T)
  <1>1. IsFiniteSet(S \union T)
    BY RowsAreFinite DEF Counted
  <1>2. \A x \in S \union T : Amount(rows)[x] \in Int
    BY DEF Counted, Amount
  <1>3. SumFunctionOnSet(Amount(rows), S \union T)
          = SumFunctionOnSet(Amount(rows), S) + SumFunctionOnSet(Amount(rows), T)
    BY <1>1, <1>2, SumOfTwoSets
  <1> QED
    BY <1>3 DEF SumOver, Amount

LEMMA SumOfFewer ==
    ASSUME NEW rows, Counted(rows), NEW S \in SUBSET DOMAIN rows, NEW T \in SUBSET S
    PROVE  SumOver(rows, T) <= SumOver(rows, S)
  <1>1. T \union (S \ T) = S /\ S \ T \in SUBSET DOMAIN rows /\ T \in SUBSET DOMAIN rows
    OBVIOUS
  <1>2. SumOver(rows, S) = SumOver(rows, T) + SumOver(rows, S \ T)
    <2>1. T \intersect (S \ T) = {}
      OBVIOUS
    <2>2. SumOver(rows, T \union (S \ T)) = SumOver(rows, T) + SumOver(rows, S \ T)
      BY <1>1, <2>1, SumOfBoth
    <2> QED
      BY <1>1, <2>2
  <1>3. SumOver(rows, T) \in Nat /\ SumOver(rows, S \ T) \in Nat
    BY <1>1, SumIsANumber
  <1> QED
    BY <1>2, <1>3

\* Rows that stay, or change in what is not their amount.
LEMMA SumOfTheSameRows ==
    ASSUME NEW rows, IsSeq(rows), NEW more, NEW S \in SUBSET DOMAIN rows,
           \A k \in S : k \in DOMAIN more /\ more[k].amount = rows[k].amount
    PROVE  SumOver(more, S) = SumOver(rows, S)
  <1>1. IsFiniteSet(S)
    BY RowsAreFinite
  <1>2. \A x \in S : Amount(rows)[x] = Amount(more)[x]
    BY DEF Amount
  <1>3. SumFunctionOnSet(Amount(rows), S) = SumFunctionOnSet(Amount(more), S)
    BY <1>1, <1>2, SumOfTheSame
  <1> QED
    BY <1>3 DEF SumOver, Amount
-----------------------------------------------------------------------------
(* What is paid and what is held: the invariant *)

\* Of payments P, credit notes N and refunds R: those of an invoice, and of a payment.
PaymentsOn(P, i)    == {k \in DOMAIN P : P[k].invoice = i}
AppliedTo(N, i)     == {k \in DOMAIN N : N[k].invoice = i /\ N[k].applied}
RefundedOn(P, R, i) == {k \in DOMAIN R : /\ P[R[k].payment].invoice = i
                                         /\ R[k].status = "completed"}
RefundsOf(R, p)     == {k \in DOMAIN R : /\ R[k].payment = p
                                         /\ R[k].status \in {"pending", "completed"}}

PaidBy(P, N, R, i) == SumOver(P, PaymentsOn(P, i)) + SumOver(N, AppliedTo(N, i))
                        - SumOver(R, RefundedOn(P, R, i))

PaymentsTyped(P, D) == IsSeq(P) /\ \A k \in DOMAIN P : P[k] \in Payment /\ P[k].invoice \in D
ReportsTyped(S, D)  == IsSeq(S) /\ \A k \in DOMAIN S : S[k] \in Report /\ S[k].invoice \in D

\* A note that is still to be applied has not been.
NotesTyped(N, D) ==
    /\ IsSeq(N)
    /\ \A k \in DOMAIN N : /\ N[k] \in Note /\ N[k].invoice \in D
                           /\ N[k].status = "issued" => ~N[k].applied

RefundsTyped(R, P) == IsSeq(R) /\ \A k \in DOMAIN R : R[k] \in Refund /\ R[k].payment \in DOMAIN P

\* What is refunded of a payment, or is to be, is no more than the payment.
Covered(P, R) == \A p \in DOMAIN P : SumOver(R, RefundsOf(R, p)) <= P[p].amount

\* The tables of money, S the customer's reports and D the invoices.
TablesOK(P, S, N, R, D) ==
    /\ PaymentsTyped(P, D) /\ ReportsTyped(S, D) /\ NotesTyped(N, D) /\ RefundsTyped(R, P)
    /\ Covered(P, R)
    /\ Len(P) + Len(S) + Len(N) + Len(R) <= MaxMoney

Ins(D)  == {k \in DOMAIN D : D[k].type \in {"received", "reversal"}}
Outs(D) == {k \in DOMAIN D : D[k].type \notin {"received", "reversal"}}
ForfeitsIn(D)  == {k \in DOMAIN D : D[k].forfeit}
ReversalsIn(D) == {k \in DOMAIN D : D[k].type = "reversal"}

StateTyped ==
    /\ [terms |-> terms, desk |-> desk] \in Cases /\ today \in Days
    /\ sub = [status |-> sub.status, ends |-> sub.ends, backdated |-> sub.backdated]
    /\ sub.status \in {"active", "expired"} /\ sub.ends \in Nat \union {NoDate}
    /\ sub.backdated \in BOOLEAN
    /\ IsSeq(revisions) /\ \A k \in DOMAIN revisions : revisions[k] \in Revision

\* The deposit is on the first invoice.
InvoicesTyped ==
    /\ IsSeq(invoices) /\ Len(invoices) <= MaxInvoices
    /\ \A i \in DOMAIN invoices :
          invoices[i] \in Invoice /\ (i # 1 => ~Bills(invoices[i], "deposit"))

MoneyTyped == TablesOK(payments, reports, notes, refunds, DOMAIN invoices)

PaidAsExplained ==
    \A i \in DOMAIN invoices : invoices[i].paid = PaidBy(payments, notes, refunds, i)

\* Of the deposit's ledger D: it was received at most once, for the first invoice.
LedgerOK(D) ==
    /\ IsSeq(D)
    /\ \A k \in DOMAIN D : D[k] \in Entry /\ (D[k].type = "received" => D[k].invoice = 1)
    /\ \A j, k \in DOMAIN D : D[j].type = "received" /\ D[k].type = "received" => j = k
    /\ SumOver(D, Outs(D)) <= SumOver(D, Ins(D))

\* As many forfeits as there are reversals were given back, and `open', which is the last of them
\* or none, was not.
GivenBack(D, open) ==
    /\ open \subseteq ForfeitsIn(D)
    /\ open = {} \/ \E l \in ForfeitsIn(D) : open = {l} /\ \A k \in ForfeitsIn(D) : k <= l
    /\ Cardinality(ForfeitsIn(D)) = Cardinality(ReversalsIn(D)) + Cardinality(open)
    /\ SumOver(D, ForfeitsIn(D)) = SumOver(D, ReversalsIn(D)) + SumOver(D, open)

DepositInv ==
    /\ LedgerOK(deposits)
    /\ \E open : GivenBack(deposits, open) /\ (sub.ends = NoDate => open = {})

\* The invariant, next to the one of the days that are charged for.
MoneyInv ==
    StateTyped /\ InvoicesTyped /\ MoneyTyped /\ PaidAsExplained /\ DepositInv

\* The sums of the model are sums over these sets of rows.
LEMMA SumsOfRows ==
    /\ \A i : SumOf(payments, LAMBDA p : p.invoice = i)
                + SumOf(notes, LAMBDA n : n.invoice = i /\ n.applied)
                - SumOf(refunds, LAMBDA r : /\ payments[r.payment].invoice = i
                                            /\ r.status = "completed")
            = PaidBy(payments, notes, refunds, i)
    /\ \A p : Refundable(p) = payments[p].amount - SumOver(refunds, RefundsOf(refunds, p))
    /\ DepositBalance = SumOver(deposits, Ins(deposits)) - SumOver(deposits, Outs(deposits))
    /\ SumOf(deposits, LAMBDA e : e.forfeit) = SumOver(deposits, ForfeitsIn(deposits))
    /\ SumOf(deposits, LAMBDA e : e.type = "reversal") = SumOver(deposits, ReversalsIn(deposits))
  <1>1. \A i : SumOf(payments, LAMBDA p : p.invoice = i)
                + SumOf(notes, LAMBDA n : n.invoice = i /\ n.applied)
                - SumOf(refunds, LAMBDA r : /\ payments[r.payment].invoice = i
                                            /\ r.status = "completed")
            = PaidBy(payments, notes, refunds, i)
    BY Zenon DEF SumOf, PaidBy, PaymentsOn, AppliedTo, RefundedOn
  <1>2. \A p : Refundable(p) = payments[p].amount - SumOver(refunds, RefundsOf(refunds, p))
    BY Zenon DEF SumOf, Refundable, RefundsOf
  <1>3. DepositBalance = SumOver(deposits, Ins(deposits)) - SumOver(deposits, Outs(deposits))
    BY Zenon DEF SumOf, DepositBalance, Ins, Outs
  <1>4. SumOf(deposits, LAMBDA e : e.forfeit) = SumOver(deposits, ForfeitsIn(deposits))
    BY Zenon DEF SumOf, ForfeitsIn
  <1>5. SumOf(deposits, LAMBDA e : e.type = "reversal") = SumOver(deposits, ReversalsIn(deposits))
    BY Zenon DEF SumOf, ReversalsIn
  <1> QED
    BY <1>1, <1>2, <1>3, <1>4, <1>5, Zenon

LEMMA LedgerSums ==
    ASSUME NEW D, LedgerOK(D)
    PROVE  /\ Counted(D)
           /\ \A S \in SUBSET DOMAIN D : SumOver(D, S) \in Nat
           /\ Ins(D) \in SUBSET DOMAIN D /\ Outs(D) \in SUBSET DOMAIN D
           /\ ForfeitsIn(D) \in SUBSET DOMAIN D /\ ReversalsIn(D) \in SUBSET DOMAIN D
  <1>1. Counted(D)
    BY DEF LedgerOK, Entry, Counted
  <1> QED
    BY <1>1, SumIsANumber DEF Ins, Outs, ForfeitsIn, ReversalsIn

LEMMA MoneyIsExplained == MoneyInv => MoneyExplained
  <1> SUFFICES ASSUME MoneyInv PROVE MoneyExplained
    OBVIOUS
  <1>1. TypeOK
    <2>1. /\ \A k \in DOMAIN payments : payments[k] \in Payment
          /\ \A k \in DOMAIN reports : reports[k] \in Report
          /\ \A k \in DOMAIN notes : notes[k] \in Note
          /\ \A k \in DOMAIN refunds : refunds[k] \in Refund
      BY DEF MoneyInv, MoneyTyped, TablesOK, PaymentsTyped, ReportsTyped, NotesTyped, RefundsTyped
    <2>2. \A k \in DOMAIN deposits : deposits[k] \in Entry
      BY DEF MoneyInv, DepositInv, LedgerOK
    <2> QED
      BY <2>1, <2>2 DEF MoneyInv, StateTyped, InvoicesTyped, TypeOK
  <1>2. PaidIsExplained
    BY SumsOfRows, Zenon DEF MoneyInv, PaidAsExplained, PaidIsExplained
  <1>3. LedgerOK(deposits)
    BY DEF MoneyInv, DepositInv
  <1>4. DepositBalance >= 0
    <2>1. PICK a : a = SumOver(deposits, Ins(deposits))
      OBVIOUS
    <2>2. PICK b : b = SumOver(deposits, Outs(deposits))
      OBVIOUS
    <2>3. a \in Nat /\ b \in Nat
      BY <1>3, <2>1, <2>2, LedgerSums
    <2>4. b <= a
      BY <1>3, <2>1, <2>2 DEF LedgerOK
    <2>5. DepositBalance = a - b
      BY <2>1, <2>2, SumsOfRows
    <2> QED
      BY <2>3, <2>4, <2>5
  <1>5. ASSUME sub.ends = NoDate
        PROVE  SumOver(deposits, ForfeitsIn(deposits)) = SumOver(deposits, ReversalsIn(deposits))
    <2>1. GivenBack(deposits, {})
      BY <1>5 DEF MoneyInv, DepositInv
    <2>2. SumOver(deposits, ReversalsIn(deposits)) \in Nat
      BY <1>3, LedgerSums
    <2> QED
      BY <2>1, <2>2, NothingToSum DEF GivenBack
  <1>6. DepositHeldOnce
    BY <1>3, <1>4 DEF LedgerOK, DepositHeldOnce
  <1>7. WithdrawnNoticeForfeitsNothing
    BY <1>5, SumsOfRows, Zenon DEF WithdrawnNoticeForfeitsNothing
  <1> QED
    BY <1>1, <1>2, <1>6, <1>7 DEF MoneyExplained, DepositLedgerSound
-----------------------------------------------------------------------------
(* What is paid and what is held: rows, prices and sums of invoices *)

LEMMA TermsTyped ==
    ASSUME StateTyped
    PROVE  /\ {terms.start, terms.notice, terms.lockIn, terms.dueDay, terms.grace, terms.price,
               terms.deposit, terms.percent, terms.escalateAfter, terms.feeValue} \subseteq Nat
           /\ terms.lateFee \in {"none", "per_day", "interest"} /\ desk \subseteq Operations
           /\ today \in Nat
  <1>1. PICK c \in Cases : [terms |-> terms, desk |-> desk] = c
    BY DEF StateTyped
  <1>2. c.terms = terms /\ c.desk = desk
    BY <1>1
  <1>3. today \in Nat
    BY Calendar DEF StateTyped, Days
  <1> QED
    BY <1>2, <1>3, Uses, DaysOfTerms, SumsOfTerms

LEMMA SeqOfRows ==
    ASSUME NEW S, NEW s, IsSeq(s), \A k \in DOMAIN s : s[k] \in S
    PROVE  s \in Seq(S)
  <1>1. Len(s) \in Nat /\ DOMAIN s = 1..Len(s) /\ s = [i \in 1..Len(s) |-> s[i]]
    BY SeqDomain
  <1>2. s \in [1..Len(s) -> S]
    BY <1>1
  <1> QED
    BY <1>1, <1>2

LEMMA RowsOfSeq ==
    ASSUME NEW S, NEW s \in Seq(S)
    PROVE  /\ IsSeq(s) /\ Len(s) \in Nat /\ DOMAIN s = 1..Len(s)
           /\ \A k \in DOMAIN s : s[k] \in S
  <1>1. IsSeq(s)
    BY InSeqIsSeq
  <1>2. Len(s) \in Nat /\ DOMAIN s = 1..Len(s)
    BY <1>1, SeqDomain
  <1> QED
    BY <1>1, <1>2

LEMMA RoundedIsNat ==
    ASSUME NEW n \in Nat, NEW d \in Nat, d > 0
    PROVE  Rounded(n, d) \in Nat
  <1> DEFINE a == 2 * n + d
             b == 2 * d
  <1>1. a \in Nat /\ b \in Nat /\ b > 0
    OBVIOUS
  <1> HIDE DEF a, b
  <1>2. a \div b \in Nat
    BY <1>1
  <1> QED
    BY <1>2 DEF a, b, Rounded

LEMMA ProductIsNat == \A m, n \in Nat : m * n \in Nat
  OBVIOUS

\* The last of some rows by their dates.
LEMMA Latest ==
    ASSUME NEW S, IsFiniteSet(S), S # {}, NEW f, \A x \in S : f[x] \in Nat
    PROVE  \E x \in S : \A y \in S : f[y] <= f[x]
  <1> DEFINE F == {T \in SUBSET S : T = {} \/ \E x \in T : \A y \in T : f[y] <= f[x]}
  <1>1. {} \in F
    OBVIOUS
  <1>2. ASSUME NEW T \in SUBSET S, T # {}, Rest(T) \in F
        PROVE  T \in F
    <2> DEFINE p == Picked(T)
    <2>1. p \in T /\ Rest(T) = T \ {p}
      BY <1>2 DEF Picked, Rest
    <2> HIDE DEF p
    <2>2. CASE Rest(T) = {}
      <3>1. \A y \in T : y = p
        BY <2>1, <2>2
      <3>2. f[p] \in Nat
        BY <2>1
      <3> QED
        BY <2>1, <3>1, <3>2
    <2>3. CASE Rest(T) # {}
      <3>1. PICK x \in Rest(T) : \A y \in Rest(T) : f[y] <= f[x]
        BY <1>2, <2>3
      <3>2. f[x] \in Nat /\ f[p] \in Nat /\ x \in T
        BY <2>1, <3>1
      <3>3. \A y \in T : y = p \/ y \in Rest(T)
        BY <2>1
      <3>4. CASE f[p] <= f[x]
        <4>1. \A y \in T : f[y] <= f[x]
          BY <3>1, <3>3, <3>4
        <4> QED
          BY <3>2, <4>1
      <3>5. CASE ~(f[p] <= f[x])
        <4>1. \A y \in Rest(T) : f[y] \in Nat
          BY <2>1
        <4>2. \A y \in T : f[y] <= f[p]
          BY <3>1, <3>2, <3>3, <3>5, <4>1
        <4> QED
          BY <2>1, <4>2
      <3> QED
        BY <3>4, <3>5
    <2> QED
      BY <2>2, <2>3
  <1> HIDE DEF F
  <1>3. S \in F
    BY <1>1, <1>2, SetsByPicking
  <1> QED
    BY <1>3 DEF F

LEMMA PriceIsNat ==
    ASSUME StateTyped, NEW day
    PROVE  EffectivePrice(day) \in Nat
  <1> DEFINE rises == {k \in DOMAIN revisions :
                         revisions[k].status = "confirmed" /\ revisions[k].from <= day}
             from == [k \in DOMAIN revisions |-> revisions[k].from]
             last == CHOOSE k \in rises : \A j \in rises : revisions[j].from <= revisions[k].from
  <1>1. CASE rises = {}
    BY <1>1, TermsTyped DEF EffectivePrice
  <1>2. CASE rises # {}
    <2>1. IsFiniteSet(rises)
      BY RowsAreFinite DEF StateTyped
    <2>2. \A k \in rises : from[k] \in Nat
      BY DEF StateTyped, Revision
    <2> HIDE DEF rises, from
    <2>3. \E k \in rises : \A j \in rises : from[j] <= from[k]
      BY <1>2, <2>1, <2>2, Latest
    <2>4. \E k \in rises : \A j \in rises : revisions[j].from <= revisions[k].from
      BY <2>3 DEF from, rises
    <2>5. last \in rises
      BY <2>4, Zenon
    <2> HIDE DEF last
    <2>6. revisions[last].new \in Nat
      BY <2>5 DEF rises, StateTyped, Revision
    <2>7. EffectivePrice(day) = revisions[last].new
      BY <1>2, Zenon DEF EffectivePrice, rises, last
    <2> QED
      BY <2>6, <2>7
  <1> QED
    BY <1>1, <1>2

LEMMA DueDateIsNat ==
    ASSUME StateTyped, NEW start \in Nat, NEW day \in Nat
    PROVE  DueDate(start, day) \in Nat
  <1>1. MonthStart(start) + terms.dueDay \in Nat
    BY MonthStarts, TermsTyped
  <1> QED
    BY <1>1, MaxOfTwo DEF DueDate

LEMMA LinesAreCounted ==
    ASSUME NEW lines \in Seq(Line)
    PROVE  Counted(lines)
  <1>1. IsSeq(lines) /\ \A k \in DOMAIN lines : lines[k] \in Line
    BY RowsOfSeq
  <1> QED
    BY <1>1 DEF Counted, Line

LEMMA TotalIsNat ==
    ASSUME NEW lines \in Seq(Line)
    PROVE  Total(lines) \in Nat
  <1>1. Counted(lines)
    BY LinesAreCounted
  <1>2. {k \in DOMAIN lines : TRUE} \in SUBSET DOMAIN lines
    OBVIOUS
  <1>3. SumOver(lines, {k \in DOMAIN lines : TRUE}) \in Nat
    BY <1>1, <1>2, SumIsANumber
  <1>4. Total(lines) = SumOver(lines, {k \in DOMAIN lines : TRUE})
    BY Zenon DEF Total, SumOf
  <1> QED
    BY <1>3, <1>4

LEMMA DepositIsNat ==
    ASSUME NEW inv, inv.lines \in Seq(Line)
    PROVE  DepositOf(inv) \in Nat /\ (~Bills(inv, "deposit") => DepositOf(inv) = 0)
  <1> DEFINE S == {k \in DOMAIN inv.lines : inv.lines[k].type = "deposit"}
  <1>1. Counted(inv.lines)
    BY LinesAreCounted
  <1>2. S \in SUBSET DOMAIN inv.lines
    OBVIOUS
  <1>3. ~Bills(inv, "deposit") => S = {}
    BY DEF Bills
  <1>4. DepositOf(inv) = SumOver(inv.lines, S)
    BY Zenon DEF DepositOf, SumOf
  <1> HIDE DEF S
  <1> QED
    BY <1>1, <1>2, <1>3, <1>4, SumIsANumber, NothingToSum

LEMMA BalanceIsInt ==
    ASSUME NEW inv \in Invoice
    PROVE  Balance(inv) \in Int
  <1>1. inv.lines \in Seq(Line) /\ inv.paid \in Nat
    BY DEF Invoice
  <1>2. Total(inv.lines) \in Nat
    BY <1>1, TotalIsNat
  <1> QED
    BY <1>1, <1>2 DEF Balance
-----------------------------------------------------------------------------
(* What the handlers do to an invoice *)

Statuses == {"draft", "issued", "paid", "partial", "overdue", "void"}

\* Another invoice with what is paid on the old one, and no deposit that was not on it.
Edited(old, new) ==
    /\ new \in Invoice /\ new.paid = old.paid
    /\ Bills(new, "deposit") => Bills(old, "deposit")

LEMMA InvoiceFields ==
    ASSUME NEW inv \in Invoice
    PROVE  /\ inv.start \in Nat /\ inv.end \in Nat /\ inv.due \in Nat /\ inv.lines \in Seq(Line)
           /\ inv.paid \in Nat /\ inv.status \in Statuses /\ inv.through \in Nat \union {NoDate}
           /\ inv.everVoid \in BOOLEAN
           /\ inv = [start |-> inv.start, end |-> inv.end, due |-> inv.due, lines |-> inv.lines,
                     paid |-> inv.paid, status |-> inv.status, through |-> inv.through,
                     everVoid |-> inv.everVoid]
  BY DEF Invoice, Statuses

LEMMA StatusEdited ==
    ASSUME NEW inv \in Invoice, NEW status \in Statuses
    PROVE  Edited(inv, [inv EXCEPT !.status = status])
  <1> DEFINE new == [inv EXCEPT !.status = status]
  <1>1. new \in Invoice
    BY DEF Invoice, Statuses
  <1>2. new.paid = inv.paid /\ new.lines = inv.lines
    BY DEF Invoice
  <1> HIDE DEF new
  <1>3. Edited(inv, new)
    BY <1>1, <1>2 DEF Edited, Bills
  <1> QED
    BY <1>3 DEF new

LEMMA VoidEdited ==
    ASSUME NEW inv \in Invoice
    PROVE  Edited(inv, Voided(inv))
  <1> DEFINE new == Voided(inv)
  <1>1. new \in Invoice
    BY DEF Invoice, Voided
  <1>2. new.paid = inv.paid /\ new.lines = inv.lines
    BY DEF Invoice, Voided
  <1> HIDE DEF new
  <1>3. Edited(inv, new)
    BY <1>1, <1>2 DEF Edited, Bills
  <1> QED
    BY <1>3 DEF new

LEMMA ThroughEdited ==
    ASSUME NEW inv \in Invoice, NEW day \in Nat \union {NoDate}
    PROVE  Edited(inv, [inv EXCEPT !.through = day])
  <1> DEFINE new == [inv EXCEPT !.through = day]
  <1>1. new \in Invoice
    BY DEF Invoice
  <1>2. new.paid = inv.paid /\ new.lines = inv.lines
    BY DEF Invoice
  <1> HIDE DEF new
  <1>3. Edited(inv, new)
    BY <1>1, <1>2 DEF Edited, Bills
  <1> QED
    BY <1>3 DEF new

LEMMA LinesChanged ==
    ASSUME NEW inv \in Invoice, NEW lines \in Seq(Line),
           \A k \in DOMAIN lines : lines[k].type = "deposit" => Bills(inv, "deposit")
    PROVE  Edited(inv, [inv EXCEPT !.lines = lines])
  <1> DEFINE new == [inv EXCEPT !.lines = lines]
  <1>1. new \in Invoice
    BY DEF Invoice
  <1>2. new.paid = inv.paid /\ new.lines = lines
    BY DEF Invoice
  <1> HIDE DEF new
  <1>3. Edited(inv, new)
    BY <1>1, <1>2 DEF Edited, Bills
  <1> QED
    BY <1>3 DEF new

LEMMA OtherLine ==
    ASSUME NEW type \in {"deposit", "other"}, NEW amount \in Nat
    PROVE  Other(type, amount) \in Line /\ Other(type, amount).type = type
  BY Bounds DEF Other, Line

LEMMA LineMore ==
    ASSUME NEW inv \in Invoice, NEW amount \in Nat
    PROVE  Edited(inv, [inv EXCEPT !.lines = Append(inv.lines, Other("other", amount))])
  <1> DEFINE line == Other("other", amount)
             lines == Append(inv.lines, line)
  <1>1. inv.lines \in Seq(Line) /\ line \in Line /\ line.type = "other"
    BY InvoiceFields, OtherLine
  <1> HIDE DEF line
  <1>2. IsSeq(inv.lines)
    BY <1>1, RowsOfSeq
  <1>3. lines \in Seq(Line)
    BY <1>1
  <1>4. ASSUME NEW k \in DOMAIN lines, lines[k].type = "deposit"
        PROVE  Bills(inv, "deposit")
    <2>1. k \in DOMAIN inv.lines /\ lines[k] = inv.lines[k]
      BY <1>1, <1>2, <1>4, AppendIsSeq
    <2> QED
      BY <1>4, <2>1 DEF Bills
  <1> HIDE DEF lines
  <1>5. Edited(inv, [inv EXCEPT !.lines = lines])
    BY <1>3, <1>4, LinesChanged
  <1> QED
    BY <1>5 DEF lines, line

LEMMA LineLess ==
    ASSUME NEW inv \in Invoice, NEW n \in DOMAIN inv.lines
    PROVE  Edited(inv, [inv EXCEPT !.lines = RemoveAt(inv.lines, n)])
  <1> DEFINE lines == RemoveAt(inv.lines, n)
  <1>1. inv.lines \in Seq(Line)
    BY InvoiceFields
  <1>2. /\ IsSeq(inv.lines) /\ Len(inv.lines) \in Nat /\ DOMAIN inv.lines = 1..Len(inv.lines)
        /\ \A k \in DOMAIN inv.lines : inv.lines[k] \in Line
    BY <1>1, RowsOfSeq
  <1>3. /\ IsSeq(lines) /\ DOMAIN lines = 1..(Len(inv.lines) - 1)
        /\ \A i \in 1..(Len(inv.lines) - 1) : lines[i] = inv.lines[IF i < n THEN i ELSE i + 1]
    BY <1>2, RemoveIsSeq
  <1> HIDE DEF lines
  <1>4. \A k \in DOMAIN lines : \E m \in DOMAIN inv.lines : lines[k] = inv.lines[m]
    BY <1>2, <1>3
  <1>5. lines \in Seq(Line)
    BY <1>2, <1>3, <1>4, SeqOfRows
  <1>6. \A k \in DOMAIN lines : lines[k].type = "deposit" => Bills(inv, "deposit")
    BY <1>4 DEF Bills
  <1>7. Edited(inv, [inv EXCEPT !.lines = lines])
    BY <1>5, <1>6, LinesChanged
  <1> QED
    BY <1>7 DEF lines

LEMMA MoneyChanged ==
    ASSUME NEW inv \in Invoice, NEW n \in Nat
    PROVE  LET new == Refreshed([inv EXCEPT !.paid = n])
           IN new \in Invoice /\ new.paid = n /\ new.lines = inv.lines
  <1> DEFINE more == [inv EXCEPT !.paid = n]
             status == IF Balance(more) <= 0 THEN "paid"
                       ELSE IF more.paid > 0 THEN "partial"
                       ELSE IF more.due < today THEN "overdue"
                       ELSE more.status
  <1>1. more \in Invoice /\ more.paid = n /\ more.lines = inv.lines
    BY DEF Invoice
  <1> HIDE DEF more
  <1>2. status \in Statuses
    BY <1>1, InvoiceFields DEF Statuses
  <1>3. Refreshed(more) = [more EXCEPT !.status = status]
    BY DEF Refreshed
  <1> HIDE DEF status
  <1>4. /\ [more EXCEPT !.status = status] \in Invoice
        /\ [more EXCEPT !.status = status].paid = more.paid
        /\ [more EXCEPT !.status = status].lines = more.lines
    BY <1>1, <1>2 DEF Invoice, Statuses
  <1>5. LET new == Refreshed(more) IN new \in Invoice /\ new.paid = n /\ new.lines = inv.lines
    BY <1>1, <1>3, <1>4
  <1> QED
    BY <1>5 DEF more

LEMMA PaidMore ==
    ASSUME NEW inv \in Invoice, NEW amount \in Nat
    PROVE  LET new == Pay(inv, amount)
           IN new \in Invoice /\ new.paid = inv.paid + amount /\ new.lines = inv.lines
  <1>1. inv.paid \in Nat /\ inv.paid + amount \in Nat
    BY InvoiceFields
  <1>2. Pay(inv, amount) = Refreshed([inv EXCEPT !.paid = inv.paid + amount])
    BY DEF Pay
  <1> QED
    BY <1>1, <1>2, MoneyChanged
-----------------------------------------------------------------------------
(* Steps that leave what is paid *)

\* Every invoice edited, in its place.
AllEdited(sheets) ==
    /\ sheets = [i \in DOMAIN invoices |-> sheets[i]]
    /\ \A i \in DOMAIN invoices : Edited(invoices[i], sheets[i])

\* Invoices may be added, nothing paid on them; what is paid on the others stays.
PaidKept ==
    /\ InvoicesTyped' /\ DOMAIN invoices \subseteq DOMAIN invoices'
    /\ \A i \in DOMAIN invoices : invoices'[i].paid = invoices[i].paid
    /\ \A i \in DOMAIN invoices' \ DOMAIN invoices : invoices'[i].paid = 0

LEMMA SheetsEdited ==
    ASSUME InvoicesTyped, NEW sheets, AllEdited(sheets)
    PROVE  /\ IsSeq(sheets) /\ Len(sheets) = Len(invoices) /\ DOMAIN sheets = DOMAIN invoices
           /\ DOMAIN invoices = 1..Len(invoices) /\ Len(invoices) \in Nat
           /\ \A i \in DOMAIN invoices :
                 /\ sheets[i] \in Invoice /\ sheets[i].paid = invoices[i].paid
                 /\ i # 1 => ~Bills(sheets[i], "deposit")
  <1>1. DOMAIN invoices = 1..Len(invoices) /\ Len(invoices) \in Nat
    BY SeqDomain DEF InvoicesTyped
  <1>2. sheets = [i \in 1..Len(invoices) |-> sheets[i]]
    BY <1>1 DEF AllEdited
  <1>3. IsSeq(sheets) /\ Len(sheets) = Len(invoices)
    BY <1>1, <1>2, FunctionIsSeq
  <1>4. DOMAIN sheets = DOMAIN invoices
    BY <1>1, <1>2
  <1>5. \A i \in DOMAIN invoices :
            /\ sheets[i] \in Invoice /\ sheets[i].paid = invoices[i].paid
            /\ i # 1 => ~Bills(sheets[i], "deposit")
    BY DEF AllEdited, Edited, InvoicesTyped
  <1> QED
    BY <1>1, <1>3, <1>4, <1>5

LEMMA EditsKeepPaid ==
    ASSUME InvoicesTyped, AllEdited(invoices')
    PROVE  PaidKept
  <1>1. PICK sheets : sheets = invoices'
    OBVIOUS
  <1>2. /\ IsSeq(sheets) /\ Len(sheets) = Len(invoices) /\ DOMAIN sheets = DOMAIN invoices
        /\ \A i \in DOMAIN invoices :
                 /\ sheets[i] \in Invoice /\ sheets[i].paid = invoices[i].paid
                 /\ i # 1 => ~Bills(sheets[i], "deposit")
    BY <1>1, SheetsEdited
  <1>3. Len(invoices) <= MaxInvoices
    BY DEF InvoicesTyped
  <1> QED
    BY <1>1, <1>2, <1>3 DEF InvoicesTyped, PaidKept

LEMMA OneEditKeepsPaid ==
    ASSUME InvoicesTyped, NEW i \in DOMAIN invoices, NEW inv, Edited(invoices[i], inv),
           invoices' = [invoices EXCEPT ![i] = inv]
    PROVE  PaidKept
  <1>1. PICK sheets : sheets = invoices'
    OBVIOUS
  <1>2. invoices = [j \in DOMAIN invoices |-> invoices[j]]
    BY SeqDomain DEF InvoicesTyped
  <1>3. /\ sheets = [j \in DOMAIN invoices |-> sheets[j]]
        /\ \A j \in DOMAIN invoices : sheets[j] = IF j = i THEN inv ELSE invoices[j]
    BY <1>1, <1>2
  <1>4. \A j \in DOMAIN invoices : Edited(invoices[j], invoices[j])
    BY DEF InvoicesTyped, Edited
  <1>5. AllEdited(sheets)
    BY <1>3, <1>4 DEF AllEdited
  <1> QED
    BY <1>1, <1>5, EditsKeepPaid

LEMMA NoneEdited ==
    ASSUME InvoicesTyped, UNCHANGED invoices
    PROVE  PaidKept
  BY DEF InvoicesTyped, PaidKept

LEMMA AllAsTheyWere ==
    ASSUME InvoicesTyped
    PROVE  AllEdited(invoices)
  <1>1. invoices = [j \in DOMAIN invoices |-> invoices[j]]
    BY SeqDomain DEF InvoicesTyped
  <1>2. \A j \in DOMAIN invoices : Edited(invoices[j], invoices[j])
    BY DEF InvoicesTyped, Edited
  <1> QED
    BY <1>1, <1>2 DEF AllEdited

LEMMA NewInvoiceKeepsPaid ==
    ASSUME InvoicesTyped, NEW sheets, AllEdited(sheets), NEW inv \in Invoice, inv.paid = 0,
           ~Bills(inv, "deposit"), Len(invoices) < MaxInvoices, invoices' = Append(sheets, inv)
    PROVE  PaidKept
  <1>1. /\ IsSeq(sheets) /\ Len(sheets) = Len(invoices) /\ DOMAIN sheets = DOMAIN invoices
        /\ DOMAIN invoices = 1..Len(invoices) /\ Len(invoices) \in Nat
        /\ \A i \in DOMAIN invoices :
                 /\ sheets[i] \in Invoice /\ sheets[i].paid = invoices[i].paid
                 /\ i # 1 => ~Bills(sheets[i], "deposit")
    BY SheetsEdited
  <1>2. PICK n : n = Len(invoices) + 1
    OBVIOUS
  <1>3. PICK all : all = invoices'
    OBVIOUS
  <1>4. /\ IsSeq(all) /\ DOMAIN all = DOMAIN invoices \union {n}
        /\ \A i \in DOMAIN invoices : all[i] = sheets[i]
        /\ all[n] = inv /\ n \notin DOMAIN invoices
    BY <1>1, <1>2, <1>3, AppendIsSeq
  <1>5. Len(all) = n
    <2>1. DOMAIN all = 1..n
      BY <1>1, <1>2, <1>4
    <2>2. Len(all) \in Nat /\ DOMAIN all = 1..Len(all)
      BY <1>4, SeqDomain
    <2>3. n \in 1..n /\ n \in Nat
      BY <1>1, <1>2
    <2> QED
      BY <2>1, <2>2, <2>3
  <1>6. n <= MaxInvoices
    BY <1>1, <1>2, Bounds
  <1>7. \A i \in DOMAIN all : all[i] \in Invoice /\ (i # 1 => ~Bills(all[i], "deposit"))
    BY <1>1, <1>4
  <1>8. InvoicesTyped'
    BY <1>3, <1>4, <1>5, <1>6, <1>7 DEF InvoicesTyped
  <1>9. /\ DOMAIN invoices \subseteq DOMAIN all
        /\ \A i \in DOMAIN invoices : all[i].paid = invoices[i].paid
        /\ \A i \in DOMAIN all \ DOMAIN invoices : all[i].paid = 0
    BY <1>1, <1>4
  <1> QED
    BY <1>3, <1>8, <1>9 DEF PaidKept

LEMMA InvoiceIsMade ==
    ASSUME NEW start \in Nat, NEW end \in Nat, NEW due \in Nat, NEW status \in Statuses,
           NEW lines \in Seq(Line), \A k \in DOMAIN lines : lines[k].type # "deposit"
    PROVE  LET inv == NewInvoice(start, end, due, status, lines)
           IN inv \in Invoice /\ inv.paid = 0 /\ ~Bills(inv, "deposit")
  <1> DEFINE inv == NewInvoice(start, end, due, status, lines)
  <1>1. inv \in Invoice
    BY DEF NewInvoice, Invoice, Statuses
  <1>2. inv.paid = 0 /\ inv.lines = lines
    BY DEF NewInvoice
  <1> QED
    BY <1>1, <1>2 DEF Bills
-----------------------------------------------------------------------------
(* The staff's edits *)

LEMMA AmountsOfParts == Parts \subseteq Nat
  BY Amounts

LEMMA EditsOfInvoice ==
    ASSUME InvoicesTyped, NEW i \in DOMAIN invoices,
           \/ \E amount \in Parts : LineAdd(i, amount)
           \/ \E k \in DOMAIN invoices[i].lines : LineDelete(i, k)
           \/ Issue(i) \/ Void(i)
    PROVE  PaidKept /\ UNCHANGED <<agreement, paid, deposits>>
  <1>1. invoices[i] \in Invoice
    BY DEF InvoicesTyped
  <1>2. PICK inv : inv = invoices[i]
    OBVIOUS
  <1>3. ASSUME NEW amount \in Parts, LineAdd(i, amount)
        PROVE  PaidKept /\ UNCHANGED <<agreement, paid, deposits>>
    <2>1. Edited(inv, [inv EXCEPT !.lines = Append(inv.lines, Other("other", amount))])
      BY <1>1, <1>2, AmountsOfParts, LineMore
    <2>2. /\ invoices' = [invoices EXCEPT ![i] =
                            [inv EXCEPT !.lines = Append(inv.lines, Other("other", amount))]]
          /\ UNCHANGED <<agreement, paid, deposits>>
      BY <1>2, <1>3, Zenon DEF LineAdd, InvoiceBecomes
    <2> QED
      BY <1>2, <2>1, <2>2, OneEditKeepsPaid
  <1>4. ASSUME NEW k \in DOMAIN invoices[i].lines, LineDelete(i, k)
        PROVE  PaidKept /\ UNCHANGED <<agreement, paid, deposits>>
    <2>1. Edited(inv, [inv EXCEPT !.lines = RemoveAt(inv.lines, k)])
      BY <1>1, <1>2, LineLess
    <2>2. /\ invoices' = [invoices EXCEPT ![i] = [inv EXCEPT !.lines = RemoveAt(inv.lines, k)]]
          /\ UNCHANGED <<agreement, paid, deposits>>
      BY <1>2, <1>4, Zenon DEF LineDelete, InvoiceBecomes
    <2> QED
      BY <1>2, <2>1, <2>2, OneEditKeepsPaid
  <1>5. ASSUME Issue(i)
        PROVE  PaidKept /\ UNCHANGED <<agreement, paid, deposits>>
    <2>1. Edited(inv, [inv EXCEPT !.status = "issued"])
      BY <1>1, <1>2, StatusEdited DEF Statuses
    <2>2. /\ invoices' = [invoices EXCEPT ![i] = [inv EXCEPT !.status = "issued"]]
          /\ UNCHANGED <<agreement, paid, deposits>>
      BY <1>2, <1>5, Zenon DEF Issue, InvoiceBecomes
    <2> QED
      BY <1>2, <2>1, <2>2, OneEditKeepsPaid
  <1>6. ASSUME Void(i)
        PROVE  PaidKept /\ UNCHANGED <<agreement, paid, deposits>>
    <2>1. Edited(inv, Voided(inv))
      BY <1>1, <1>2, VoidEdited
    <2>2. /\ invoices' = [invoices EXCEPT ![i] = Voided(inv)]
          /\ UNCHANGED <<agreement, paid, deposits>>
      BY <1>2, <1>6, Zenon DEF Void, InvoiceBecomes
    <2> QED
      BY <1>2, <2>1, <2>2, OneEditKeepsPaid
  <1> QED
    BY <1>3, <1>4, <1>5, <1>6

LEMMA DraftsEdited ==
    ASSUME InvoicesTyped, IssueDrafts
    PROVE  PaidKept /\ UNCHANGED <<agreement, paid, deposits>>
  <1>1. PICK sheets : sheets = invoices'
    OBVIOUS
  <1>2. /\ sheets = [i \in DOMAIN invoices |-> sheets[i]]
        /\ \A i \in DOMAIN invoices :
              \/ sheets[i] = [invoices[i] EXCEPT !.status = "issued"]
              \/ sheets[i] = [invoices[i] EXCEPT !.status = invoices[i].status]
        /\ UNCHANGED <<agreement, paid, deposits>>
    BY <1>1 DEF IssueDrafts
  <1>3. ASSUME NEW i \in DOMAIN invoices
        PROVE  Edited(invoices[i], sheets[i])
    <2>1. invoices[i] \in Invoice
      BY DEF InvoicesTyped
    <2>2. invoices[i].status \in Statuses /\ "issued" \in Statuses
      BY <2>1, InvoiceFields DEF Statuses
    <2>3. /\ Edited(invoices[i], [invoices[i] EXCEPT !.status = "issued"])
          /\ Edited(invoices[i], [invoices[i] EXCEPT !.status = invoices[i].status])
      BY <2>1, <2>2, StatusEdited
    <2> QED
      BY <1>2, <2>3
  <1>4. AllEdited(sheets)
    BY <1>2, <1>3 DEF AllEdited
  <1> QED
    BY <1>1, <1>2, <1>4, EditsKeepPaid
-----------------------------------------------------------------------------
(* The monthly invoice and the notice *)

\* Lines of which none is a deposit.
Plain(lines) == lines \in Seq(Line) /\ \A k \in DOMAIN lines : lines[k].type # "deposit"

LEMMA PlainOne ==
    ASSUME NEW line \in Line, line.type # "deposit"
    PROVE  Plain(<<line>>)
  <1>1. <<line>> \in Seq(Line)
    OBVIOUS
  <1> QED
    BY <1>1, OneIsSeq DEF Plain

LEMMA PlainBoth ==
    ASSUME NEW s, Plain(s), NEW t, Plain(t)
    PROVE  Plain(s \o t)
  <1>1. s \in Seq(Line) /\ t \in Seq(Line)
    BY DEF Plain
  <1>2. /\ IsSeq(s) /\ Len(s) \in Nat /\ DOMAIN s = 1..Len(s)
        /\ IsSeq(t) /\ Len(t) \in Nat /\ DOMAIN t = 1..Len(t)
    BY <1>1, RowsOfSeq
  <1>3. s \o t \in Seq(Line)
    BY <1>1
  <1>4. /\ IsSeq(s \o t) /\ Len(s \o t) = Len(s) + Len(t)
        /\ \A i \in 1..(Len(s) + Len(t)) :
              (s \o t)[i] = IF i <= Len(s) THEN s[i] ELSE t[i - Len(s)]
    BY <1>2, ConcatIsSeq
  <1>5. DOMAIN (s \o t) = 1..(Len(s) + Len(t))
    BY <1>2, <1>4, SeqDomain
  <1>6. ASSUME NEW k \in DOMAIN (s \o t)
        PROVE  (s \o t)[k].type # "deposit"
    <2>1. CASE k <= Len(s)
      <3>1. k \in DOMAIN s /\ (s \o t)[k] = s[k]
        BY <1>2, <1>4, <1>5, <2>1
      <3> QED
        BY <3>1 DEF Plain
    <2>2. CASE ~(k <= Len(s))
      <3>1. k - Len(s) \in DOMAIN t /\ (s \o t)[k] = t[k - Len(s)]
        BY <1>2, <1>4, <1>5, <2>2
      <3> QED
        BY <3>1 DEF Plain
    <2> QED
      BY <2>1, <2>2
  <1> QED
    BY <1>3, <1>6 DEF Plain

LEMMA ChargeIsPlain ==
    ASSUME StateTyped, NEW start \in Nat, PlanCharge(start) # <<>>
    PROVE  Plain(PlanCharge(start))
  <1> DEFINE end   == start + DaysInMonth
             first == Max({start, terms.start})
             last  == IF sub.ends = NoDate THEN end ELSE Min({end, sub.ends})
             some  == terms.prorate /\ last - first < DaysInMonth
             price == EffectivePrice(start)
             amount == IF some THEN Rounded(price * (last - first), DaysInMonth) ELSE price
             line  == [type |-> "plan", of |-> 0, amount |-> amount,
                       from |-> IF some THEN first ELSE start, upto |-> IF some THEN last ELSE end]
  <1>1. DaysInMonth \in Nat /\ DaysInMonth > 0
    BY Calendar
  <1>2. terms.start \in Nat /\ sub.ends \in Nat \union {NoDate}
    BY TermsTyped DEF StateTyped
  <1>3. end \in Nat
    BY <1>1
  <1>4. first \in Nat
    BY <1>2, MaxOfTwo
  <1>5. last \in Nat
    BY <1>2, <1>3, MinOfTwo DEF NoDate
  <1>6. price \in Nat
    BY PriceIsNat
  <1>7. ~(last <= first) /\ PlanCharge(start) = <<line>>
    BY DEF PlanCharge
  <1> HIDE DEF end, first, last, price
  <1>8. last - first \in Nat
    BY <1>4, <1>5, <1>7
  <1>9. price * (last - first) \in Nat
    BY <1>6, <1>8, ProductIsNat
  <1>10. Rounded(price * (last - first), DaysInMonth) \in Nat
    BY <1>1, <1>9, RoundedIsNat
  <1>11. amount \in Nat
    BY <1>6, <1>10
  <1> HIDE DEF amount
  <1>12. /\ (IF some THEN first ELSE start) \in Nat /\ (IF some THEN last ELSE end) \in Nat
         /\ 0 \in 0..MaxInvoices
    BY <1>3, <1>4, <1>5, Bounds
  <1>13. line \in Line /\ line.type # "deposit"
    BY <1>11, <1>12 DEF Line
  <1> QED
    BY <1>7, <1>13, PlainOne

LEMMA LateFeeIsNat ==
    ASSUME StateTyped, InvoicesTyped, SheetsOK, NEW i \in LateInvoices
    PROVE  LateFee(invoices[i]) \in Nat
  <1>1. i \in DOMAIN invoices /\ Balance(invoices[i]) > 0
    BY DEF LateInvoices
  <1>2. FeeStart(invoices[i]) \in Nat /\ FeeStart(invoices[i]) < today
    BY <1>1, LateFollows
  <1>3. Balance(invoices[i]) \in Nat
    BY <1>1, BalanceIsInt DEF InvoicesTyped
  <1>4. PICK b \in Nat : b = Balance(invoices[i])
    BY <1>3
  <1>5. PICK late \in Nat : late = today - FeeStart(invoices[i])
    BY <1>2, TermsTyped
  <1>6. PICK v \in Nat : v = terms.feeValue
    BY TermsTyped
  <1>7. v * late \in Nat /\ b * v \in Nat /\ b * v * late \in Nat
    BY ProductIsNat
  <1>8. Rounded(b * v * late, 36500) \in Nat
    BY <1>7, RoundedIsNat
  <1>9. terms.lateFee \in {"none", "per_day", "interest"}
    BY TermsTyped
  <1>10. CASE terms.lateFee = "none"
    <2>1. LateFee(invoices[i]) = 0
      BY <1>10 DEF LateFee
    <2> QED
      BY <2>1
  <1>11. CASE terms.lateFee = "per_day"
    <2>1. LateFee(invoices[i]) = v * late
      BY <1>5, <1>6, <1>11 DEF LateFee
    <2> QED
      BY <1>7, <2>1
  <1>12. CASE terms.lateFee = "interest"
    <2>1. LateFee(invoices[i]) = Rounded(b * v * late, 36500)
      BY <1>4, <1>5, <1>6, <1>12 DEF LateFee
    <2> QED
      BY <1>8, <2>1
  <1> QED
    BY <1>9, <1>10, <1>11, <1>12

LEMMA FinesArePlain ==
    ASSUME StateTyped, InvoicesTyped, SheetsOK
    PROVE  Plain(FeeLines)
  <1>1. /\ IsSeq(FeeLines)
        /\ \A k \in DOMAIN FeeLines :
                 LET line == FeeLines[k] IN
                 /\ LineOK(line) /\ line.type = "late_fee" /\ line.of \in LateInvoices
                 /\ line.from = FeeStart(invoices[line.of]) /\ line.upto = today
    BY FinesOfMonth
  <1> DEFINE late == SetToSeq(LateInvoices)
             fee(i) == [type |-> "late_fee", amount |-> LateFee(invoices[i]), of |-> i,
                        from |-> FeeStart(invoices[i]), upto |-> today]
  <1>2. FeeLines = [k \in DOMAIN late |-> fee(late[k])]
    BY Zenon DEF FeeLines
  <1> HIDE DEF late
  <1>3. ASSUME NEW k \in DOMAIN FeeLines
        PROVE  FeeLines[k] \in Line /\ FeeLines[k].type # "deposit"
    <2>1. FeeLines[k] = fee(late[k])
      BY <1>2
    <2>2. PICK i : i = late[k]
      OBVIOUS
    <2>3. FeeLines[k].of = i
      BY <2>1, <2>2
    <2>4. i \in LateInvoices /\ FeeLines[k].type = "late_fee" /\ LineOK(FeeLines[k])
      BY <1>1, <2>3
    <2>5. LateFee(invoices[i]) \in Nat
      BY <2>4, LateFeeIsNat
    <2>6. i \in 0..MaxInvoices
      <3>1. i \in DOMAIN invoices
        BY <2>4 DEF LateInvoices
      <3>2. DOMAIN invoices = 1..Len(invoices) /\ Len(invoices) \in Nat /\ Len(invoices) <= MaxInvoices
        BY SeqDomain DEF InvoicesTyped
      <3> QED
        BY <3>1, <3>2, Bounds
    <2>7. FeeStart(invoices[i]) \in Nat /\ today \in Nat
      <3>1. FeeLines[k].from = FeeStart(invoices[i]) /\ FeeLines[k].upto = today
        BY <2>1, <2>2
      <3> QED
        BY <2>4, <3>1 DEF LineOK
    <2>8. fee(i) \in Line
      BY <2>5, <2>6, <2>7 DEF Line
    <2> QED
      BY <2>1, <2>2, <2>4, <2>8
  <1>4. FeeLines \in Seq(Line)
    BY <1>1, <1>3, SeqOfRows
  <1> QED
    BY <1>3, <1>4 DEF Plain

LEMMA MonthKeepsPaid ==
    ASSUME StateTyped, InvoicesTyped, SheetsOK, NEW start \in Nat, Generate(start)
    PROVE  PaidKept /\ UNCHANGED <<agreement, paid, deposits>>
  <1>1. PICK sheets : sheets =
            [i \in DOMAIN invoices |->
               [invoices[i] EXCEPT !.through = IF i \in LateInvoices THEN today ELSE invoices[i].through]]
    OBVIOUS
  <1>2. ASSUME NEW i \in DOMAIN invoices
        PROVE  Edited(invoices[i], sheets[i])
    <2>1. invoices[i] \in Invoice
      BY DEF InvoicesTyped
    <2>2. PICK day : day = IF i \in LateInvoices THEN today ELSE invoices[i].through
      OBVIOUS
    <2>3. day \in Nat \union {NoDate}
      BY <2>1, <2>2, InvoiceFields, TermsTyped
    <2>4. sheets[i] = [invoices[i] EXCEPT !.through = day]
      BY <1>1, <2>2
    <2> QED
      BY <2>1, <2>3, <2>4, ThroughEdited
  <1>3. AllEdited(sheets)
    <2>1. sheets = [i \in DOMAIN invoices |-> sheets[i]]
      BY <1>1
    <2> QED
      BY <1>2, <2>1 DEF AllEdited
  <1>4. PICK lines : lines = PlanCharge(start) \o FeeLines
    OBVIOUS
  <1>5. Plain(lines)
    BY <1>4, ChargeIsPlain, FinesArePlain, PlainBoth DEF Generate
  <1>6. /\ start + DaysInMonth - 1 \in Nat /\ DueDate(start, today) \in Nat /\ FirstStatus \in Statuses
    <2>1. DueDate(start, today) \in Nat
      BY DueDateIsNat DEF SheetsOK
    <2> QED
      BY <2>1, Calendar DEF FirstStatus, Statuses
  <1>7. PICK inv : inv = NewInvoice(start, start + DaysInMonth - 1, DueDate(start, today), FirstStatus, lines)
    OBVIOUS
  <1>8. inv \in Invoice /\ inv.paid = 0 /\ ~Bills(inv, "deposit")
    BY <1>5, <1>6, <1>7, InvoiceIsMade DEF Plain
  <1>9. /\ invoices' = Append(sheets, inv) /\ Len(invoices) < MaxInvoices
        /\ UNCHANGED <<agreement, paid, deposits>>
    BY <1>1, <1>4, <1>7 DEF Generate
  <1> QED
    BY <1>3, <1>8, <1>9, NewInvoiceKeepsPaid

LEMMA MonthlyRunKeepsPaid ==
    ASSUME StateTyped, InvoicesTyped, SheetsOK, RunMonthlyBilling \/ RunBillingForMonth
    PROVE  PaidKept /\ UNCHANGED <<agreement, paid, deposits>>
  <1>1. MonthStart(today) \in Nat /\ MonthStart(today) + DaysInMonth \in Nat
    BY MonthStarts, TermsTyped, Calendar
  <1>2. Generate(MonthStart(today)) \/ Generate(MonthStart(today) + DaysInMonth)
    BY DEF RunMonthlyBilling, RunBillingForMonth
  <1> QED
    BY <1>1, <1>2, MonthKeepsPaid

LEMMA NoticeKeepsPaid ==
    ASSUME StateTyped, InvoicesTyped, NEW on \in Nat, GiveNotice(on)
    PROVE  PaidKept /\ UNCHANGED paid
  <1> DEFINE ends   == on + terms.notice * DaysInMonth
             months == MonthsBetween(ends, LockInEnd)
  <1>1. UNCHANGED paid
    BY DEF GiveNotice
  <1>2. \/ UNCHANGED invoices
        \/ /\ months > 0 /\ Len(invoices) < MaxInvoices
           /\ invoices' = Append(invoices, EarlyExit(ends, months, on))
    BY DEF GiveNotice
  <1>3. CASE UNCHANGED invoices
    BY <1>1, <1>3, NoneEdited
  <1>4. CASE /\ months > 0 /\ Len(invoices) < MaxInvoices
             /\ invoices' = Append(invoices, EarlyExit(ends, months, on))
    <2>1. DaysInMonth \in Nat /\ DaysInMonth > 0 /\ terms.notice \in Nat
          /\ terms.start \in Nat /\ terms.lockIn \in Nat
      BY Calendar, TermsTyped
    <2>2. ends \in Nat
      BY <2>1, ProductIsNat
    <2>3. LockInEnd \in Nat
      BY <2>1, ProductIsNat DEF LockInEnd
    <2>4. months \in Nat
      <3> HIDE DEF ends
      <3>1. CASE LockInEnd <= ends
        BY <3>1 DEF MonthsBetween
      <3>2. CASE ~(LockInEnd <= ends)
        <4>1. PICK n : n = LockInEnd - ends + DaysInMonth - 1
          OBVIOUS
        <4>2. n \in Nat
          BY <2>1, <2>2, <2>3, <3>2, <4>1
        <4>3. n \div DaysInMonth \in Nat
          BY <2>1, <4>2
        <4> QED
          BY <3>2, <4>1, <4>3 DEF MonthsBetween
      <3> QED
        BY <3>1, <3>2
    <2> HIDE DEF ends, months
    <2>5. EffectivePrice(ends) \in Nat
      BY PriceIsNat
    <2>6. PICK amount : amount = months * EffectivePrice(ends)
      OBVIOUS
    <2>7. amount \in Nat
      BY <2>4, <2>5, <2>6, ProductIsNat
    <2>8. PICK line : line = [type |-> "early_exit", amount |-> amount, of |-> 0, from |-> ends,
                              upto |-> LockInEnd]
      OBVIOUS
    <2>9. line \in Line /\ line.type # "deposit"
      BY <2>2, <2>3, <2>7, <2>8, Bounds DEF Line
    <2>10. Plain(<<line>>)
      BY <2>9, PlainOne
    <2>11. EarlyExit(ends, months, on)
              = NewInvoice(ends, LockInEnd, DueDate(ends, on), "issued", <<line>>)
      BY <2>6, <2>8 DEF EarlyExit
    <2>12. PICK inv : inv = EarlyExit(ends, months, on)
      OBVIOUS
    <2>13. DueDate(ends, on) \in Nat /\ "issued" \in Statuses
      BY <2>2, DueDateIsNat DEF Statuses
    <2>14. inv \in Invoice /\ inv.paid = 0 /\ ~Bills(inv, "deposit")
      <3>1. PICK lines : lines = <<line>>
        OBVIOUS
      <3>2. lines \in Seq(Line) /\ \A k \in DOMAIN lines : lines[k].type # "deposit"
        BY <2>10, <3>1 DEF Plain
      <3>3. PICK due : due = DueDate(ends, on)
        OBVIOUS
      <3>4. inv = NewInvoice(ends, LockInEnd, due, "issued", lines)
        BY <2>11, <2>12, <3>1, <3>3
      <3> QED
        BY <2>2, <2>3, <2>13, <3>2, <3>3, <3>4, InvoiceIsMade
    <2> QED
      BY <1>1, <1>4, <2>12, <2>14, AllAsTheyWere, NewInvoiceKeepsPaid
  <1> QED
    BY <1>2, <1>3, <1>4

LEMMA WithdrawalKeepsPaid ==
    ASSUME InvoicesTyped, WithdrawNotice
    PROVE  PaidKept /\ UNCHANGED paid
  <1>1. PICK sheets : sheets = invoices'
    OBVIOUS
  <1>2. /\ sheets = [i \in DOMAIN invoices |->
                       IF i \in ExitInvoices THEN Voided(invoices[i]) ELSE invoices[i]]
        /\ UNCHANGED paid
    BY <1>1 DEF WithdrawNotice
  <1>3. ASSUME NEW i \in DOMAIN invoices
        PROVE  Edited(invoices[i], sheets[i])
    <2>1. invoices[i] \in Invoice
      BY DEF InvoicesTyped
    <2>2. Edited(invoices[i], Voided(invoices[i])) /\ Edited(invoices[i], invoices[i])
      BY <2>1, VoidEdited DEF Edited
    <2>3. sheets[i] = Voided(invoices[i]) \/ sheets[i] = invoices[i]
      BY <1>2
    <2> QED
      BY <2>2, <2>3
  <1>4. AllEdited(sheets)
    <2>1. sheets = [i \in DOMAIN invoices |-> sheets[i]]
      BY <1>2
    <2> QED
      BY <1>3, <2>1 DEF AllEdited
  <1> QED
    BY <1>1, <1>2, <1>4, EditsKeepPaid
-----------------------------------------------------------------------------
(* Tables one row of which is added or changed *)

\* The rows with one more, the n-th.
Grown(rows, more, row, n) ==
    /\ Counted(more) /\ Len(more) = Len(rows) + 1
    /\ DOMAIN more = DOMAIN rows \union {n} /\ n \notin DOMAIN rows
    /\ n = Len(rows) + 1 /\ Len(rows) \in Nat /\ DOMAIN rows = 1..Len(rows)
    /\ \A k \in DOMAIN rows : more[k] = rows[k]
    /\ more[n] = row
    /\ \A S \in SUBSET DOMAIN rows :
          /\ SumOver(more, S) = SumOver(rows, S)
          /\ SumOver(more, S \union {n}) = SumOver(rows, S) + row.amount

\* The rows with the k-th replaced by one of the same amount.
Altered(rows, more, row, k) ==
    /\ Counted(more) /\ Len(more) = Len(rows) /\ DOMAIN more = DOMAIN rows
    /\ \A j \in DOMAIN rows : more[j] = IF j = k THEN row ELSE rows[j]
    /\ \A S \in SUBSET DOMAIN rows : SumOver(more, S) = SumOver(rows, S)

LEMMA RowAdded ==
    ASSUME NEW rows, Counted(rows), NEW row, row.amount \in Nat
    PROVE  Grown(rows, Append(rows, row), row, Len(rows) + 1)
  <1>0. PICK more : more = Append(rows, row)
    OBVIOUS
  <1>1. PICK n : n = Len(rows) + 1
    OBVIOUS
  <1>2. /\ IsSeq(rows) /\ Len(rows) \in Nat /\ DOMAIN rows = 1..Len(rows)
    BY SeqDomain DEF Counted
  <1>3. /\ IsSeq(more)
        /\ DOMAIN more = DOMAIN rows \union {n} /\ n \notin DOMAIN rows
        /\ \A k \in DOMAIN rows : more[k] = rows[k]
        /\ more[n] = row
    BY <1>0, <1>1, <1>2, AppendIsSeq
  <1>4. Counted(more)
    BY <1>3 DEF Counted
  <1>5. Len(more) = Len(rows) + 1
    <2>1. DOMAIN more = 1..n
      BY <1>1, <1>2, <1>3
    <2>2. Len(more) \in Nat /\ DOMAIN more = 1..Len(more)
      BY <1>3, SeqDomain
    <2>3. n \in 1..n /\ n \in Nat
      BY <1>1, <1>2
    <2> QED
      BY <1>1, <2>1, <2>2, <2>3
  <1>6. ASSUME NEW S \in SUBSET DOMAIN rows
        PROVE  /\ SumOver(more, S) = SumOver(rows, S)
               /\ SumOver(more, S \union {n}) = SumOver(rows, S) + row.amount
    <2>1. \A k \in S : k \in DOMAIN more /\ more[k].amount = rows[k].amount
      BY <1>3
    <2>2. SumOver(more, S) = SumOver(rows, S)
      BY <1>2, <2>1, SumOfTheSameRows
    <2>3. S \in SUBSET DOMAIN more /\ n \in DOMAIN more \ S
      BY <1>3
    <2>4. SumOver(more, S \union {n}) = SumOver(more, S) + more[n].amount
      BY <1>4, <2>3, SumOfOneMore
    <2> QED
      BY <1>3, <2>2, <2>4
  <1>7. Grown(rows, more, row, n)
    BY <1>1, <1>2, <1>3, <1>4, <1>5, <1>6 DEF Grown
  <1> QED
    BY <1>0, <1>1, <1>7

LEMMA RowChanged ==
    ASSUME NEW rows, Counted(rows), NEW k \in DOMAIN rows, NEW row, row.amount = rows[k].amount
    PROVE  Altered(rows, [rows EXCEPT ![k] = row], row, k)
  <1>0. PICK more : more = [rows EXCEPT ![k] = row]
    OBVIOUS
  <1>1. /\ IsSeq(rows) /\ Len(rows) \in Nat /\ DOMAIN rows = 1..Len(rows)
        /\ rows = [j \in 1..Len(rows) |-> rows[j]]
    BY SeqDomain DEF Counted
  <1>2. /\ DOMAIN more = DOMAIN rows
        /\ \A j \in DOMAIN rows : more[j] = IF j = k THEN row ELSE rows[j]
    BY <1>0
  <1>3. more = [j \in 1..Len(rows) |-> more[j]]
    <2>1. more = [j \in DOMAIN rows |-> IF j = k THEN row ELSE rows[j]]
      BY <1>0
    <2> QED
      BY <1>1, <2>1
  <1>4. IsSeq(more) /\ Len(more) = Len(rows)
    BY <1>1, <1>3, FunctionIsSeq
  <1>5. Counted(more)
    BY <1>2, <1>4 DEF Counted
  <1>6. \A j \in DOMAIN rows : more[j].amount = rows[j].amount
    BY <1>2
  <1>7. ASSUME NEW S \in SUBSET DOMAIN rows
        PROVE  SumOver(more, S) = SumOver(rows, S)
    BY <1>1, <1>2, <1>6, SumOfTheSameRows
  <1>8. Altered(rows, more, row, k)
    BY <1>2, <1>4, <1>5, <1>7 DEF Altered
  <1> QED
    BY <1>0, <1>8
-----------------------------------------------------------------------------
(* Payments, notes and refunds *)

LEMMA TablesCount ==
    ASSUME NEW P, NEW S, NEW N, NEW R, NEW D, TablesOK(P, S, N, R, D)
    PROVE  /\ Counted(P) /\ Counted(S) /\ Counted(N) /\ Counted(R)
           /\ \A i : /\ PaymentsOn(P, i) \in SUBSET DOMAIN P /\ AppliedTo(N, i) \in SUBSET DOMAIN N
                     /\ RefundedOn(P, R, i) \in SUBSET DOMAIN R
                     /\ SumOver(P, PaymentsOn(P, i)) \in Nat /\ SumOver(N, AppliedTo(N, i)) \in Nat
                     /\ SumOver(R, RefundedOn(P, R, i)) \in Nat /\ PaidBy(P, N, R, i) \in Int
           /\ \A p : RefundsOf(R, p) \in SUBSET DOMAIN R /\ SumOver(R, RefundsOf(R, p)) \in Nat
  <1>1. Counted(P) /\ Counted(S) /\ Counted(N) /\ Counted(R)
    BY DEF TablesOK, PaymentsTyped, ReportsTyped, NotesTyped, RefundsTyped, Counted, Payment, Report,
           Note, Refund
  <1>2. ASSUME NEW i
        PROVE  /\ PaymentsOn(P, i) \in SUBSET DOMAIN P /\ AppliedTo(N, i) \in SUBSET DOMAIN N
               /\ RefundedOn(P, R, i) \in SUBSET DOMAIN R
               /\ SumOver(P, PaymentsOn(P, i)) \in Nat /\ SumOver(N, AppliedTo(N, i)) \in Nat
               /\ SumOver(R, RefundedOn(P, R, i)) \in Nat /\ PaidBy(P, N, R, i) \in Int
    <2>1. /\ PaymentsOn(P, i) \in SUBSET DOMAIN P /\ AppliedTo(N, i) \in SUBSET DOMAIN N
          /\ RefundedOn(P, R, i) \in SUBSET DOMAIN R
      BY DEF PaymentsOn, AppliedTo, RefundedOn
    <2>2. /\ SumOver(P, PaymentsOn(P, i)) \in Nat /\ SumOver(N, AppliedTo(N, i)) \in Nat
          /\ SumOver(R, RefundedOn(P, R, i)) \in Nat
      BY <1>1, <2>1, SumIsANumber
    <2> QED
      BY <2>1, <2>2 DEF PaidBy
  <1>3. ASSUME NEW p
        PROVE  RefundsOf(R, p) \in SUBSET DOMAIN R /\ SumOver(R, RefundsOf(R, p)) \in Nat
    <2>1. RefundsOf(R, p) \in SUBSET DOMAIN R
      BY DEF RefundsOf
    <2> QED
      BY <1>1, <2>1, SumIsANumber
  <1> QED
    BY <1>1, <1>2, <1>3

\* What is paid on invoice i changes by d.
Moves(P, N, R, Q, M, T, i, d) ==
    /\ PaidBy(Q, M, T, i) = PaidBy(P, N, R, i) + d
    /\ \A j : j # i => PaidBy(Q, M, T, j) = PaidBy(P, N, R, j)

Stays(P, N, R, Q, M, T) == \A j : PaidBy(Q, M, T, j) = PaidBy(P, N, R, j)

LEMMA PaymentAdds ==
    ASSUME NEW P, NEW S, NEW N, NEW R, NEW D, TablesOK(P, S, N, R, D),
           Len(P) + Len(S) + Len(N) + Len(R) < MaxMoney, NEW row \in Payment, row.invoice \in D,
           NEW Q, NEW n, Grown(P, Q, row, n)
    PROVE  TablesOK(Q, S, N, R, D) /\ Moves(P, N, R, Q, N, R, row.invoice, row.amount)
  <1>1. PICK i : i = row.invoice
    OBVIOUS
  <1>2. PICK amount : amount = row.amount
    OBVIOUS
  <1>3. Counted(P) /\ Counted(R) /\ Counted(S) /\ Counted(N)
    BY TablesCount
  <1>4. amount \in Nat /\ i \in D
    BY <1>1, <1>2 DEF Payment
  <1>5. PaymentsTyped(Q, D) /\ RefundsTyped(R, Q)
    <2>1. PaymentsTyped(P, D) /\ RefundsTyped(R, P)
      BY DEF TablesOK
    <2> QED
      BY <2>1 DEF PaymentsTyped, RefundsTyped, Counted, Grown
  <1>6. Covered(Q, R)
    <2>1. ASSUME NEW p \in DOMAIN P
          PROVE  SumOver(R, RefundsOf(R, p)) <= Q[p].amount
      BY DEF TablesOK, Covered, Grown
    <2>2. RefundsOf(R, n) = {}
      BY DEF TablesOK, RefundsTyped, RefundsOf, Grown
    <2>3. SumOver(R, RefundsOf(R, n)) <= Q[n].amount
      <3>1. Q[n].amount \in Nat
        BY <1>2, <1>4 DEF Grown
      <3>2. SumOver(R, RefundsOf(R, n)) = 0
        BY <2>2, NothingToSum
      <3>3. \A m \in Nat : 0 <= m
        OBVIOUS
      <3>4. 0 <= Q[n].amount
        BY <3>1, <3>3, Zenon
      <3> QED
        BY <3>2, <3>4, Zenon
    <2> QED
      BY <2>1, <2>3 DEF Covered, Grown
  <1>7. Len(Q) + Len(S) + Len(N) + Len(R) <= MaxMoney
    <2>1. /\ Len(P) \in Nat /\ Len(S) \in Nat /\ Len(N) \in Nat /\ Len(R) \in Nat /\ MaxMoney \in Nat
      BY <1>3, SeqDomain, Bounds DEF Counted
    <2> QED
      BY <2>1 DEF Grown
  <1>8. TablesOK(Q, S, N, R, D)
    BY <1>5, <1>6, <1>7 DEF TablesOK
  <1>9. \A j : RefundedOn(Q, R, j) = RefundedOn(P, R, j)
    <2>1. \A k \in DOMAIN R : R[k].payment \in DOMAIN P
      BY DEF TablesOK, RefundsTyped
    <2> QED
      BY <2>1 DEF RefundedOn, Grown
  <1>10. PaymentsOn(Q, i) = PaymentsOn(P, i) \union {n}
    BY <1>1 DEF PaymentsOn, Grown
  <1>11. \A j : j # i => PaymentsOn(Q, j) = PaymentsOn(P, j)
    BY <1>1 DEF PaymentsOn, Grown
  <1>12. \A j : PaymentsOn(P, j) \in SUBSET DOMAIN P
    BY TablesCount
  <1>13. ASSUME NEW j, j # i
         PROVE  PaidBy(Q, N, R, j) = PaidBy(P, N, R, j)
    BY <1>9, <1>11, <1>12, <1>13 DEF PaidBy, Grown
  <1>14. PaidBy(Q, N, R, i) = PaidBy(P, N, R, i) + amount
    <2>1. PICK a : a = SumOver(P, PaymentsOn(P, i))
      OBVIOUS
    <2>2. PICK b : b = SumOver(N, AppliedTo(N, i))
      OBVIOUS
    <2>3. PICK c : c = SumOver(R, RefundedOn(P, R, i))
      OBVIOUS
    <2>4. a \in Nat /\ b \in Nat /\ c \in Nat
      BY <2>1, <2>2, <2>3, TablesCount
    <2>5. SumOver(Q, PaymentsOn(Q, i)) = a + amount
      BY <1>2, <1>10, <1>12, <2>1 DEF Grown
    <2>6. PaidBy(Q, N, R, i) = a + amount + b - c
      BY <1>9, <2>2, <2>3, <2>5 DEF PaidBy
    <2>7. PaidBy(P, N, R, i) = a + b - c
      BY <2>1, <2>2, <2>3 DEF PaidBy
    <2> QED
      BY <1>4, <2>4, <2>6, <2>7
  <1>15. Moves(P, N, R, Q, N, R, i, amount)
    BY <1>13, <1>14, Zenon DEF Moves
  <1> QED
    BY <1>1, <1>2, <1>8, <1>15

LEMMA NoteAdds ==
    ASSUME NEW P, NEW S, NEW N, NEW R, NEW D, TablesOK(P, S, N, R, D), NEW k \in DOMAIN N,
           N[k].status = "issued", NEW row \in Note, row.invoice = N[k].invoice,
           row.amount = N[k].amount, row.status = "applied", row.applied, NEW M,
           Altered(N, M, row, k)
    PROVE  TablesOK(P, S, M, R, D) /\ Moves(P, N, R, P, M, R, N[k].invoice, N[k].amount)
  <1>2. N[k] \in Note /\ N[k].invoice \in D /\ N[k].applied = FALSE
    BY DEF TablesOK, NotesTyped, Note
  <1>4. Counted(N)
    BY TablesCount
  <1>7. NotesTyped(M, D)
    <2>1. NotesTyped(N, D)
      BY DEF TablesOK
    <2> QED
      BY <1>2, <2>1 DEF NotesTyped, Counted, Altered
  <1>8. TablesOK(P, S, M, R, D)
    BY <1>7 DEF TablesOK, Altered
  <1>9. PICK i : i = N[k].invoice
    OBVIOUS
  <1>10. AppliedTo(M, i) = AppliedTo(N, i) \union {k} /\ k \notin AppliedTo(N, i)
    BY <1>2, <1>9 DEF AppliedTo, Altered
  <1>11. \A j : j # i => AppliedTo(M, j) = AppliedTo(N, j)
    BY <1>2, <1>9 DEF AppliedTo, Altered
  <1>12. \A j : AppliedTo(N, j) \in SUBSET DOMAIN N
    BY TablesCount
  <1>13. ASSUME NEW j, j # i
         PROVE  PaidBy(P, M, R, j) = PaidBy(P, N, R, j)
    BY <1>11, <1>12, <1>13 DEF PaidBy, Altered
  <1>14. PaidBy(P, M, R, i) = PaidBy(P, N, R, i) + N[k].amount
    <2>1. PICK a : a = SumOver(P, PaymentsOn(P, i))
      OBVIOUS
    <2>2. PICK b : b = SumOver(N, AppliedTo(N, i))
      OBVIOUS
    <2>3. PICK c : c = SumOver(R, RefundedOn(P, R, i))
      OBVIOUS
    <2>4. a \in Nat /\ b \in Nat /\ c \in Nat /\ N[k].amount \in Nat
      BY <1>2, <2>1, <2>2, <2>3, TablesCount DEF Note
    <2>5. AppliedTo(N, i) \union {k} \in SUBSET DOMAIN N
      BY <1>12
    <2>6. SumOver(M, AppliedTo(M, i)) = SumOver(N, AppliedTo(N, i) \union {k})
      BY <1>10, <2>5 DEF Altered
    <2>7. SumOver(N, AppliedTo(N, i) \union {k}) = b + N[k].amount
      BY <1>4, <1>10, <1>12, <2>2, SumOfOneMore
    <2>8. PaidBy(P, M, R, i) = a + (b + N[k].amount) - c
      BY <2>1, <2>3, <2>6, <2>7 DEF PaidBy
    <2>9. PaidBy(P, N, R, i) = a + b - c
      BY <2>1, <2>2, <2>3 DEF PaidBy
    <2> QED
      BY <2>4, <2>8, <2>9
  <1>15. Moves(P, N, R, P, M, R, i, N[k].amount)
    BY <1>13, <1>14, Zenon DEF Moves
  <1> QED
    BY <1>8, <1>9, <1>15

\* What is refunded, or is to be, of several payments.
RefundsOfThese(R, Q) == {k \in DOMAIN R : /\ R[k].payment \in Q
                                          /\ R[k].status \in {"pending", "completed"}}

\* As each payment covers its refunds, the payments on an invoice cover theirs together: so the
\* code's guard of one payment keeps what is paid on the invoice from falling below nothing.
LEMMA CoveredTogether ==
    ASSUME NEW P, NEW S, NEW N, NEW R, NEW D, TablesOK(P, S, N, R, D), NEW Q \in SUBSET DOMAIN P
    PROVE  SumOver(R, RefundsOfThese(R, Q)) <= SumOver(P, Q)
  <1> DEFINE F == {T \in SUBSET Q : SumOver(R, RefundsOfThese(R, T)) <= SumOver(P, T)}
  <1>1. Counted(P) /\ Counted(R) /\ Covered(P, R)
    BY TablesCount DEF TablesOK
  <1>2. {} \in F
    <2>1. RefundsOfThese(R, {}) = {}
      BY DEF RefundsOfThese
    <2>2. SumOver(R, RefundsOfThese(R, {})) = 0 /\ SumOver(P, {}) = 0
      BY <2>1, NothingToSum
    <2> QED
      BY <2>2
  <1>3. ASSUME NEW T \in SUBSET Q, T # {}, Rest(T) \in F
        PROVE  T \in F
    <2>1. PICK p : p = Picked(T)
      OBVIOUS
    <2>2. PICK U : U = Rest(T)
      OBVIOUS
    <2>3. p \in T /\ U = T \ {p} /\ T = U \union {p}
      BY <1>3, <2>1, <2>2 DEF Picked, Rest
    <2>4. RefundsOfThese(R, T) = RefundsOfThese(R, U) \union RefundsOf(R, p)
          /\ RefundsOfThese(R, U) \intersect RefundsOf(R, p) = {}
      BY <2>3 DEF RefundsOfThese, RefundsOf
    <2>5. RefundsOfThese(R, U) \in SUBSET DOMAIN R /\ RefundsOf(R, p) \in SUBSET DOMAIN R
      BY DEF RefundsOfThese, RefundsOf
    <2>6. PICK a : a = SumOver(R, RefundsOfThese(R, U))
      OBVIOUS
    <2>7. PICK b : b = SumOver(R, RefundsOf(R, p))
      OBVIOUS
    <2>8. PICK c : c = SumOver(P, U)
      OBVIOUS
    <2>9. PICK d : d = P[p].amount
      OBVIOUS
    <2>10. SumOver(R, RefundsOfThese(R, T)) = a + b
      BY <1>1, <2>4, <2>5, <2>6, <2>7, SumOfBoth
    <2>11. U \in SUBSET DOMAIN P /\ p \in DOMAIN P \ U
      BY <2>3
    <2>12. SumOver(P, U \union {p}) = c + d
      BY <1>1, <2>8, <2>9, <2>11, SumOfOneMore
    <2>13. a \in Nat /\ b \in Nat /\ c \in Nat /\ d \in Nat
      <3>1. a \in Nat /\ b \in Nat
        BY <1>1, <2>5, <2>6, <2>7, SumIsANumber
      <3>2. c \in Nat
        BY <1>1, <2>8, <2>11, SumIsANumber
      <3>3. d \in Nat
        BY <1>1, <2>9, <2>11 DEF Counted
      <3> QED
        BY <3>1, <3>2, <3>3
    <2>14. a <= c
      BY <1>3, <2>2, <2>6, <2>8
    <2>15. b <= d
      BY <1>1, <2>7, <2>9, <2>11 DEF Covered
    <2>16. SumOver(P, T) = c + d
      BY <2>3, <2>12
    <2>17. a + b <= c + d
      BY <2>13, <2>14, <2>15
    <2>18. SumOver(R, RefundsOfThese(R, T)) <= SumOver(P, T)
      BY <2>10, <2>16, <2>17, Zenon
    <2> QED
      BY <2>18
  <1>4. IsFiniteSet(Q)
    BY <1>1, RowsAreFinite DEF Counted
  <1> HIDE DEF F
  <1>5. Q \in F
    BY <1>2, <1>3, <1>4, SetsByPicking
  <1> QED
    BY <1>5 DEF F

\* A refund that completes takes back what was paid before.
LEMMA RefundSettles ==
    ASSUME NEW P, NEW S, NEW N, NEW R, NEW D, TablesOK(P, S, N, R, D), NEW k \in DOMAIN R,
           R[k].status = "pending", NEW row \in Refund, row.payment = R[k].payment,
           row.amount = R[k].amount, row.status = "completed", NEW M, Altered(R, M, row, k)
    PROVE  LET i == P[R[k].payment].invoice IN
           /\ TablesOK(P, S, N, M, D) /\ i \in D /\ R[k].amount \in Nat
           /\ PaidBy(P, N, R, i) >= R[k].amount
           /\ Moves(P, N, R, P, N, M, i, -R[k].amount)
  <1>2. R[k] \in Refund /\ R[k].payment \in DOMAIN P
    BY DEF TablesOK, RefundsTyped
  <1>3. R[k].amount \in Nat
    BY <1>2 DEF Refund
  <1>4. Counted(R) /\ Counted(P)
    BY TablesCount
  <1>7. RefundsTyped(M, P)
    <2>1. RefundsTyped(R, P)
      BY DEF TablesOK
    <2> QED
      BY <1>2, <2>1 DEF RefundsTyped, Counted, Altered
  <1>8. Covered(P, M)
    <2>1. \A p : RefundsOf(M, p) = RefundsOf(R, p)
      BY DEF RefundsOf, Altered
    <2>2. \A p : RefundsOf(R, p) \in SUBSET DOMAIN R
      BY TablesCount
    <2>3. \A p : SumOver(M, RefundsOf(M, p)) = SumOver(R, RefundsOf(R, p))
      BY <2>1, <2>2 DEF Altered
    <2>4. Covered(P, R)
      BY DEF TablesOK
    <2> QED
      BY <2>3, <2>4 DEF Covered
  <1>9. TablesOK(P, S, N, M, D)
    BY <1>7, <1>8 DEF TablesOK, Altered
  <1>10. PICK i : i = P[R[k].payment].invoice
    OBVIOUS
  <1>11. i \in D
    BY <1>2, <1>10 DEF TablesOK, PaymentsTyped
  <1>12. RefundedOn(P, M, i) = RefundedOn(P, R, i) \union {k} /\ k \notin RefundedOn(P, R, i)
    BY <1>10 DEF RefundedOn, Altered
  <1>13. \A j : j # i => RefundedOn(P, M, j) = RefundedOn(P, R, j)
    BY <1>10 DEF RefundedOn, Altered
  <1>14. \A j : RefundedOn(P, R, j) \in SUBSET DOMAIN R /\ PaymentsOn(P, j) \in SUBSET DOMAIN P
    BY TablesCount
  <1>15. ASSUME NEW j, j # i
         PROVE  PaidBy(P, N, M, j) = PaidBy(P, N, R, j)
    BY <1>13, <1>14, <1>15 DEF PaidBy, Altered
  <1>16. /\ PaidBy(P, N, M, i) = PaidBy(P, N, R, i) + -R[k].amount
         /\ PaidBy(P, N, R, i) >= R[k].amount
    <2>1. PICK a : a = SumOver(P, PaymentsOn(P, i))
      OBVIOUS
    <2>2. PICK b : b = SumOver(N, AppliedTo(N, i))
      OBVIOUS
    <2>3. PICK c : c = SumOver(R, RefundedOn(P, R, i))
      OBVIOUS
    <2>4. PICK d : d = R[k].amount
      OBVIOUS
    <2>5. a \in Nat /\ b \in Nat /\ c \in Nat /\ d \in Nat
      BY <1>3, <2>1, <2>2, <2>3, <2>4, TablesCount
    <2>6. RefundedOn(P, R, i) \union {k} \in SUBSET DOMAIN R
      BY <1>14
    <2>7. SumOver(M, RefundedOn(P, M, i)) = SumOver(R, RefundedOn(P, R, i) \union {k})
      BY <1>12, <2>6 DEF Altered
    <2>8. SumOver(R, RefundedOn(P, R, i) \union {k}) = c + d
      BY <1>4, <1>12, <1>14, <2>3, <2>4, SumOfOneMore
    <2>9. PaidBy(P, N, M, i) = a + b - (c + d)
      BY <2>1, <2>2, <2>7, <2>8 DEF PaidBy
    <2>10. PaidBy(P, N, R, i) = a + b - c
      BY <2>1, <2>2, <2>3 DEF PaidBy
    <2>11. c + d <= a
      <3>1. PICK Q : Q = PaymentsOn(P, i)
        OBVIOUS
      <3>2. SumOver(R, RefundsOfThese(R, Q)) <= a
        BY <1>14, <2>1, <3>1, CoveredTogether
      <3>3. RefundsOfThese(R, Q) \in SUBSET DOMAIN R
        BY DEF RefundsOfThese
      <3>4. RefundedOn(P, R, i) \union {k} \in SUBSET RefundsOfThese(R, Q)
        <4>1. \A j \in DOMAIN R : R[j].payment \in DOMAIN P
          BY DEF TablesOK, RefundsTyped
        <4> QED
          BY <1>10, <3>1, <4>1 DEF RefundedOn, RefundsOfThese, PaymentsOn
      <3>5. c + d <= SumOver(R, RefundsOfThese(R, Q))
        <4>1. SumOver(R, RefundedOn(P, R, i) \union {k}) <= SumOver(R, RefundsOfThese(R, Q))
          BY <1>4, <3>3, <3>4, SumOfFewer
        <4> QED
          BY <2>8, <4>1, Zenon
      <3>6. PICK e : e = SumOver(R, RefundsOfThese(R, Q))
        OBVIOUS
      <3>7. e \in Nat
        BY <1>4, <3>3, <3>6, SumIsANumber
      <3> QED
        BY <2>5, <3>2, <3>5, <3>6, <3>7
    <2>12. PaidBy(P, N, M, i) = PaidBy(P, N, R, i) + -d
      BY <2>5, <2>9, <2>10
    <2>13. PaidBy(P, N, R, i) >= d
      BY <2>5, <2>10, <2>11
    <2> QED
      BY <2>4, <2>12, <2>13, Zenon
  <1>17. Moves(P, N, R, P, N, M, i, -R[k].amount)
    BY <1>15, <1>16, Zenon DEF Moves
  <1> QED
    BY <1>3, <1>9, <1>10, <1>11, <1>16, <1>17, Zenon

LEMMA RefundAdds ==
    ASSUME NEW P, NEW S, NEW N, NEW R, NEW D, TablesOK(P, S, N, R, D),
           Len(P) + Len(S) + Len(N) + Len(R) < MaxMoney, NEW row \in Refund, row.payment \in DOMAIN P,
           row.amount <= P[row.payment].amount - SumOver(R, RefundsOf(R, row.payment)),
           row.status = "pending", NEW M, NEW n, Grown(R, M, row, n)
    PROVE  TablesOK(P, S, N, M, D) /\ Stays(P, N, R, P, N, M)
  <1>1. PICK p : p = row.payment
    OBVIOUS
  <1>2. Counted(P) /\ Counted(R) /\ Counted(S) /\ Counted(N)
    BY TablesCount
  <1>3. /\ Len(P) \in Nat /\ Len(S) \in Nat /\ Len(N) \in Nat /\ Len(R) \in Nat /\ MaxMoney \in Nat
        /\ DOMAIN P = 1..Len(P)
    BY <1>2, SeqDomain, Bounds DEF Counted
  <1>4. PICK amount : amount = row.amount
    OBVIOUS
  <1>5. amount \in Nat /\ p \in DOMAIN P
    BY <1>1, <1>4 DEF Refund
  <1>7. RefundsTyped(M, P)
    <2>1. RefundsTyped(R, P)
      BY DEF TablesOK
    <2> QED
      BY <2>1 DEF RefundsTyped, Counted, Grown
  <1>8. RefundsOf(M, p) = RefundsOf(R, p) \union {n}
    BY <1>1 DEF RefundsOf, Grown
  <1>9. \A q : q # p => RefundsOf(M, q) = RefundsOf(R, q)
    BY <1>1 DEF RefundsOf, Grown
  <1>10. \A q : RefundsOf(R, q) \in SUBSET DOMAIN R /\ SumOver(R, RefundsOf(R, q)) \in Nat
    BY TablesCount
  <1>11. Covered(P, M)
    <2>1. Covered(P, R)
      BY DEF TablesOK
    <2>2. ASSUME NEW q \in DOMAIN P, q # p
          PROVE  SumOver(M, RefundsOf(M, q)) <= P[q].amount
      <3>1. SumOver(M, RefundsOf(M, q)) = SumOver(R, RefundsOf(R, q))
        BY <1>9, <1>10, <2>2 DEF Grown
      <3> QED
        BY <2>1, <3>1 DEF Covered
    <2>3. SumOver(M, RefundsOf(M, p)) <= P[p].amount
      <3>1. PICK a : a = SumOver(R, RefundsOf(R, p))
        OBVIOUS
      <3>2. PICK d : d = P[p].amount
        OBVIOUS
      <3>3. a \in Nat /\ d \in Nat
        BY <1>2, <1>5, <1>10, <3>1, <3>2 DEF Counted
      <3>4. amount <= d - a
        BY <1>1, <1>4, <3>1, <3>2
      <3>5. SumOver(M, RefundsOf(M, p)) = a + amount
        BY <1>4, <1>8, <1>10, <3>1 DEF Grown
      <3>6. a + amount <= d
        BY <1>5, <3>3, <3>4
      <3> QED
        BY <3>2, <3>5, <3>6, Zenon
    <2> QED
      BY <2>2, <2>3 DEF Covered
  <1>12. Len(P) + Len(S) + Len(N) + Len(M) <= MaxMoney
    BY <1>3 DEF Grown
  <1>13. TablesOK(P, S, N, M, D)
    BY <1>7, <1>11, <1>12 DEF TablesOK
  <1>14. \A j : RefundedOn(P, M, j) = RefundedOn(P, R, j)
    BY DEF RefundedOn, Grown
  <1>15. \A j : RefundedOn(P, R, j) \in SUBSET DOMAIN R
    BY TablesCount
  <1>16. Stays(P, N, R, P, N, M)
    BY <1>14, <1>15 DEF PaidBy, Grown, Stays
  <1> QED
    BY <1>13, <1>16

LEMMA RefundFails ==
    ASSUME NEW P, NEW S, NEW N, NEW R, NEW D, TablesOK(P, S, N, R, D), NEW k \in DOMAIN R,
           R[k].status = "pending", NEW row \in Refund, row.payment = R[k].payment,
           row.amount = R[k].amount, row.status = "failed", NEW M, Altered(R, M, row, k)
    PROVE  TablesOK(P, S, N, M, D) /\ Stays(P, N, R, P, N, M)
  <1>2. R[k] \in Refund /\ R[k].payment \in DOMAIN P
    BY DEF TablesOK, RefundsTyped
  <1>4. Counted(R) /\ Counted(P)
    BY TablesCount
  <1>7. RefundsTyped(M, P)
    <2>1. RefundsTyped(R, P)
      BY DEF TablesOK
    <2> QED
      BY <1>2, <2>1 DEF RefundsTyped, Counted, Altered
  <1>8. Covered(P, M)
    <2> SUFFICES ASSUME NEW p \in DOMAIN P
                 PROVE  SumOver(M, RefundsOf(M, p)) <= P[p].amount
      BY DEF Covered
    <2>1. RefundsOf(M, p) \in SUBSET RefundsOf(R, p)
      BY DEF RefundsOf, Altered
    <2>2. RefundsOf(R, p) \in SUBSET DOMAIN R
      BY TablesCount
    <2>3. PICK a : a = SumOver(M, RefundsOf(M, p))
      OBVIOUS
    <2>4. a = SumOver(R, RefundsOf(M, p))
      BY <2>1, <2>2, <2>3 DEF Altered
    <2>5. PICK b : b = SumOver(R, RefundsOf(R, p))
      OBVIOUS
    <2>6. a <= b
      BY <1>4, <2>1, <2>2, <2>4, <2>5, SumOfFewer
    <2>7. PICK c : c = P[p].amount
      OBVIOUS
    <2>8. b <= c
      BY <2>5, <2>7 DEF TablesOK, Covered
    <2>9. a \in Nat /\ b \in Nat /\ c \in Nat
      <3>1. RefundsOf(M, p) \in SUBSET DOMAIN R
        BY <2>1, <2>2
      <3> QED
        BY <1>4, <2>2, <2>4, <2>5, <2>7, <3>1, SumIsANumber DEF Counted
    <2>10. a <= c
      BY <2>6, <2>8, <2>9
    <2> QED
      BY <2>3, <2>7, <2>10
  <1>9. TablesOK(P, S, N, M, D)
    BY <1>7, <1>8 DEF TablesOK, Altered
  <1>10. \A j : RefundedOn(P, M, j) = RefundedOn(P, R, j)
    BY DEF RefundedOn, Altered
  <1>11. \A j : RefundedOn(P, R, j) \in SUBSET DOMAIN R
    BY TablesCount
  <1>12. Stays(P, N, R, P, N, M)
    BY <1>10, <1>11 DEF PaidBy, Altered, Stays
  <1> QED
    BY <1>9, <1>12

LEMMA NoteMade ==
    ASSUME NEW P, NEW S, NEW N, NEW R, NEW D, TablesOK(P, S, N, R, D),
           Len(P) + Len(S) + Len(N) + Len(R) < MaxMoney, NEW row \in Note, row.invoice \in D,
           ~row.applied, NEW M, NEW n, Grown(N, M, row, n)
    PROVE  TablesOK(P, S, M, R, D) /\ Stays(P, N, R, P, M, R)
  <1>3. Counted(P) /\ Counted(R) /\ Counted(S) /\ Counted(N)
    BY TablesCount
  <1>4. /\ Len(P) \in Nat /\ Len(S) \in Nat /\ Len(N) \in Nat /\ Len(R) \in Nat /\ MaxMoney \in Nat
    BY <1>3, SeqDomain, Bounds DEF Counted
  <1>6. NotesTyped(M, D)
    <2>1. NotesTyped(N, D)
      BY DEF TablesOK
    <2> QED
      BY <2>1 DEF NotesTyped, Counted, Grown
  <1>7. Len(P) + Len(S) + Len(M) + Len(R) <= MaxMoney
    BY <1>4 DEF Grown
  <1>8. TablesOK(P, S, M, R, D)
    BY <1>6, <1>7 DEF TablesOK
  <1>9. \A j : AppliedTo(M, j) = AppliedTo(N, j)
    BY DEF AppliedTo, Grown
  <1>10. \A j : AppliedTo(N, j) \in SUBSET DOMAIN N
    BY TablesCount
  <1>11. Stays(P, N, R, P, M, R)
    BY <1>9, <1>10 DEF PaidBy, Grown, Stays
  <1> QED
    BY <1>8, <1>11

LEMMA NoteCancelled ==
    ASSUME NEW P, NEW S, NEW N, NEW R, NEW D, TablesOK(P, S, N, R, D), NEW k \in DOMAIN N,
           NEW row \in Note, row.invoice = N[k].invoice, row.amount = N[k].amount,
           row.status = "cancelled", row.applied = N[k].applied, NEW M, Altered(N, M, row, k)
    PROVE  TablesOK(P, S, M, R, D) /\ Stays(P, N, R, P, M, R)
  <1>2. N[k] \in Note /\ N[k].invoice \in D
    BY DEF TablesOK, NotesTyped
  <1>7. NotesTyped(M, D)
    <2>1. NotesTyped(N, D)
      BY DEF TablesOK
    <2> QED
      BY <1>2, <2>1 DEF NotesTyped, Counted, Altered
  <1>8. TablesOK(P, S, M, R, D)
    BY <1>7 DEF TablesOK, Altered
  <1>9. \A j : AppliedTo(M, j) = AppliedTo(N, j)
    BY DEF AppliedTo, Altered
  <1>10. \A j : AppliedTo(N, j) \in SUBSET DOMAIN N
    BY TablesCount
  <1>11. Stays(P, N, R, P, M, R)
    BY <1>9, <1>10 DEF PaidBy, Altered, Stays
  <1> QED
    BY <1>8, <1>11

LEMMA ReportMade ==
    ASSUME NEW P, NEW S, NEW N, NEW R, NEW D, TablesOK(P, S, N, R, D),
           Len(P) + Len(S) + Len(N) + Len(R) < MaxMoney, NEW row \in Report, row.invoice \in D,
           NEW M, NEW n, Grown(S, M, row, n)
    PROVE  TablesOK(P, M, N, R, D)
  <1>3. Counted(P) /\ Counted(R) /\ Counted(S) /\ Counted(N)
    BY TablesCount
  <1>4. /\ Len(P) \in Nat /\ Len(S) \in Nat /\ Len(N) \in Nat /\ Len(R) \in Nat /\ MaxMoney \in Nat
    BY <1>3, SeqDomain, Bounds DEF Counted
  <1>6. ReportsTyped(M, D)
    <2>1. ReportsTyped(S, D)
      BY DEF TablesOK
    <2> QED
      BY <2>1 DEF ReportsTyped, Counted, Grown
  <1>7. Len(P) + Len(M) + Len(N) + Len(R) <= MaxMoney
    BY <1>4 DEF Grown
  <1> QED
    BY <1>6, <1>7 DEF TablesOK

LEMMA ReportAnswered ==
    ASSUME NEW P, NEW S, NEW N, NEW R, NEW D, TablesOK(P, S, N, R, D), NEW k \in DOMAIN S,
           NEW row \in Report, row.invoice = S[k].invoice, NEW M, Altered(S, M, row, k)
    PROVE  TablesOK(P, M, N, R, D) /\ Len(M) = Len(S)
  <1>2. S[k] \in Report /\ S[k].invoice \in D
    BY DEF TablesOK, ReportsTyped
  <1>7. ReportsTyped(M, D)
    <2>1. ReportsTyped(S, D)
      BY DEF TablesOK
    <2> QED
      BY <1>2, <2>1 DEF ReportsTyped, Counted, Altered
  <1> QED
    BY <1>7 DEF TablesOK, Altered

\* On an invoice that was just made nothing is paid yet.
LEMMA TablesOfMore ==
    ASSUME NEW P, NEW S, NEW N, NEW R, NEW D, TablesOK(P, S, N, R, D), NEW E, D \subseteq E
    PROVE  TablesOK(P, S, N, R, E) /\ \A j \in E \ D : PaidBy(P, N, R, j) = 0
  <1>1. TablesOK(P, S, N, R, E)
    BY DEF TablesOK, PaymentsTyped, ReportsTyped, NotesTyped
  <1>2. ASSUME NEW j \in E \ D
        PROVE  PaidBy(P, N, R, j) = 0
    <2>1. PaymentsOn(P, j) = {}
      BY DEF TablesOK, PaymentsTyped, PaymentsOn
    <2>2. AppliedTo(N, j) = {}
      BY DEF TablesOK, NotesTyped, AppliedTo
    <2>3. RefundedOn(P, R, j) = {}
      BY DEF TablesOK, RefundsTyped, PaymentsTyped, RefundedOn
    <2>4. SumOver(P, {}) = 0 /\ SumOver(N, {}) = 0 /\ SumOver(R, {}) = 0
      BY NothingToSum
    <2>5. PaidBy(P, N, R, j) = 0 + 0 - 0
      BY <2>1, <2>2, <2>3, <2>4 DEF PaidBy
    <2> QED
      BY <2>5
  <1> QED
    BY <1>1, <1>2


\* The lemmas above for tables whose rows have names.
LEMMA Added ==
    ASSUME NEW rows, Counted(rows), NEW row, row.amount \in Nat, NEW more,
           more = Append(rows, row)
    PROVE  \E n : Grown(rows, more, row, n)
  BY RowAdded

LEMMA Changed ==
    ASSUME NEW rows, Counted(rows), NEW k \in DOMAIN rows, NEW row,
           row.amount = rows[k].amount, NEW more, more = [rows EXCEPT ![k] = row]
    PROVE  Altered(rows, more, row, k)
  <1>1. Altered(rows, [rows EXCEPT ![k] = row], row, k)
    BY RowChanged, Zenon
  <1> QED
    BY <1>1, Zenon
-----------------------------------------------------------------------------
(* The handlers of payments, notes and refunds *)

\* Of the invariant, what these handlers change.
Accounts == InvoicesTyped /\ MoneyTyped /\ PaidAsExplained

LEMMA AccountsKept ==
    ASSUME Accounts, PaidKept, UNCHANGED paid
    PROVE  Accounts'
  <1>1. PICK D : D = DOMAIN invoices
    OBVIOUS
  <1>2. PICK E : E = DOMAIN invoices'
    OBVIOUS
  <1>3. D \subseteq E /\ InvoicesTyped'
    BY <1>1, <1>2 DEF PaidKept
  <1>4. /\ TablesOK(payments, reports, notes, refunds, E)
        /\ \A j \in E \ D : PaidBy(payments, notes, refunds, j) = 0
    <2>1. TablesOK(payments, reports, notes, refunds, D)
      BY <1>1 DEF Accounts, MoneyTyped
    <2> QED
      BY <1>3, <2>1, TablesOfMore
  <1>5. payments' = payments /\ reports' = reports /\ notes' = notes /\ refunds' = refunds
    BY DEF paid
  <1>6. MoneyTyped'
    BY <1>2, <1>4, <1>5, Zenon DEF MoneyTyped
  <1>7. ASSUME NEW i \in E
        PROVE  invoices'[i].paid = PaidBy(payments, notes, refunds, i)
    <2>1. CASE i \in D
      <3>1. invoices'[i].paid = invoices[i].paid
        BY <1>1, <2>1 DEF PaidKept
      <3> QED
        BY <1>1, <2>1, <3>1 DEF Accounts, PaidAsExplained
    <2>2. CASE i \notin D
      <3>1. invoices'[i].paid = 0
        BY <1>1, <1>2, <2>2 DEF PaidKept
      <3> QED
        BY <1>4, <2>2, <3>1
    <2> QED
      BY <2>1, <2>2
  <1>8. PaidAsExplained'
    BY <1>2, <1>5, <1>7, Zenon DEF PaidAsExplained
  <1> QED
    BY <1>3, <1>6, <1>8 DEF Accounts

LEMMA InvoicesThere ==
    ASSUME InvoicesTyped
    PROVE  DOMAIN invoices \subseteq 1..MaxInvoices
  <1>1. DOMAIN invoices = 1..Len(invoices) /\ Len(invoices) \in Nat /\ Len(invoices) <= MaxInvoices
    BY SeqDomain DEF InvoicesTyped
  <1> QED
    BY <1>1, Bounds

\* Money on one invoice: the tables and what is paid on it change alike.
LEMMA AccountsFollow ==
    ASSUME Accounts, NEW i \in DOMAIN invoices, NEW inv \in Invoice,
           inv.lines = invoices[i].lines, invoices' = [invoices EXCEPT ![i] = inv],
           TablesOK(payments', reports', notes', refunds', DOMAIN invoices),
           NEW d, Moves(payments, notes, refunds, payments', notes', refunds', i, d),
           inv.paid = invoices[i].paid + d
    PROVE  Accounts'
  <1>1. PICK all : all = invoices'
    OBVIOUS
  <1>2. /\ IsSeq(invoices) /\ Len(invoices) <= MaxInvoices /\ Len(invoices) \in Nat
        /\ DOMAIN invoices = 1..Len(invoices)
        /\ \A j \in DOMAIN invoices :
              invoices[j] \in Invoice /\ (j # 1 => ~Bills(invoices[j], "deposit"))
    BY SeqDomain DEF Accounts, InvoicesTyped
  <1>3. /\ all = [j \in DOMAIN invoices |-> IF j = i THEN inv ELSE invoices[j]]
    BY <1>1, <1>2
  <1>4. /\ DOMAIN all = DOMAIN invoices
        /\ \A j \in DOMAIN invoices : all[j] = IF j = i THEN inv ELSE invoices[j]
        /\ all = [j \in 1..Len(invoices) |-> all[j]]
    BY <1>2, <1>3
  <1>5. IsSeq(all) /\ Len(all) = Len(invoices)
    BY <1>2, <1>4, FunctionIsSeq
  <1>6. \A j \in DOMAIN all : all[j] \in Invoice /\ (j # 1 => ~Bills(all[j], "deposit"))
    BY <1>2, <1>4 DEF Bills
  <1>7. InvoicesTyped'
    BY <1>1, <1>2, <1>5, <1>6 DEF InvoicesTyped
  <1>8. MoneyTyped'
    BY <1>1, <1>4, Zenon DEF MoneyTyped
  <1>9. ASSUME NEW j \in DOMAIN invoices
        PROVE  all[j].paid = PaidBy(payments', notes', refunds', j)
    <2>1. CASE j = i
      <3>1. all[j].paid = invoices[i].paid + d
        BY <1>4, <2>1
      <3>2. invoices[i].paid = PaidBy(payments, notes, refunds, i)
        BY DEF Accounts, PaidAsExplained
      <3>3. PaidBy(payments', notes', refunds', i) = PaidBy(payments, notes, refunds, i) + d
        BY Zenon DEF Moves
      <3> QED
        BY <2>1, <3>1, <3>2, <3>3, Zenon
    <2>2. CASE j # i
      <3>1. all[j].paid = invoices[j].paid
        BY <1>4, <2>2
      <3>2. invoices[j].paid = PaidBy(payments, notes, refunds, j)
        BY DEF Accounts, PaidAsExplained
      <3>3. PaidBy(payments', notes', refunds', j) = PaidBy(payments, notes, refunds, j)
        BY <2>2, Zenon DEF Moves
      <3> QED
        BY <3>1, <3>2, <3>3, Zenon
    <2> QED
      BY <2>1, <2>2
  <1>10. PaidAsExplained'
    BY <1>1, <1>4, <1>9, Zenon DEF PaidAsExplained
  <1> QED
    BY <1>7, <1>8, <1>10 DEF Accounts

LEMMA AccountsSame ==
    ASSUME Accounts, UNCHANGED invoices,
           TablesOK(payments', reports', notes', refunds', DOMAIN invoices),
           Stays(payments, notes, refunds, payments', notes', refunds')
    PROVE  Accounts'
  <1>1. InvoicesTyped'
    BY DEF Accounts, InvoicesTyped
  <1>2. MoneyTyped'
    BY Zenon DEF MoneyTyped
  <1>3. PaidAsExplained'
    BY Zenon DEF PaidAsExplained, Accounts, Stays
  <1> QED
    BY <1>1, <1>2, <1>3 DEF Accounts

\* A payment on an invoice, whatever became of the customer's reports.
LEMMA ReceivedCounts ==
    ASSUME Accounts, NEW i \in DOMAIN invoices, NEW amount \in Nat, Receive(i, amount),
           TablesOK(payments, reports', notes, refunds, DOMAIN invoices),
           Len(reports') = Len(reports), UNCHANGED <<notes, refunds>>
    PROVE  Accounts'
  <1>1. invoices[i] \in Invoice /\ DOMAIN invoices \subseteq 1..MaxInvoices
    BY InvoicesThere DEF Accounts, InvoicesTyped
  <1>2. PICK inv : inv = Pay(invoices[i], amount)
    OBVIOUS
  <1>3. inv \in Invoice /\ inv.paid = invoices[i].paid + amount /\ inv.lines = invoices[i].lines
    BY <1>1, <1>2, PaidMore
  <1>4. PICK S : S = reports'
    OBVIOUS
  <1>5. PICK Q : Q = payments'
    OBVIOUS
  <1>6. PICK row : row = [invoice |-> i, amount |-> amount]
    OBVIOUS
  <1>7. /\ Q = Append(payments, row)
        /\ Len(payments) + Len(S) + Len(notes) + Len(refunds) < MaxMoney
        /\ invoices' = [invoices EXCEPT ![i] = inv]
    BY <1>2, <1>4, <1>5, <1>6 DEF Receive, MoreMoney, InvoiceBecomes
  <1>8. row \in Payment /\ row.invoice = i /\ row.amount = amount
    BY <1>1, <1>6 DEF Payment
  <1>9. TablesOK(payments, S, notes, refunds, DOMAIN invoices)
    BY <1>4
  <1>10. PICK n : Grown(payments, Q, row, n)
    <2>1. Counted(payments)
      BY <1>9, TablesCount
    <2> QED
      BY <1>7, <1>8, <2>1, Added
  <1>11. TablesOK(Q, S, notes, refunds, DOMAIN invoices)
         /\ Moves(payments, notes, refunds, Q, notes, refunds, row.invoice, row.amount)
    BY <1>7, <1>8, <1>9, <1>10, PaymentAdds
  <1>12. notes' = notes /\ refunds' = refunds
    OBVIOUS
  <1> QED
    BY <1>3, <1>4, <1>5, <1>7, <1>8, <1>11, <1>12, AccountsFollow

LEMMA SumsAreNat ==
    ASSUME NEW due \in Int, NEW amount \in Sums(due)
    PROVE  amount \in Nat
  <1>1. CASE amount \in Parts
    BY <1>1, AmountsOfParts
  <1>2. CASE amount \notin Parts
    BY <1>2 DEF Sums
  <1> QED
    BY <1>1, <1>2

LEMMA PaymentsCount ==
    ASSUME Accounts, NEW i \in DOMAIN invoices, NEW amount \in Sums(Balance(invoices[i])),
           PaymentNew(i, amount) \/ PaymentSubmissionNew(i, amount)
    PROVE  Accounts'
  <1>1. invoices[i] \in Invoice /\ DOMAIN invoices \subseteq 1..MaxInvoices
        /\ TablesOK(payments, reports, notes, refunds, DOMAIN invoices)
    BY InvoicesThere DEF Accounts, InvoicesTyped, MoneyTyped
  <1>2. amount \in Nat
    BY <1>1, BalanceIsInt, SumsAreNat
  <1>3. CASE PaymentNew(i, amount)
    <2>1. Receive(i, amount) /\ reports' = reports /\ notes' = notes /\ refunds' = refunds
      BY <1>3 DEF PaymentNew
    <2>2. PICK S : S = reports'
      OBVIOUS
    <2>3. TablesOK(payments, S, notes, refunds, DOMAIN invoices) /\ Len(S) = Len(reports)
      BY <1>1, <2>1, <2>2
    <2> QED
      BY <1>2, <2>1, <2>2, <2>3, ReceivedCounts
  <1>4. CASE PaymentSubmissionNew(i, amount)
    <2>1. PICK S : S = reports'
      OBVIOUS
    <2>2. PICK row : row = [invoice |-> i, amount |-> amount, status |-> "pending"]
      OBVIOUS
    <2>3. row \in Report /\ row.invoice = i /\ row.amount \in Nat
      BY <1>1, <1>2, <2>2 DEF Report
    <2>4. /\ S = Append(reports, row)
          /\ Len(payments) + Len(reports) + Len(notes) + Len(refunds) < MaxMoney
          /\ payments' = payments /\ notes' = notes /\ refunds' = refunds /\ invoices' = invoices
      BY <1>4, <2>1, <2>2 DEF PaymentSubmissionNew, MoreMoney
    <2>5. PICK n : Grown(reports, S, row, n)
      <3>1. Counted(reports)
        BY <1>1, TablesCount
      <3> QED
        BY <2>3, <2>4, <3>1, Added
    <2>6. TablesOK(payments, S, notes, refunds, DOMAIN invoices)
      BY <1>1, <2>3, <2>4, <2>5, ReportMade
    <2>7. Stays(payments, notes, refunds, payments', notes', refunds')
      BY <2>4 DEF Stays
    <2> QED
      BY <2>1, <2>4, <2>6, <2>7, AccountsSame
  <1> QED
    BY <1>3, <1>4

LEMMA ReportsCount ==
    ASSUME Accounts, NEW k \in DOMAIN reports, SubmissionAccept(k) \/ SubmissionReject(k)
    PROVE  Accounts'
  <1>1. TablesOK(payments, reports, notes, refunds, DOMAIN invoices)
    BY DEF Accounts, MoneyTyped
  <1>2. reports[k].invoice \in DOMAIN invoices /\ reports[k].amount \in Nat
    BY <1>1 DEF TablesOK, ReportsTyped, Report
  <1>3. PICK S : S = reports'
    OBVIOUS
  <1>4. ASSUME NEW row, row = [reports[k] EXCEPT !.status = row.status],
               row.status \in {"pending", "accepted", "rejected"}, S = [reports EXCEPT ![k] = row]
        PROVE  TablesOK(payments, S, notes, refunds, DOMAIN invoices) /\ Len(S) = Len(reports)
    <2>1. reports[k] \in Report /\ Counted(reports)
      BY <1>1, TablesCount DEF TablesOK, ReportsTyped
    <2>2. /\ row \in Report /\ row.invoice = reports[k].invoice
          /\ row.amount = reports[k].amount
      BY <1>4, <2>1 DEF Report
    <2>3. Altered(reports, S, row, k)
      BY <1>4, <2>1, <2>2, Changed
    <2> QED
      BY <1>1, <2>2, <2>3, ReportAnswered
  <1>5. CASE SubmissionAccept(k)
    <2>1. PICK row : row = [reports[k] EXCEPT !.status = "accepted"]
      OBVIOUS
    <2>2. /\ Receive(reports[k].invoice, reports[k].amount) /\ notes' = notes /\ refunds' = refunds
          /\ S = [reports EXCEPT ![k] = row]
      BY <1>3, <1>5, <2>1 DEF SubmissionAccept
    <2>3. row.status = "accepted"
      <3>1. reports[k] \in Report
        BY <1>1 DEF TablesOK, ReportsTyped
      <3> QED
        BY <2>1, <3>1 DEF Report
    <2>4. TablesOK(payments, S, notes, refunds, DOMAIN invoices) /\ Len(S) = Len(reports)
      BY <1>4, <2>1, <2>2, <2>3
    <2> QED
      BY <1>2, <1>3, <2>2, <2>4, ReceivedCounts
  <1>6. CASE SubmissionReject(k)
    <2>1. PICK row : row = [reports[k] EXCEPT !.status = "rejected"]
      OBVIOUS
    <2>2. /\ S = [reports EXCEPT ![k] = row]
          /\ payments' = payments /\ notes' = notes /\ refunds' = refunds /\ invoices' = invoices
      BY <1>3, <1>6, <2>1 DEF SubmissionReject
    <2>3. row.status = "rejected"
      <3>1. reports[k] \in Report
        BY <1>1 DEF TablesOK, ReportsTyped
      <3> QED
        BY <2>1, <3>1 DEF Report
    <2>4. TablesOK(payments, S, notes, refunds, DOMAIN invoices)
      BY <1>4, <2>1, <2>2, <2>3
    <2>5. Stays(payments, notes, refunds, payments', notes', refunds')
      BY <2>2 DEF Stays
    <2> QED
      BY <1>3, <2>2, <2>4, <2>5, AccountsSame
  <1> QED
    BY <1>5, <1>6

LEMMA NotesCount ==
    ASSUME Accounts, NEW k \in DOMAIN notes, CreditNoteApply(k) \/ CreditNoteCancel(k)
    PROVE  Accounts'
  <1>1. TablesOK(payments, reports, notes, refunds, DOMAIN invoices)
    BY DEF Accounts, MoneyTyped
  <1>2. PICK M : M = notes'
    OBVIOUS
  <1>3. CASE CreditNoteApply(k)
    <2>1. PICK i : i = notes[k].invoice
      OBVIOUS
    <2>2. PICK inv : inv = Pay(invoices[i], notes[k].amount)
      OBVIOUS
    <2>3. PICK row : row = [notes[k] EXCEPT !.status = "applied", !.applied = TRUE]
      OBVIOUS
    <2>4. /\ notes[k].status = "issued"
          /\ M = [notes EXCEPT ![k] = row]
          /\ invoices' = [invoices EXCEPT ![i] = inv]
          /\ payments' = payments /\ reports' = reports /\ refunds' = refunds
      <3>1. M = [notes EXCEPT ![k].status = "applied", ![k].applied = TRUE]
        BY <1>2, <1>3 DEF CreditNoteApply
      <3>2. M = [notes EXCEPT ![k] = [notes[k] EXCEPT !.status = "applied", !.applied = TRUE]]
        BY <3>1
      <3> QED
        BY <1>3, <2>1, <2>2, <2>3, <3>2 DEF CreditNoteApply, InvoiceBecomes
    <2>5. notes[k] \in Note /\ i \in DOMAIN invoices /\ Counted(notes)
      BY <1>1, <2>1, TablesCount DEF TablesOK, NotesTyped
    <2>6. /\ row \in Note /\ row.invoice = notes[k].invoice /\ row.amount = notes[k].amount
          /\ row.status = "applied" /\ row.applied /\ notes[k].amount \in Nat
      BY <2>3, <2>5 DEF Note
    <2>7. Altered(notes, M, row, k)
      BY <2>4, <2>5, <2>6, Changed
    <2>8. /\ TablesOK(payments, reports, M, refunds, DOMAIN invoices)
          /\ Moves(payments, notes, refunds, payments, M, refunds, i, notes[k].amount)
      BY <1>1, <2>1, <2>4, <2>6, <2>7, NoteAdds
    <2>9. invoices[i] \in Invoice
      BY <2>5 DEF Accounts, InvoicesTyped
    <2>10. /\ inv \in Invoice /\ inv.paid = invoices[i].paid + notes[k].amount
          /\ inv.lines = invoices[i].lines
      BY <2>2, <2>6, <2>9, PaidMore
    <2> QED
      BY <1>2, <2>4, <2>5, <2>8, <2>10, AccountsFollow
  <1>4. CASE CreditNoteCancel(k)
    <2>1. PICK row : row = [notes[k] EXCEPT !.status = "cancelled"]
      OBVIOUS
    <2>2. /\ M = [notes EXCEPT ![k] = row]
          /\ payments' = payments /\ reports' = reports /\ refunds' = refunds /\ invoices' = invoices
      BY <1>2, <1>4, <2>1 DEF CreditNoteCancel
    <2>3. notes[k] \in Note /\ Counted(notes)
      BY <1>1, TablesCount DEF TablesOK, NotesTyped
    <2>4. /\ row \in Note /\ row.invoice = notes[k].invoice /\ row.amount = notes[k].amount
          /\ row.status = "cancelled" /\ row.applied = notes[k].applied
      BY <2>1, <2>3 DEF Note
    <2>5. Altered(notes, M, row, k)
      BY <2>2, <2>3, <2>4, Changed
    <2>6. /\ TablesOK(payments, reports, M, refunds, DOMAIN invoices)
          /\ Stays(payments, notes, refunds, payments, M, refunds)
      BY <1>1, <2>4, <2>5, NoteCancelled
    <2> QED
      BY <1>2, <2>2, <2>6, AccountsSame
  <1> QED
    BY <1>3, <1>4

LEMMA NewNotesCount ==
    ASSUME Accounts, NEW i \in DOMAIN invoices, NEW amount \in Sums(invoices[i].paid),
           CreditNoteNew(i, amount)
    PROVE  Accounts'
  <1>1. /\ DOMAIN invoices \subseteq 1..MaxInvoices /\ invoices[i].paid \in Nat
        /\ TablesOK(payments, reports, notes, refunds, DOMAIN invoices)
    BY InvoicesThere DEF Accounts, InvoicesTyped, MoneyTyped, Invoice
  <1>2. amount \in Nat
    BY <1>1, SumsAreNat
  <1>3. PICK M : M = notes'
    OBVIOUS
  <1>4. PICK row : row = [invoice |-> i, amount |-> amount, applied |-> FALSE, status |-> "issued"]
    OBVIOUS
  <1>5. /\ M = Append(notes, row)
        /\ Len(payments) + Len(reports) + Len(notes) + Len(refunds) < MaxMoney
        /\ payments' = payments /\ reports' = reports /\ refunds' = refunds /\ invoices' = invoices
    BY <1>3, <1>4 DEF CreditNoteNew, MoreMoney
  <1>6. row \in Note /\ row.invoice = i /\ row.amount \in Nat /\ ~row.applied
    BY <1>1, <1>2, <1>4 DEF Note
  <1>7. PICK n : Grown(notes, M, row, n)
    <2>1. Counted(notes)
      BY <1>1, TablesCount
    <2> QED
      BY <1>5, <1>6, <2>1, Added
  <1>8. /\ TablesOK(payments, reports, M, refunds, DOMAIN invoices)
        /\ Stays(payments, notes, refunds, payments, M, refunds)
    BY <1>1, <1>5, <1>6, <1>7, NoteMade
  <1> QED
    BY <1>3, <1>5, <1>8, AccountsSame

LEMMA RefundsCount ==
    ASSUME Accounts, NEW k \in DOMAIN refunds, RefundComplete(k) \/ RefundFail(k)
    PROVE  Accounts'
  <1>1. TablesOK(payments, reports, notes, refunds, DOMAIN invoices)
    BY DEF Accounts, MoneyTyped
  <1>2. PICK M : M = refunds'
    OBVIOUS
  <1>3. CASE RefundComplete(k)
    <2>1. PICK i : i = payments[refunds[k].payment].invoice
      OBVIOUS
    <2>2. PICK left : left = Max({0, invoices[i].paid - refunds[k].amount})
      OBVIOUS
    <2>3. PICK inv : inv = Refreshed([invoices[i] EXCEPT !.paid = left])
      OBVIOUS
    <2>4. PICK row : row = [refunds[k] EXCEPT !.status = "completed"]
      OBVIOUS
    <2>5. /\ refunds[k].status = "pending"
          /\ M = [refunds EXCEPT ![k] = row]
          /\ invoices' = [invoices EXCEPT ![i] = inv]
          /\ payments' = payments /\ reports' = reports /\ notes' = notes
      BY <1>2, <1>3, <2>1, <2>2, <2>3, <2>4 DEF RefundComplete, InvoiceBecomes
    <2>6. PICK d : d = refunds[k].amount
      OBVIOUS
    <2>7. refunds[k] \in Refund /\ Counted(refunds)
      BY <1>1, TablesCount DEF TablesOK, RefundsTyped
    <2>8. /\ row \in Refund /\ row.payment = refunds[k].payment /\ row.amount = refunds[k].amount
          /\ row.status = "completed"
      BY <2>4, <2>7 DEF Refund
    <2>9. Altered(refunds, M, row, k)
      BY <2>5, <2>7, <2>8, Changed
    <2>10. /\ TablesOK(payments, reports, notes, M, DOMAIN invoices)
           /\ i \in DOMAIN invoices /\ d \in Nat
           /\ PaidBy(payments, notes, refunds, i) >= d
           /\ Moves(payments, notes, refunds, payments, notes, M, i, -d)
      BY <1>1, <2>1, <2>5, <2>6, <2>8, <2>9, RefundSettles
    <2>11. invoices[i] \in Invoice /\ invoices[i].paid = PaidBy(payments, notes, refunds, i)
      BY <2>10 DEF Accounts, InvoicesTyped, PaidAsExplained
    <2>12. invoices[i].paid \in Nat /\ invoices[i].paid >= d
      BY <2>10, <2>11, InvoiceFields
    <2>13. left = invoices[i].paid - d /\ left \in Nat
      BY <2>2, <2>6, <2>10, <2>12, MaxOfTwo
    <2>14. inv \in Invoice /\ inv.paid = left /\ inv.lines = invoices[i].lines
      BY <2>3, <2>11, <2>13, MoneyChanged
    <2>15. inv.paid = invoices[i].paid + -d
      BY <2>10, <2>12, <2>13, <2>14
    <2> QED
      BY <1>2, <2>5, <2>10, <2>14, <2>15, AccountsFollow
  <1>4. CASE RefundFail(k)
    <2>1. PICK row : row = [refunds[k] EXCEPT !.status = "failed"]
      OBVIOUS
    <2>2. /\ M = [refunds EXCEPT ![k] = row]
          /\ refunds[k].status = "pending"
          /\ payments' = payments /\ reports' = reports /\ notes' = notes /\ invoices' = invoices
      BY <1>2, <1>4, <2>1 DEF RefundFail
    <2>3. refunds[k] \in Refund /\ Counted(refunds)
      BY <1>1, TablesCount DEF TablesOK, RefundsTyped
    <2>4. /\ row \in Refund /\ row.payment = refunds[k].payment /\ row.amount = refunds[k].amount
          /\ row.status = "failed"
      BY <2>1, <2>3 DEF Refund
    <2>5. Altered(refunds, M, row, k)
      BY <2>2, <2>3, <2>4, Changed
    <2>6. /\ TablesOK(payments, reports, notes, M, DOMAIN invoices)
          /\ Stays(payments, notes, refunds, payments, notes, M)
      BY <1>1, <2>2, <2>4, <2>5, RefundFails
    <2> QED
      BY <1>2, <2>2, <2>6, AccountsSame
  <1> QED
    BY <1>3, <1>4

LEMMA NewRefundsCount ==
    ASSUME Accounts, NEW p \in DOMAIN payments, NEW amount \in Sums(payments[p].amount),
           RefundNew(p, amount)
    PROVE  Accounts'
  <1>1. TablesOK(payments, reports, notes, refunds, DOMAIN invoices)
    BY DEF Accounts, MoneyTyped
  <1>2. payments[p].amount \in Nat
    BY <1>1 DEF TablesOK, PaymentsTyped, Payment
  <1>3. amount \in Nat
    BY <1>2, SumsAreNat
  <1>4. PICK M : M = refunds'
    OBVIOUS
  <1>5. PICK row : row = [payment |-> p, amount |-> amount, status |-> "pending"]
    OBVIOUS
  <1>6. /\ M = Append(refunds, row)
        /\ Len(payments) + Len(reports) + Len(notes) + Len(refunds) < MaxMoney
        /\ amount <= Refundable(p)
        /\ payments' = payments /\ reports' = reports /\ notes' = notes /\ invoices' = invoices
    BY <1>4, <1>5 DEF RefundNew, MoreMoney
  <1>7. p \in 1..MaxMoney /\ Counted(refunds)
    <2>1. /\ Counted(payments) /\ Counted(reports) /\ Counted(notes) /\ Counted(refunds)
          /\ Len(payments) + Len(reports) + Len(notes) + Len(refunds) <= MaxMoney
      BY <1>1, TablesCount DEF TablesOK
    <2>2. /\ Len(payments) \in Nat /\ Len(reports) \in Nat /\ Len(notes) \in Nat
          /\ Len(refunds) \in Nat /\ MaxMoney \in Nat /\ DOMAIN payments = 1..Len(payments)
      BY <2>1, SeqDomain, Bounds DEF Counted
    <2> QED
      BY <2>1, <2>2
  <1>8. /\ row \in Refund /\ row.payment = p /\ row.amount = amount /\ row.status = "pending"
    BY <1>3, <1>5, <1>7 DEF Refund
  <1>9. row.amount <= payments[row.payment].amount
                        - SumOver(refunds, RefundsOf(refunds, row.payment))
    BY <1>6, <1>8, SumsOfRows
  <1>10. PICK n : Grown(refunds, M, row, n)
    BY <1>3, <1>6, <1>7, <1>8, Added
  <1>11. /\ TablesOK(payments, reports, notes, M, DOMAIN invoices)
         /\ Stays(payments, notes, refunds, payments, notes, M)
    BY <1>1, <1>6, <1>8, <1>9, <1>10, RefundAdds
  <1> QED
    BY <1>4, <1>6, <1>11, AccountsSame
-----------------------------------------------------------------------------
(* The deposit's ledger *)

LEMMA LedgerGrows ==
    ASSUME NEW D, LedgerOK(D), NEW row \in Entry, NEW E, NEW n, Grown(D, E, row, n),
           row.type = "received" => row.invoice = 1 /\ \A k \in DOMAIN D : D[k].type # "received",
           row.type \notin {"received", "reversal"} =>
               row.amount <= SumOver(D, Ins(D)) - SumOver(D, Outs(D))
    PROVE  LedgerOK(E)
  <1>1. PICK a : a = SumOver(D, Ins(D))
    OBVIOUS
  <1>2. PICK b : b = SumOver(D, Outs(D))
    OBVIOUS
  <1>3. PICK c : c = row.amount
    OBVIOUS
  <1>4. a \in Nat /\ b \in Nat /\ c \in Nat /\ b <= a
    BY <1>1, <1>2, <1>3, LedgerSums DEF LedgerOK, Entry
  <1>5. Ins(D) \in SUBSET DOMAIN D /\ Outs(D) \in SUBSET DOMAIN D
    BY DEF Ins, Outs
  <1>6. /\ IsSeq(E) /\ \A k \in DOMAIN E : E[k] \in Entry /\ (E[k].type = "received" => E[k].invoice = 1)
    BY DEF LedgerOK, Grown, Counted
  <1>7. \A j, k \in DOMAIN E : E[j].type = "received" /\ E[k].type = "received" => j = k
    BY DEF LedgerOK, Grown
  <1>8. SumOver(E, Outs(E)) <= SumOver(E, Ins(E))
    <2>1. CASE row.type \in {"received", "reversal"}
      <3>1. Ins(E) = Ins(D) \union {n} /\ Outs(E) = Outs(D)
        BY <2>1 DEF Ins, Outs, Grown
      <3>2. SumOver(E, Ins(E)) = a + c
        BY <1>1, <1>3, <1>5, <3>1 DEF Grown
      <3>3. SumOver(E, Outs(E)) = b
        BY <1>2, <1>5, <3>1 DEF Grown
      <3>4. b <= a + c
        BY <1>4
      <3> QED
        BY <3>2, <3>3, <3>4, Zenon
    <2>2. CASE row.type \notin {"received", "reversal"}
      <3>1. Outs(E) = Outs(D) \union {n} /\ Ins(E) = Ins(D)
        BY <2>2 DEF Ins, Outs, Grown
      <3>2. SumOver(E, Outs(E)) = b + c
        BY <1>2, <1>3, <1>5, <3>1 DEF Grown
      <3>3. SumOver(E, Ins(E)) = a
        BY <1>1, <1>5, <3>1 DEF Grown
      <3>4. c <= a - b
        BY <1>1, <1>2, <1>3, <2>2
      <3>5. b + c <= a
        BY <1>4, <3>4
      <3> QED
        BY <3>2, <3>3, <3>5, Zenon
    <2> QED
      BY <2>1, <2>2
  <1> QED
    BY <1>6, <1>7, <1>8 DEF LedgerOK

\* Neither a forfeit nor a reversal: what was given back stays as it was.
LEMMA ForfeitsStay ==
    ASSUME NEW D, LedgerOK(D), NEW row, row.type # "reversal", ~row.forfeit, NEW E, NEW n,
           Grown(D, E, row, n), NEW open, GivenBack(D, open)
    PROVE  GivenBack(E, open)
  <1>1. ForfeitsIn(E) = ForfeitsIn(D) /\ ReversalsIn(E) = ReversalsIn(D)
    BY DEF ForfeitsIn, ReversalsIn, Grown
  <1>2. /\ ForfeitsIn(D) \in SUBSET DOMAIN D /\ ReversalsIn(D) \in SUBSET DOMAIN D
        /\ open \in SUBSET DOMAIN D
    BY LedgerSums DEF GivenBack
  <1>3. /\ SumOver(E, ForfeitsIn(D)) = SumOver(D, ForfeitsIn(D))
        /\ SumOver(E, ReversalsIn(D)) = SumOver(D, ReversalsIn(D))
        /\ SumOver(E, open) = SumOver(D, open)
    BY <1>2 DEF Grown
  <1> QED
    BY <1>1, <1>3 DEF GivenBack

LEMMA ForfeitOpens ==
    ASSUME NEW D, LedgerOK(D), NEW row, row.type = "deduction", row.forfeit, NEW E, NEW n,
           Grown(D, E, row, n), GivenBack(D, {})
    PROVE  GivenBack(E, {n})
  <1>1. ForfeitsIn(E) = ForfeitsIn(D) \union {n} /\ ReversalsIn(E) = ReversalsIn(D)
        /\ n \notin ForfeitsIn(D)
    BY DEF ForfeitsIn, ReversalsIn, Grown
  <1>2. /\ ForfeitsIn(D) \in SUBSET DOMAIN D /\ ReversalsIn(D) \in SUBSET DOMAIN D
        /\ {} \in SUBSET DOMAIN D
    BY LedgerSums
  <1>3. IsFiniteSet(ForfeitsIn(D)) /\ IsFiniteSet(ReversalsIn(D))
    BY <1>2, RowsAreFinite DEF LedgerOK
  <1>4. Cardinality(ForfeitsIn(D)) = Cardinality(ReversalsIn(D))
    BY <1>3, FS_EmptySet, FS_CardinalityType DEF GivenBack
  <1>5. Cardinality(ForfeitsIn(E)) = Cardinality(ForfeitsIn(D)) + 1
    BY <1>1, <1>3, FS_AddElement
  <1>6. Cardinality({n}) = 1
    BY FS_Singleton
  <1>7. PICK a : a = SumOver(D, ForfeitsIn(D))
    OBVIOUS
  <1>8. a = SumOver(D, ReversalsIn(D)) /\ a \in Nat /\ SumOver(D, {}) = 0
    <2>1. SumOver(D, {}) = 0
      BY NothingToSum
    <2>2. a \in Nat /\ SumOver(D, ReversalsIn(D)) \in Nat
      BY <1>2, <1>7, LedgerSums
    <2>3. a = SumOver(D, ReversalsIn(D)) + SumOver(D, {})
      BY <1>7 DEF GivenBack
    <2> QED
      BY <2>1, <2>2, <2>3
  <1>9. SumOver(E, ForfeitsIn(E)) = a + row.amount
    BY <1>1, <1>2, <1>7 DEF Grown
  <1>10. SumOver(E, ReversalsIn(E)) = a
    BY <1>1, <1>2, <1>8 DEF Grown
  <1>11. SumOver(E, {n}) = row.amount
    <2>1. SumOver(E, {} \union {n}) = SumOver(D, {}) + row.amount
      BY <1>2 DEF Grown
    <2>2. {} \union {n} = {n}
      OBVIOUS
    <2>3. row.amount \in Nat
      BY DEF Grown, Counted
    <2> QED
      BY <1>8, <2>1, <2>2, <2>3
  <1>12. \A k \in ForfeitsIn(E) : k <= n
    BY <1>1, <1>2 DEF Grown
  <1>13. {n} \subseteq ForfeitsIn(E) /\ n \in ForfeitsIn(E)
    BY <1>1
  <1> QED
    BY <1>1, <1>4, <1>5, <1>6, <1>9, <1>10, <1>11, <1>12, <1>13 DEF GivenBack

LEMMA ReversalCloses ==
    ASSUME NEW D, LedgerOK(D), NEW l, GivenBack(D, {l}), NEW row, row.type = "reversal",
           ~row.forfeit, row.amount = D[l].amount, NEW E, NEW n, Grown(D, E, row, n)
    PROVE  GivenBack(E, {})
  <1>1. ForfeitsIn(E) = ForfeitsIn(D) /\ ReversalsIn(E) = ReversalsIn(D) \union {n}
        /\ n \notin ReversalsIn(D)
    BY DEF ForfeitsIn, ReversalsIn, Grown
  <1>2. /\ ForfeitsIn(D) \in SUBSET DOMAIN D /\ ReversalsIn(D) \in SUBSET DOMAIN D
        /\ {} \in SUBSET DOMAIN D /\ l \in DOMAIN D
    BY LedgerSums DEF GivenBack
  <1>3. IsFiniteSet(ForfeitsIn(D)) /\ IsFiniteSet(ReversalsIn(D))
    BY <1>2, RowsAreFinite DEF LedgerOK
  <1>4. Cardinality(ForfeitsIn(D)) = Cardinality(ReversalsIn(D)) + 1
    BY FS_Singleton DEF GivenBack
  <1>5. Cardinality(ReversalsIn(E)) = Cardinality(ReversalsIn(D)) + 1
    BY <1>1, <1>3, FS_AddElement
  <1>6. Cardinality({}) = 0 /\ Cardinality(ReversalsIn(D)) \in Nat
    BY <1>3, FS_EmptySet, FS_CardinalityType
  <1>7. PICK b : b = SumOver(D, ReversalsIn(D))
    OBVIOUS
  <1>8. b \in Nat /\ row.amount \in Nat
    BY <1>2, <1>7, LedgerSums DEF Grown, Counted
  <1>9. SumOver(D, {l}) = row.amount
    <2>1. Counted(D) /\ SumOver(D, {}) = 0
      BY LedgerSums, NothingToSum
    <2>2. l \in DOMAIN D \ {} /\ {} \union {l} = {l}
      BY <1>2
    <2>3. SumOver(D, {} \union {l}) = SumOver(D, {}) + D[l].amount
      BY <1>2, <2>1, <2>2, SumOfOneMore
    <2> QED
      BY <1>8, <2>1, <2>2, <2>3
  <1>10. SumOver(D, ForfeitsIn(D)) = b + row.amount
    BY <1>7, <1>9 DEF GivenBack
  <1>11. SumOver(E, ForfeitsIn(E)) = b + row.amount
    BY <1>1, <1>2, <1>10 DEF Grown
  <1>12. SumOver(E, ReversalsIn(E)) = b + row.amount
    BY <1>1, <1>2, <1>7 DEF Grown
  <1>13. SumOver(E, {}) = 0
    BY NothingToSum
  <1>14. /\ SumOver(E, ForfeitsIn(E)) = SumOver(E, ReversalsIn(E)) + SumOver(E, {})
         /\ Cardinality(ForfeitsIn(E)) = Cardinality(ReversalsIn(E)) + Cardinality({})
    BY <1>1, <1>4, <1>5, <1>6, <1>8, <1>11, <1>12, <1>13
  <1> QED
    BY <1>14 DEF GivenBack

\* The elements of F after the first r of them; here that is the last one or none.
After(F, r) == {k \in F : Cardinality({j \in F : j <= k}) > r}
LastOrNone(F, open) == open = {} \/ \E l \in F : open = {l} /\ \A k \in F : k <= l

LEMMA AfterTheFirst ==
    ASSUME NEW F, IsFiniteSet(F), NEW r \in Nat, NEW open, F \subseteq Nat,
           Cardinality(F) = r + Cardinality(open),
           LastOrNone(F, open)
    PROVE  After(F, r) = open
  <1>1. Cardinality(F) \in Nat
    BY FS_CardinalityType
  <1>2. ASSUME NEW T \in SUBSET F
        PROVE  Cardinality(T) \in Nat /\ Cardinality(T) <= Cardinality(F)
    BY FS_Subset, FS_CardinalityType
  <1>3. CASE open = {}
    <2>1. Cardinality(F) = r
      BY <1>1, <1>3, FS_EmptySet
    <2>2. ASSUME NEW k \in F
          PROVE  ~(Cardinality({j \in F : j <= k}) > r)
      <3>1. {j \in F : j <= k} \in SUBSET F
        OBVIOUS
      <3> QED
        BY <1>2, <2>1, <3>1
    <2> QED
      BY <1>3, <2>2 DEF After
  <1>4. CASE \E l \in F : open = {l} /\ \A k \in F : k <= l
    <2>1. PICK l \in F : open = {l} /\ \A k \in F : k <= l
      BY <1>4
    <2>2. Cardinality(F) = r + 1
      BY <2>1, FS_Singleton
    <2>3. Cardinality({j \in F : j <= l}) > r
      <3>1. {j \in F : j <= l} = F
        BY <2>1
      <3> QED
        BY <2>2, <3>1
    <2>4. ASSUME NEW k \in F, k # l
          PROVE  ~(Cardinality({j \in F : j <= k}) > r)
      <3>1. PICK T : T = {j \in F : j <= k}
        OBVIOUS
      <3>2. k <= l /\ k \in Nat /\ l \in Nat
        BY <2>1
      <3>3. T \in SUBSET (F \ {l})
        BY <2>4, <3>1, <3>2
      <3>4. IsFiniteSet(F \ {l}) /\ Cardinality(F \ {l}) = r
        BY <2>1, <2>2, FS_RemoveElement
      <3>5. Cardinality(T) <= r /\ Cardinality(T) \in Nat
        BY <3>3, <3>4, FS_Subset, FS_CardinalityType
      <3> QED
        BY <3>1, <3>5
    <2> QED
      BY <2>1, <2>3, <2>4 DEF After
  <1> QED
    BY <1>3, <1>4 DEF LastOrNone

LEMMA LostIsOpen ==
    ASSUME LedgerOK(deposits), NEW open, GivenBack(deposits, open)
    PROVE  Lost = open
  <1>1. Forfeits = ForfeitsIn(deposits) /\ Reversals = ReversalsIn(deposits)
    BY DEF Forfeits, Reversals, ForfeitsIn, ReversalsIn
  <1>2. /\ ForfeitsIn(deposits) \in SUBSET DOMAIN deposits
        /\ ReversalsIn(deposits) \in SUBSET DOMAIN deposits
    BY LedgerSums
  <1>3. /\ IsFiniteSet(ForfeitsIn(deposits)) /\ IsFiniteSet(ReversalsIn(deposits))
        /\ DOMAIN deposits \subseteq Nat
    BY <1>2, RowsAreFinite, SeqDomain DEF LedgerOK
  <1>4. Cardinality(ReversalsIn(deposits)) \in Nat
    BY <1>3, FS_CardinalityType
  <1>5. After(ForfeitsIn(deposits), Cardinality(ReversalsIn(deposits))) = open
    <2>1. PICK F : F = ForfeitsIn(deposits)
      OBVIOUS
    <2>2. PICK r \in Nat : r = Cardinality(ReversalsIn(deposits))
      BY <1>4
    <2>3. /\ IsFiniteSet(F) /\ F \subseteq Nat /\ Cardinality(F) = r + Cardinality(open)
          /\ LastOrNone(F, open) /\ r \in Nat
      BY <1>2, <1>3, <2>1, <2>2 DEF GivenBack, LastOrNone
    <2>4. After(F, r) = open
      BY <2>3, AfterTheFirst
    <2> QED
      BY <2>1, <2>2, <2>4
  <1> QED
    BY <1>1, <1>5, Zenon DEF Lost, After

LEMMA OneInSequence ==
    /\ SetToSeq({}) = <<>>
    /\ \A l : SetToSeq({l}) = <<l>>
  <1>1. ASSUME NEW S, IsFiniteSet(S), \E f \in [1..Cardinality(S) -> S] : IsInjective(f)
        PROVE  SetToSeq(S) \in [1..Cardinality(S) -> S]
    BY <1>1 DEF SetToSeq
  <1>2. SetToSeq({}) = <<>>
    <2>1. Cardinality({}) = 0 /\ IsFiniteSet({}) /\ 1..0 = {}
      BY FS_EmptySet
    <2>2. [x \in {} |-> x] \in [1..Cardinality({}) -> {}] /\ IsInjective([x \in {} |-> x])
      BY <2>1 DEF IsInjective
    <2>3. SetToSeq({}) \in [1..Cardinality({}) -> {}]
      BY <1>1, <2>1, <2>2
    <2> QED
      BY <2>1, <2>3
  <1>3. ASSUME NEW l
        PROVE  SetToSeq({l}) = <<l>>
    <2>1. Cardinality({l}) = 1 /\ IsFiniteSet({l}) /\ 1..1 = {1}
      BY FS_Singleton
    <2>2. [x \in {1} |-> l] \in [1..Cardinality({l}) -> {l}] /\ IsInjective([x \in {1} |-> l])
      BY <2>1 DEF IsInjective
    <2>3. SetToSeq({l}) \in [1..Cardinality({l}) -> {l}]
      BY <1>1, <2>1, <2>2
    <2>4. PICK s : s = SetToSeq({l})
      OBVIOUS
    <2>5. s = [x \in 1..1 |-> s[x]] /\ s[1] = l
      BY <2>1, <2>3, <2>4
    <2> QED
      BY <2>1, <2>4, <2>5
  <1> QED
    BY <1>2, <1>3
-----------------------------------------------------------------------------
(* The handlers of the deposit *)

LEMMA DepositsKept ==
    ASSUME DepositInv, deposits' = deposits, sub'.ends = NoDate => sub.ends = NoDate
    PROVE  DepositInv'
  <1>1. LedgerOK(deposits')
    BY DEF DepositInv
  <1>2. PICK open : GivenBack(deposits, open) /\ (sub.ends = NoDate => open = {})
    BY DEF DepositInv
  <1>3. GivenBack(deposits', open) /\ (sub'.ends = NoDate => open = {})
    BY <1>2
  <1> QED
    BY <1>1, <1>3 DEF DepositInv

LEMMA BalanceHeld ==
    ASSUME LedgerOK(deposits)
    PROVE  /\ DepositBalance = SumOver(deposits, Ins(deposits)) - SumOver(deposits, Outs(deposits))
           /\ DepositBalance \in Nat
  <1>1. PICK a : a = SumOver(deposits, Ins(deposits))
    OBVIOUS
  <1>2. PICK b : b = SumOver(deposits, Outs(deposits))
    OBVIOUS
  <1>3. a \in Nat /\ b \in Nat /\ b <= a
    BY <1>1, <1>2, LedgerSums DEF LedgerOK
  <1>4. DepositBalance = a - b
    BY <1>1, <1>2, SumsOfRows
  <1> QED
    BY <1>1, <1>2, <1>3, <1>4

LEMMA EntryAdded ==
    ASSUME LedgerOK(deposits), NEW row \in Entry, NEW D, D = Append(deposits, row)
    PROVE  \E n : Grown(deposits, D, row, n)
  <1>1. Counted(deposits) /\ row.amount \in Nat
    BY LedgerSums DEF Entry
  <1> QED
    BY <1>1, Added

\* The deposit is only on the first invoice, and it is received when no entry is for that one yet.
LEMMA PaymentHoldsDeposit ==
    ASSUME InvoicesTyped, DepositInv, NEW i \in DOMAIN invoices, NEW amount \in Nat,
           Receive(i, amount)
    PROVE  DepositInv'
  <1>1. sub' = sub
    BY DEF Receive, InvoiceBecomes, agreement
  <1>2. PICK inv : inv = Pay(invoices[i], amount)
    OBVIOUS
  <1>3. /\ invoices[i] \in Invoice /\ (i # 1 => ~Bills(invoices[i], "deposit"))
    BY DEF InvoicesTyped
  <1>4. inv \in Invoice /\ inv.lines = invoices[i].lines
    BY <1>2, <1>3, PaidMore
  <1>5. inv.lines \in Seq(Line) /\ (i # 1 => ~Bills(inv, "deposit"))
    BY <1>3, <1>4, InvoiceFields DEF Bills
  <1>6. DepositOf(inv) \in Nat /\ (i # 1 => DepositOf(inv) = 0)
    BY <1>5, DepositIsNat
  <1>7. PICK row : row = [type |-> "received", amount |-> DepositOf(inv), invoice |-> i,
                          forfeit |-> FALSE]
    OBVIOUS
  <1>8. LedgerOK(deposits)
    BY DEF DepositInv
  <1>9. CASE deposits' = deposits
    BY <1>1, <1>9, DepositsKept
  <1>10. CASE deposits' # deposits
    <2>1. /\ DepositOf(inv) > 0 /\ \A k \in DOMAIN deposits : deposits[k].invoice # i
          /\ deposits' = Append(deposits, row)
      BY <1>2, <1>7, <1>10 DEF Receive, AfterPayment, Recorded
    <2>2. i = 1
      BY <1>6, <2>1
    <2>3. row \in Entry
      BY <1>6, <1>7, <2>2, Bounds DEF Entry
    <2>4. row.type = "received" /\ row.invoice = 1 /\ ~row.forfeit
      BY <1>7, <2>2
    <2>5. \A k \in DOMAIN deposits : deposits[k].type # "received"
      BY <1>8, <2>1, <2>2 DEF LedgerOK
    <2>6. PICK D : D = deposits'
      OBVIOUS
    <2>7. PICK n : Grown(deposits, D, row, n)
      BY <1>8, <2>1, <2>3, <2>6, EntryAdded
    <2>8. LedgerOK(D)
      BY <1>8, <2>3, <2>4, <2>5, <2>7, LedgerGrows
    <2>9. PICK open : GivenBack(deposits, open) /\ (sub.ends = NoDate => open = {})
      BY DEF DepositInv
    <2>10. GivenBack(D, open)
      BY <1>8, <2>4, <2>7, <2>9, ForfeitsStay
    <2> QED
      BY <1>1, <2>6, <2>8, <2>9, <2>10 DEF DepositInv
  <1> QED
    BY <1>9, <1>10

LEMMA EntryKeepsDeposit ==
    ASSUME DepositInv, NEW type \in {"deduction", "refund"}, NEW amount \in Sums(DepositBalance),
           DepositEntry(type, amount)
    PROVE  DepositInv'
  <1>1. LedgerOK(deposits) /\ sub' = sub
    BY DEF DepositInv, DepositEntry, agreement
  <1>2. DepositBalance \in Nat
    BY <1>1, BalanceHeld
  <1>3. amount \in Nat
    BY <1>2, SumsAreNat
  <1>4. PICK row : row = [type |-> type, amount |-> amount, invoice |-> 0, forfeit |-> FALSE]
    OBVIOUS
  <1>5. row \in Entry /\ row.type = type /\ row.amount = amount /\ ~row.forfeit
    BY <1>3, <1>4, Bounds DEF Entry
  <1>6. PICK D : D = deposits'
    OBVIOUS
  <1>7. D = Append(deposits, row) /\ amount <= DepositBalance
    BY <1>4, <1>6 DEF DepositEntry, Recorded
  <1>8. PICK n : Grown(deposits, D, row, n)
    BY <1>1, <1>5, <1>7, EntryAdded
  <1>9. LedgerOK(D)
    <2>1. row.amount <= SumOver(deposits, Ins(deposits)) - SumOver(deposits, Outs(deposits))
      BY <1>1, <1>5, <1>7, BalanceHeld
    <2> QED
      BY <1>1, <1>5, <1>8, <2>1, LedgerGrows
  <1>10. PICK open : GivenBack(deposits, open) /\ (sub.ends = NoDate => open = {})
    BY DEF DepositInv
  <1>11. GivenBack(D, open)
    BY <1>1, <1>5, <1>8, <1>10, ForfeitsStay
  <1> QED
    BY <1>1, <1>6, <1>9, <1>10, <1>11 DEF DepositInv

\* Notice is given when none was, so all that was forfeited before has been given back.
LEMMA NoticeKeepsDeposit ==
    ASSUME StateTyped, DepositInv, NEW on \in Nat, GiveNotice(on)
    PROVE  DepositInv'
  <1>1. LedgerOK(deposits) /\ GivenBack(deposits, {})
    BY DEF DepositInv, GiveNotice
  <1>2. sub'.ends # NoDate
    <2>1. on + terms.notice * DaysInMonth \in Nat
      BY TermsTyped, Calendar
    <2>2. sub' = [sub EXCEPT !.ends = on + terms.notice * DaysInMonth,
                             !.backdated = on < MonthStart(today)]
      BY DEF GiveNotice
    <2>3. sub'.ends = on + terms.notice * DaysInMonth
      BY <2>2 DEF StateTyped
    <2> QED
      BY <2>1, <2>3 DEF NoDate
  <1>3. CASE deposits' = deposits
    BY <1>2, <1>3, DepositsKept
  <1>4. CASE deposits' # deposits
    <2>1. PICK row : row = [type |-> "deduction", amount |-> DepositBalance, invoice |-> 0,
                            forfeit |-> TRUE]
      OBVIOUS
    <2>2. DepositBalance \in Nat
      BY <1>1, BalanceHeld
    <2>3. row \in Entry /\ row.type = "deduction" /\ row.amount = DepositBalance /\ row.forfeit
      BY <2>1, <2>2, Bounds DEF Entry
    <2>4. PICK D : D = deposits'
      OBVIOUS
    <2>5. D = Append(deposits, row)
      BY <1>4, <2>1, <2>4 DEF GiveNotice, Recorded
    <2>6. PICK n : Grown(deposits, D, row, n)
      BY <1>1, <2>3, <2>5, EntryAdded
    <2>7. LedgerOK(D)
      <3>1. row.amount <= SumOver(deposits, Ins(deposits)) - SumOver(deposits, Outs(deposits))
        BY <1>1, <2>2, <2>3, BalanceHeld
      <3> QED
        BY <1>1, <2>3, <2>6, <3>1, LedgerGrows
    <2>8. GivenBack(D, {n})
      BY <1>1, <2>3, <2>6, ForfeitOpens
    <2> QED
      BY <1>2, <2>4, <2>7, <2>8 DEF DepositInv
  <1> QED
    BY <1>3, <1>4

\* The notice that is withdrawn gives back what it forfeited, and only that.
LEMMA WithdrawalKeepsDeposit ==
    ASSUME DepositInv, WithdrawNotice
    PROVE  DepositInv'
  <1>1. LedgerOK(deposits)
    BY DEF DepositInv
  <1>2. PICK open : GivenBack(deposits, open)
    BY DEF DepositInv
  <1>3. Lost = open
    BY <1>1, <1>2, LostIsOpen
  <1>4. PICK lost : lost = SetToSeq(open)
    OBVIOUS
  <1>5. PICK back : back = [k \in DOMAIN lost |->
                              [deposits[lost[k]] EXCEPT !.type = "reversal", !.forfeit = FALSE]]
    OBVIOUS
  <1>6. PICK D : D = deposits'
    OBVIOUS
  <1>7. D = deposits \o back
    BY <1>3, <1>4, <1>5, <1>6, Zenon DEF WithdrawNotice
  <1>8. IsSeq(deposits)
    BY <1>1 DEF LedgerOK
  <1>9. ASSUME open = {}
        PROVE  LedgerOK(D) /\ GivenBack(D, {})
    <2>1. lost = <<>>
      BY <1>4, <1>9, OneInSequence
    <2>2. back = <<>>
      BY <1>5, <2>1
    <2>3. D = deposits
      BY <1>7, <1>8, <2>2 DEF IsSeq
    <2> QED
      BY <1>1, <1>2, <1>9, <2>3
  <1>10. ASSUME NEW l \in ForfeitsIn(deposits), open = {l}
         PROVE  LedgerOK(D) /\ GivenBack(D, {})
    <2>1. lost = <<l>>
      BY <1>4, <1>10, OneInSequence
    <2>2. PICK row : row = [deposits[l] EXCEPT !.type = "reversal", !.forfeit = FALSE]
      OBVIOUS
    <2>3. back = <<row>>
      <3>1. DOMAIN lost = {1} /\ lost[1] = l
        BY <2>1
      <3>2. back = [k \in DOMAIN lost |-> back[k]] /\ DOMAIN back = DOMAIN lost
        BY <1>5
      <3>3. back[1] = row
        BY <1>5, <2>2, <3>1
      <3>4. back = [k \in 1..1 |-> back[k]]
        BY <3>1, <3>2
      <3>5. IsSeq(back) /\ Len(back) = 1
        BY <3>4, FunctionIsSeq
      <3> QED
        BY <3>3, <3>4
    <2>4. deposits[l] \in Entry
      BY <1>1 DEF LedgerOK, ForfeitsIn
    <2>5. row \in Entry /\ row.type = "reversal" /\ ~row.forfeit /\ row.amount = deposits[l].amount
      BY <2>2, <2>4 DEF Entry
    <2>6. D = Append(deposits, row)
      BY <1>7, <1>8, <2>3 DEF IsSeq
    <2>7. PICK n : Grown(deposits, D, row, n)
      BY <1>1, <2>5, <2>6, EntryAdded
    <2>8. LedgerOK(D)
      BY <1>1, <2>5, <2>7, LedgerGrows
    <2>9. GivenBack(deposits, {l})
      BY <1>2, <1>10
    <2>10. GivenBack(D, {})
      BY <1>1, <2>5, <2>7, <2>9, ReversalCloses
    <2> QED
      BY <2>8, <2>10
  <1>11. open = {} \/ \E l \in ForfeitsIn(deposits) : open = {l}
    BY <1>2 DEF GivenBack
  <1>12. LedgerOK(D) /\ GivenBack(D, {})
    BY <1>9, <1>10, <1>11
  <1> QED
    BY <1>6, <1>12 DEF DepositInv
-----------------------------------------------------------------------------
(* The agreement and its revisions *)

LEMMA StateKept ==
    ASSUME StateTyped, UNCHANGED agreement
    PROVE  StateTyped'
  BY DEF StateTyped, agreement

LEMMA DayIsTyped ==
    ASSUME StateTyped, AdvanceDay
    PROVE  StateTyped'
  <1>1. today' \in Days
    BY Calendar DEF StateTyped, AdvanceDay, Days
  <1> QED
    BY <1>1 DEF StateTyped, AdvanceDay

LEMMA EndIsTyped ==
    ASSUME StateTyped,
           \/ \E on \in NoticeDates : GiveNotice(on)
           \/ WithdrawNotice \/ EndTerminated
    PROVE  StateTyped'
  <1>1. \A on \in NoticeDates : on + terms.notice * DaysInMonth \in Nat
    <2>1. terms.notice * DaysInMonth \in Nat
      BY TermsTyped, Calendar
    <2> QED
      BY <2>1, Notices
  <1>2. UNCHANGED <<terms, desk, today, revisions>>
    BY DEF GiveNotice, WithdrawNotice, EndTerminated
  <1>3. \/ \E on \in NoticeDates :
              sub' = [sub EXCEPT !.ends = on + terms.notice * DaysInMonth,
                                 !.backdated = on < MonthStart(today)]
        \/ sub' = [sub EXCEPT !.ends = NoDate, !.backdated = FALSE]
        \/ sub' = [sub EXCEPT !.status = "expired"]
    BY DEF GiveNotice, WithdrawNotice, EndTerminated
  <1>4. sub \in [status: {"active", "expired"}, ends: Nat \union {NoDate}, backdated: BOOLEAN]
    BY DEF StateTyped
  <1>5. sub' \in [status: {"active", "expired"}, ends: Nat \union {NoDate}, backdated: BOOLEAN]
    <2>1. ASSUME NEW on \in NoticeDates,
                 sub' = [sub EXCEPT !.ends = on + terms.notice * DaysInMonth,
                                    !.backdated = on < MonthStart(today)]
          PROVE  sub' \in [status: {"active", "expired"}, ends: Nat \union {NoDate},
                           backdated: BOOLEAN]
      <3>1. PICK ends \in Nat : ends = on + terms.notice * DaysInMonth
        BY <1>1
      <3>2. PICK back \in BOOLEAN : back = (on < MonthStart(today))
        <4>1. (on < MonthStart(today)) \in BOOLEAN
          OBVIOUS
        <4> QED
          BY <4>1, Zenon
      <3>3. sub' = [sub EXCEPT !.ends = ends, !.backdated = back]
        BY <2>1, <3>1, <3>2
      <3> QED
        BY <1>4, <3>3
    <2> QED
      BY <1>3, <1>4, <2>1
  <1> QED
    BY <1>2, <1>5 DEF StateTyped

LEMMA AnchorIsNat ==
    ASSUME StateTyped
    PROVE  RevisionAnchor \in Nat
  <1>1. Year \in Nat /\ DaysInMonth \in Nat
    BY Calendar
  <1>2. CASE revisions = <<>>
    <2>1. terms.start \in Nat /\ terms.escalateAfter \in Nat
      BY TermsTyped
    <2> QED
      BY <1>1, <1>2, <2>1 DEF RevisionAnchor
  <1>3. CASE revisions # <<>>
    <2>1. IsFiniteSet(DOMAIN revisions) /\ IsSeq(revisions)
      BY RowsAreFinite DEF StateTyped
    <2>2. DOMAIN revisions # {}
      <3>1. PICK n : n = Len(revisions)
        OBVIOUS
      <3>2. n \in Nat /\ DOMAIN revisions = 1..n /\ n # 0
        BY <1>3, <2>1, <3>1, SeqDomain, EmptySeq DEF IsSeq
      <3>3. 1 \in 1..n
        BY <3>2
      <3> QED
        BY <3>2, <3>3
    <2>3. PICK from : from = [k \in DOMAIN revisions |-> revisions[k].from]
      OBVIOUS
    <2>4. \A k \in DOMAIN revisions : from[k] = revisions[k].from /\ from[k] \in Nat
      BY <2>3 DEF StateTyped, Revision
    <2>5. PICK k \in DOMAIN revisions : \A j \in DOMAIN revisions : from[j] <= from[k]
      BY <2>1, <2>2, <2>4, Latest
    <2>6. PICK S : S = {revisions[j].from : j \in DOMAIN revisions}
      OBVIOUS
    <2>7. S \subseteq Nat /\ from[k] \in S /\ \A x \in S : from[k] >= x
      BY <2>4, <2>5, <2>6
    <2>8. Max(S) \in S
      BY <2>7 DEF Max
    <2>9. RevisionAnchor = Max(S) + Year
      BY <1>3, <2>6 DEF RevisionAnchor
    <2>10. Max(S) \in Nat
      BY <2>7, <2>8
    <2> QED
      BY <1>1, <2>9, <2>10
  <1> QED
    BY <1>2, <1>3

LEMMA RaiseIsNat ==
    ASSUME NEW price \in Nat, NEW percent \in Nat
    PROVE  Raised(price, percent) \in Nat
  <1>1. price * (100 + percent) \in Nat
    OBVIOUS
  <1> QED
    BY <1>1, RoundedIsNat DEF Raised

LEMMA RevisionsAreTyped ==
    ASSUME StateTyped, NEW changed, revisions' = changed, UNCHANGED <<terms, desk, today, sub>>,
           IsSeq(changed), \A k \in DOMAIN changed : changed[k] \in Revision
    PROVE  StateTyped'
  BY DEF StateTyped

LEMMA ProposalIsTyped ==
    ASSUME StateTyped, ProposeRevisions
    PROVE  StateTyped'
  <1>1. PICK old : old = EffectivePrice(RevisionAnchor)
    OBVIOUS
  <1>2. PICK new : new = Raised(old, terms.percent)
    OBVIOUS
  <1>3. RevisionAnchor \in Nat /\ old \in Nat /\ terms.percent \in Nat
    BY <1>1, AnchorIsNat, PriceIsNat, TermsTyped
  <1>4. new \in Nat
    BY <1>2, <1>3, RaiseIsNat
  <1>5. PICK row : row = [from |-> RevisionAnchor, old |-> old, new |-> new, status |-> "proposed"]
    OBVIOUS
  <1>6. row \in Revision
    BY <1>3, <1>4, <1>5 DEF Revision
  <1>7. PICK changed : changed = revisions'
    OBVIOUS
  <1>8. changed = Append(revisions, row) /\ UNCHANGED <<terms, desk, today, sub>>
    BY <1>1, <1>2, <1>5, <1>7, Zenon DEF ProposeRevisions
  <1>9. IsSeq(revisions) /\ \A k \in DOMAIN revisions : revisions[k] \in Revision
    BY DEF StateTyped
  <1>10. IsSeq(changed) /\ \A k \in DOMAIN changed : changed[k] \in Revision
    BY <1>6, <1>8, <1>9, AppendIsSeq
  <1> QED
    BY <1>7, <1>8, <1>10, RevisionsAreTyped

LEMMA OneRevision ==
    ASSUME StateTyped, NEW k \in DOMAIN revisions, NEW row \in Revision,
           revisions' = [revisions EXCEPT ![k] = row], UNCHANGED <<terms, desk, today, sub>>
    PROVE  StateTyped'
  <1>1. PICK changed : changed = revisions'
    OBVIOUS
  <1>2. /\ Len(revisions) \in Nat /\ DOMAIN revisions = 1..Len(revisions)
        /\ \A j \in DOMAIN revisions : revisions[j] \in Revision
    BY SeqDomain DEF StateTyped
  <1>3. /\ changed = [j \in DOMAIN revisions |-> IF j = k THEN row ELSE revisions[j]]
    BY <1>1, <1>2
  <1>4. /\ changed = [j \in 1..Len(revisions) |-> changed[j]] /\ DOMAIN changed = DOMAIN revisions
        /\ \A j \in DOMAIN revisions : changed[j] \in Revision
    BY <1>2, <1>3
  <1>5. IsSeq(changed)
    BY <1>2, <1>4, FunctionIsSeq
  <1> QED
    BY <1>1, <1>4, <1>5, RevisionsAreTyped

LEMMA AnswerIsTyped ==
    ASSUME StateTyped, NEW k \in DOMAIN revisions, RevisionConfirm(k) \/ RevisionDismiss(k)
    PROVE  StateTyped'
  <1>1. revisions[k] \in Revision
    BY DEF StateTyped
  <1>2. CASE RevisionConfirm(k)
    <2>1. PICK new \in {revisions[k].new} \union {Raised(revisions[k].old, p) : p \in Percents} :
             revisions' = [revisions EXCEPT ![k].status = "confirmed", ![k].new = new]
      BY <1>2 DEF RevisionConfirm
    <2>2. new \in Nat
      <3>1. revisions[k].old \in Nat /\ revisions[k].new \in Nat
        BY <1>1 DEF Revision
      <3>2. \A p \in Percents : Raised(revisions[k].old, p) \in Nat
        BY <3>1, RaiseIsNat, Amounts
      <3> QED
        BY <2>1, <3>1, <3>2
    <2>3. PICK row : row = [revisions[k] EXCEPT !.status = "confirmed", !.new = new]
      OBVIOUS
    <2>4. row \in Revision
      BY <1>1, <2>2, <2>3 DEF Revision
    <2>5. revisions' = [revisions EXCEPT ![k] = row]
      BY <2>1, <2>3
    <2>6. UNCHANGED <<terms, desk, today, sub>>
      BY <1>2 DEF RevisionConfirm
    <2> QED
      BY <2>4, <2>5, <2>6, OneRevision
  <1>3. CASE RevisionDismiss(k)
    <2>1. PICK row : row = [revisions[k] EXCEPT !.status = "dismissed"]
      OBVIOUS
    <2>2. row \in Revision
      BY <1>1, <2>1 DEF Revision
    <2>3. revisions' = [revisions EXCEPT ![k] = row] /\ UNCHANGED <<terms, desk, today, sub>>
      BY <1>3, <2>1 DEF RevisionDismiss
    <2> QED
      BY <2>2, <2>3, OneRevision
  <1> QED
    BY <1>2, <1>3
-----------------------------------------------------------------------------
(* The system's money *)

LEMMA NothingGivenYet == LedgerOK(<<>>) /\ GivenBack(<<>>, {})
  <1>1. IsSeq(<<>>) /\ DOMAIN <<>> = {}
    BY EmptyIsSeq
  <1>2. Ins(<<>>) = {} /\ Outs(<<>>) = {} /\ ForfeitsIn(<<>>) = {} /\ ReversalsIn(<<>>) = {}
    BY <1>1 DEF Ins, Outs, ForfeitsIn, ReversalsIn
  <1>3. SumOver(<<>>, {}) = 0 /\ Cardinality({}) = 0
    BY NothingToSum, FS_EmptySet
  <1>4. PICK D : D = <<>>
    OBVIOUS
  <1>5. /\ IsSeq(D) /\ DOMAIN D = {} /\ Ins(D) = {} /\ Outs(D) = {}
        /\ ForfeitsIn(D) = {} /\ ReversalsIn(D) = {} /\ SumOver(D, {}) = 0
    BY <1>1, <1>2, <1>3, <1>4, Zenon
  <1>6. LedgerOK(D)
    BY <1>5 DEF LedgerOK
  <1>7. GivenBack(D, {})
    BY <1>3, <1>5 DEF GivenBack
  <1> QED
    BY <1>4, <1>6, <1>7, Zenon

LEMMA NothingPaidYet ==
    ASSUME NEW D
    PROVE  TablesOK(<<>>, <<>>, <<>>, <<>>, D) /\ \A i : PaidBy(<<>>, <<>>, <<>>, i) = 0
  <1>1. IsSeq(<<>>) /\ DOMAIN <<>> = {} /\ Len(<<>>) = 0
    BY EmptyIsSeq
  <1>2. PaymentsTyped(<<>>, D) /\ ReportsTyped(<<>>, D) /\ NotesTyped(<<>>, D)
        /\ RefundsTyped(<<>>, <<>>)
    BY <1>1 DEF PaymentsTyped, ReportsTyped, NotesTyped, RefundsTyped
  <1>3. Covered(<<>>, <<>>)
    BY <1>1 DEF Covered
  <1>4. Len(<<>>) + Len(<<>>) + Len(<<>>) + Len(<<>>) <= MaxMoney
    BY <1>1, Bounds
  <1>5. TablesOK(<<>>, <<>>, <<>>, <<>>, D)
    BY <1>2, <1>3, <1>4, Zenon DEF TablesOK
  <1>6. ASSUME NEW i
        PROVE  PaidBy(<<>>, <<>>, <<>>, i) = 0
    <2>1. PaymentsOn(<<>>, i) = {} /\ AppliedTo(<<>>, i) = {} /\ RefundedOn(<<>>, <<>>, i) = {}
      BY <1>1 DEF PaymentsOn, AppliedTo, RefundedOn
    <2>2. SumOver(<<>>, {}) = 0
      BY NothingToSum
    <2>3. PaidBy(<<>>, <<>>, <<>>, i) = 0 + 0 - 0
      BY <2>1, <2>2 DEF PaidBy
    <2> QED
      BY <2>3
  <1> QED
    BY <1>5, <1>6

\* The deposit is asked for by the first invoice, made with the agreement.
LEMMA DepositIsInvoiced ==
    ASSUME StateTyped, invoices = DepositInvoice(terms)
    PROVE  InvoicesTyped /\ \A i \in DOMAIN invoices : invoices[i].paid = 0
  <1>1. terms.start \in Nat /\ terms.deposit \in Nat /\ MaxInvoices >= 1 /\ MaxInvoices \in Nat
    BY TermsTyped, Bounds
  <1>2. CASE terms.deposit = 0
    <2>1. invoices = <<>>
      BY <1>2 DEF DepositInvoice
    <2>2. IsSeq(invoices) /\ DOMAIN invoices = {} /\ Len(invoices) = 0
      BY <2>1, EmptyIsSeq
    <2> QED
      BY <1>1, <2>2 DEF InvoicesTyped
  <1>3. CASE terms.deposit # 0
    <2>1. PICK line : line = Other("deposit", terms.deposit)
      OBVIOUS
    <2>2. PICK lines : lines = <<line>>
      OBVIOUS
    <2>3. PICK inv : inv = NewInvoice(terms.start, terms.start, terms.start,
                                      IF terms.autoSend THEN "issued" ELSE "draft", lines)
      OBVIOUS
    <2>4. line \in Line
      BY <1>1, <2>1, OtherLine
    <2>5. lines \in Seq(Line)
      BY <2>2, <2>4
    <2>6. inv \in Invoice /\ inv.paid = 0
      BY <1>1, <2>3, <2>5 DEF NewInvoice, Invoice
    <2>7. invoices = <<inv>>
      BY <1>3, <2>1, <2>2, <2>3 DEF DepositInvoice
    <2>8. IsSeq(invoices) /\ DOMAIN invoices = {1} /\ invoices[1] = inv
      BY <2>7, OneIsSeq
    <2>9. Len(invoices) = 1
      BY <2>7
    <2> QED
      BY <1>1, <2>6, <2>8, <2>9 DEF InvoicesTyped
  <1> QED
    BY <1>2, <1>3

LEMMA MoneyInit == Init => MoneyInv
  <1> SUFFICES ASSUME Init PROVE MoneyInv
    OBVIOUS
  <1>1. PICK c \in Cases : terms = c.terms /\ desk = c.desk
    BY DEF Init
  <1>2. [terms |-> terms, desk |-> desk] \in Cases
    BY <1>1, Uses
  <1>3. /\ today = 0 /\ sub = [status |-> "active", ends |-> NoDate, backdated |-> FALSE]
        /\ invoices = DepositInvoice(terms) /\ revisions = <<>> /\ deposits = <<>>
        /\ payments = <<>> /\ reports = <<>> /\ notes = <<>> /\ refunds = <<>>
    BY DEF Init
  <1>4. StateTyped
    <2>1. today \in Days
      BY <1>3, Calendar DEF Days
    <2>2. IsSeq(revisions) /\ DOMAIN revisions = {}
      BY <1>3, EmptyIsSeq
    <2> QED
      BY <1>2, <1>3, <2>1, <2>2 DEF StateTyped
  <1>5. InvoicesTyped /\ \A i \in DOMAIN invoices : invoices[i].paid = 0
    BY <1>3, <1>4, DepositIsInvoiced
  <1>6. MoneyTyped
    BY <1>3, NothingPaidYet, Zenon DEF MoneyTyped
  <1>7. PaidAsExplained
    BY <1>3, <1>5, NothingPaidYet, Zenon DEF PaidAsExplained
  <1>8. DepositInv
    BY <1>3, NothingGivenYet, Zenon DEF DepositInv
  <1> QED
    BY <1>4, <1>5, <1>6, <1>7, <1>8 DEF MoneyInv

LEMMA MoneyParts == MoneyInv <=> StateTyped /\ Accounts /\ DepositInv
  BY DEF MoneyInv, Accounts

\* Handlers that move no money.
LEMMA NoMoneyMoves ==
    ASSUME MoneyInv, PaidKept, UNCHANGED paid, StateTyped', DepositInv'
    PROVE  MoneyInv'
  <1>1. Accounts'
    BY AccountsKept, MoneyParts
  <1> QED
    BY <1>1 DEF MoneyInv, Accounts

LEMMA OnlyInvoices ==
    ASSUME MoneyInv, PaidKept, UNCHANGED <<agreement, paid, deposits>>
    PROVE  MoneyInv'
  <1>1. StateTyped'
    BY StateKept DEF MoneyInv
  <1>2. DepositInv'
    BY DepositsKept DEF MoneyInv, agreement
  <1> QED
    BY <1>1, <1>2, NoMoneyMoves

\* Handlers of the tables of money that leave the deposit alone.
LEMMA OnlyAccounts ==
    ASSUME MoneyInv, Accounts', UNCHANGED agreement, DepositInv'
    PROVE  MoneyInv'
  <1>1. StateTyped'
    BY StateKept DEF MoneyInv
  <1> QED
    BY <1>1 DEF MoneyInv, Accounts

LEMMA InvoiceHandlers ==
    ASSUME MoneyInv, NEW i \in DOMAIN invoices, OnInvoice(i)
    PROVE  MoneyInv'
  <1>1. Accounts /\ InvoicesTyped /\ DepositInv /\ StateTyped
    BY MoneyParts DEF MoneyInv
  <1>2. CASE \/ \E amount \in Parts : LineAdd(i, amount)
             \/ \E k \in DOMAIN invoices[i].lines : LineDelete(i, k)
             \/ Issue(i) \/ Void(i)
    BY <1>1, <1>2, EditsOfInvoice, OnlyInvoices
  <1>3. ASSUME NEW amount \in Sums(Balance(invoices[i])), PaymentNew(i, amount)
        PROVE  MoneyInv'
    <2>1. amount \in Nat
      BY <1>1, BalanceIsInt, SumsAreNat DEF InvoicesTyped
    <2>2. Receive(i, amount) /\ UNCHANGED agreement
      BY <1>3 DEF PaymentNew, Receive, InvoiceBecomes
    <2>3. DepositInv'
      BY <1>1, <2>1, <2>2, PaymentHoldsDeposit
    <2>4. Accounts'
      BY <1>1, <1>3, PaymentsCount
    <2> QED
      BY <2>2, <2>3, <2>4, OnlyAccounts
  <1>4. ASSUME NEW amount \in Sums(Balance(invoices[i])), PaymentSubmissionNew(i, amount)
        PROVE  MoneyInv'
    <2>1. UNCHANGED agreement /\ deposits' = deposits
      BY <1>4 DEF PaymentSubmissionNew
    <2>2. DepositInv'
      BY <1>1, <2>1, DepositsKept DEF agreement
    <2>3. Accounts'
      BY <1>1, <1>4, PaymentsCount
    <2> QED
      BY <2>1, <2>2, <2>3, OnlyAccounts
  <1>5. ASSUME NEW amount \in Sums(invoices[i].paid), CreditNoteNew(i, amount)
        PROVE  MoneyInv'
    <2>1. UNCHANGED agreement /\ deposits' = deposits
      BY <1>5 DEF CreditNoteNew
    <2>2. DepositInv'
      BY <1>1, <2>1, DepositsKept DEF agreement
    <2>3. Accounts'
      BY <1>1, <1>5, NewNotesCount
    <2> QED
      BY <2>1, <2>2, <2>3, OnlyAccounts
  <1> QED
    BY <1>2, <1>3, <1>4, <1>5 DEF OnInvoice

LEMMA MoneyHandlers ==
    ASSUME MoneyInv,
           \/ \E k \in DOMAIN reports : SubmissionAccept(k) \/ SubmissionReject(k)
           \/ \E k \in DOMAIN notes : CreditNoteApply(k) \/ CreditNoteCancel(k)
           \/ \E p \in DOMAIN payments : \E amount \in Sums(payments[p].amount) :
                 RefundNew(p, amount)
           \/ \E k \in DOMAIN refunds : RefundComplete(k) \/ RefundFail(k)
    PROVE  MoneyInv'
  <1>1. Accounts /\ InvoicesTyped /\ DepositInv /\ StateTyped
    BY MoneyParts DEF MoneyInv
  <1>2. ASSUME NEW k \in DOMAIN reports, SubmissionAccept(k)
        PROVE  MoneyInv'
    <2>1. Receive(reports[k].invoice, reports[k].amount) /\ UNCHANGED agreement
      BY <1>2 DEF SubmissionAccept, Receive, InvoiceBecomes
    <2>2. reports[k].invoice \in DOMAIN invoices /\ reports[k].amount \in Nat
      BY <1>1 DEF Accounts, MoneyTyped, TablesOK, ReportsTyped, Report
    <2>3. DepositInv'
      BY <1>1, <2>1, <2>2, PaymentHoldsDeposit
    <2>4. Accounts'
      BY <1>1, <1>2, ReportsCount
    <2> QED
      BY <2>1, <2>3, <2>4, OnlyAccounts
  <1>3. ASSUME Accounts', UNCHANGED agreement, deposits' = deposits
        PROVE  MoneyInv'
    <2>1. DepositInv'
      BY <1>1, <1>3, DepositsKept DEF agreement
    <2> QED
      BY <1>3, <2>1, OnlyAccounts
  <1>4. ASSUME NEW k \in DOMAIN reports, SubmissionReject(k)
        PROVE  MoneyInv'
    <2>1. Accounts'
      BY <1>1, <1>4, ReportsCount
    <2> QED
      BY <1>3, <1>4, <2>1 DEF SubmissionReject
  <1>5. ASSUME NEW k \in DOMAIN notes, CreditNoteApply(k) \/ CreditNoteCancel(k)
        PROVE  MoneyInv'
    <2>1. Accounts'
      BY <1>1, <1>5, NotesCount
    <2> QED
      BY <1>3, <1>5, <2>1 DEF CreditNoteApply, CreditNoteCancel, InvoiceBecomes
  <1>6. ASSUME NEW p \in DOMAIN payments, NEW amount \in Sums(payments[p].amount),
               RefundNew(p, amount)
        PROVE  MoneyInv'
    <2>1. Accounts'
      BY <1>1, <1>6, NewRefundsCount
    <2> QED
      BY <1>3, <1>6, <2>1 DEF RefundNew
  <1>7. ASSUME NEW k \in DOMAIN refunds, RefundComplete(k) \/ RefundFail(k)
        PROVE  MoneyInv'
    <2>1. Accounts'
      BY <1>1, <1>7, RefundsCount
    <2> QED
      BY <1>3, <1>7, <2>1 DEF RefundComplete, RefundFail, InvoiceBecomes
  <1> QED
    BY <1>2, <1>4, <1>5, <1>6, <1>7

LEMMA DepositHandlers ==
    ASSUME MoneyInv,
           \/ \E type \in {"deduction", "refund"}, amount \in Sums(DepositBalance) :
                 DepositEntry(type, amount)
           \/ \E on \in NoticeDates : GiveNotice(on)
           \/ WithdrawNotice \/ EndTerminated
    PROVE  MoneyInv'
  <1>1. InvoicesTyped /\ DepositInv /\ StateTyped
    BY DEF MoneyInv
  <1>2. ASSUME NEW type \in {"deduction", "refund"}, NEW amount \in Sums(DepositBalance),
               DepositEntry(type, amount)
        PROVE  MoneyInv'
    <2>1. UNCHANGED <<agreement, invoices, paid>>
      BY <1>2 DEF DepositEntry
    <2>2. DepositInv'
      BY <1>1, <1>2, EntryKeepsDeposit
    <2>3. PaidKept /\ StateTyped'
      BY <1>1, <2>1, NoneEdited, StateKept
    <2> QED
      BY <2>1, <2>2, <2>3, NoMoneyMoves
  <1>3. ASSUME NEW on \in NoticeDates, GiveNotice(on)
        PROVE  MoneyInv'
    <2>1. PaidKept /\ UNCHANGED paid
      BY <1>1, <1>3, Notices, NoticeKeepsPaid
    <2> QED
      BY <1>1, <1>3, <2>1, Notices, NoticeKeepsDeposit, EndIsTyped, NoMoneyMoves
  <1>4. CASE WithdrawNotice
    <2>1. PaidKept /\ UNCHANGED paid
      BY <1>1, <1>4, WithdrawalKeepsPaid
    <2> QED
      BY <1>1, <1>4, <2>1, WithdrawalKeepsDeposit, EndIsTyped, NoMoneyMoves
  <1>5. CASE EndTerminated
    <2>1. UNCHANGED <<invoices, paid, deposits>>
      BY <1>5 DEF EndTerminated
    <2>2. sub'.ends = sub.ends
      BY <1>1, <1>5 DEF EndTerminated, StateTyped
    <2>3. DepositInv'
      BY <1>1, <2>1, <2>2, DepositsKept
    <2>4. PaidKept
      BY <1>1, <2>1, NoneEdited
    <2> QED
      BY <1>1, <1>5, <2>1, <2>3, <2>4, EndIsTyped, NoMoneyMoves
  <1> QED
    BY <1>2, <1>3, <1>4, <1>5

LEMMA OtherHandlers ==
    ASSUME MoneyInv,
           \/ AdvanceDay \/ ProposeRevisions
           \/ \E k \in DOMAIN revisions : RevisionConfirm(k) \/ RevisionDismiss(k)
    PROVE  MoneyInv'
  <1>1. InvoicesTyped /\ DepositInv /\ StateTyped
    BY DEF MoneyInv
  <1>2. StateTyped'
    BY <1>1, DayIsTyped, ProposalIsTyped, AnswerIsTyped
  <1>3. UNCHANGED <<sub, invoices, paid, deposits>>
    BY DEF AdvanceDay, ProposeRevisions, RevisionConfirm, RevisionDismiss
  <1>4. DepositInv' /\ PaidKept
    BY <1>1, <1>3, DepositsKept, NoneEdited
  <1> QED
    BY <1>2, <1>3, <1>4, NoMoneyMoves

LEMMA MoneyStep == BillingInv /\ MoneyInv /\ [Next]_vars => MoneyInv'
  <1> SUFFICES ASSUME BillingInv, MoneyInv, [Next]_vars PROVE MoneyInv'
    OBVIOUS
  <1>1. SheetsOK /\ InvoicesTyped /\ DepositInv /\ StateTyped
    BY DEF BillingInv, MoneyInv
  <1>2. CASE UNCHANGED vars
    <2>1. UNCHANGED <<agreement, invoices, paid, deposits>>
      BY <1>2 DEF vars, agreement, paid
    <2> QED
      BY <1>1, <2>1, NoneEdited, OnlyInvoices
  <1>3. CASE RunMonthlyBilling \/ RunBillingForMonth
    BY <1>1, <1>3, MonthlyRunKeepsPaid, OnlyInvoices
  <1>4. CASE IssueDrafts
    BY <1>1, <1>4, DraftsEdited, OnlyInvoices
  <1>5. ASSUME NEW i \in DOMAIN invoices, OnInvoice(i)
        PROVE  MoneyInv'
    BY <1>5, InvoiceHandlers
  <1>6. CASE \/ \E k \in DOMAIN reports : SubmissionAccept(k) \/ SubmissionReject(k)
             \/ \E k \in DOMAIN notes : CreditNoteApply(k) \/ CreditNoteCancel(k)
             \/ \E p \in DOMAIN payments : \E amount \in Sums(payments[p].amount) :
                   RefundNew(p, amount)
             \/ \E k \in DOMAIN refunds : RefundComplete(k) \/ RefundFail(k)
    BY <1>6, MoneyHandlers
  <1>7. CASE \/ \E type \in {"deduction", "refund"}, amount \in Sums(DepositBalance) :
                   DepositEntry(type, amount)
             \/ \E on \in NoticeDates : GiveNotice(on)
             \/ WithdrawNotice \/ EndTerminated
    BY <1>7, DepositHandlers
  <1>8. CASE \/ AdvanceDay \/ ProposeRevisions
             \/ \E k \in DOMAIN revisions : RevisionConfirm(k) \/ RevisionDismiss(k)
    BY <1>8, OtherHandlers
  <1> QED
    BY <1>2, <1>3, <1>4, <1>5, <1>6, <1>7, <1>8 DEF Next

\* What an invoice says is paid is at every time the payments on it and the credit notes applied,
\* less the refunds that completed; the deposit is held once, what is deducted, forfeited or
\* refunded of it is never more than was held, and an agreement that is not under notice has got
\* back all it forfeited (billing_routes: payment_new, credit_note_apply, refund_new,
\* refund_complete; billing_service: after_payment, give_notice, withdraw_notice).
THEOREM MoneyAddsUp == Spec => []MoneyExplained
  <1>1. Init => BillingInv /\ MoneyInv
    BY BillingInit, MoneyInit
  <1>2. BillingInv /\ MoneyInv /\ [Next]_vars => (BillingInv /\ MoneyInv)'
    BY BillingStep, MoneyStep
  <1>3. BillingInv /\ MoneyInv => MoneyExplained
    BY MoneyIsExplained
  <1> QED
    BY <1>1, <1>2, <1>3, PTL DEF Spec
=============================================================================
