----------------------- MODULE PlatformBilling_proofs -----------------------
(***************************************************************************)
(* Proofs about PlatformBilling, for every plan, contract, add-on, price   *)
(* and length of a month: what an operator works with is on a paid         *)
(* invoice, a renewal that nobody has paid on asks for the units that are  *)
(* to renew, a payment counts once and no day of an extra seat is billed   *)
(* twice.                                                                  *)
(***************************************************************************)
EXTENDS PlatformBilling, FiniteSetTheorems, SequenceTheorems, WellFoundedInduction, TLAPS

(* The inductive invariant, of the books that a handler and its helpers pass on. *)

IsSeq(s) == \E S : s \in Seq(S)

Row(inv) ==
    /\ DOMAIN inv = {"kind", "start", "end", "due", "amount", "status", "terms", "cycle", "units"}
    /\ inv.kind \in InvoiceKinds /\ inv.status \in Open \union {"paid", "void"}
    /\ inv.kind \in {"plan", "upgrade", "renewal"} => inv.start \in Int /\ inv.end \in Int

Shape(b) ==
    /\ b = [operator |-> b.operator, sub |-> b.sub, addons |-> b.addons,
            invoices |-> b.invoices, payments |-> b.payments]
    /\ DOMAIN b.sub = {"status", "start", "end", "terms", "cycle", "scheduled"}
    /\ b.sub.start \in Int /\ b.sub.end \in Int
    /\ DOMAIN b.addons = Modules
    /\ \A m \in Modules : DOMAIN b.addons[m] = {"active", "quantity", "through", "renews"}
    /\ IsSeq(b.invoices) /\ \A i \in DOMAIN b.invoices : Row(b.invoices[i])
    /\ IsSeq(b.payments)

\* The present period is that of a paid invoice, and so are the units of every add-on.
PlanBacked(b, day) ==
    b.sub.status = "active" =>
        /\ b.sub.start <= day
        /\ \E i \in DOMAIN b.invoices :
              /\ b.invoices[i].status = "paid"
              /\ b.invoices[i].start = b.sub.start /\ b.invoices[i].end = b.sub.end
              /\ b.invoices[i].terms = b.sub.terms /\ b.invoices[i].cycle = b.sub.cycle

UnitsBacked(b) ==
    \A m \in Modules : b.addons[m].active =>
        \E i \in DOMAIN b.invoices : /\ b.invoices[i].status = "paid"
                                     /\ b.invoices[i].units[m] = b.addons[m].quantity
                                     /\ b.invoices[i].end = b.addons[m].through

\* A plan is asked for from its first day on.
PlansHaveBegun(b, day) ==
    \A i \in DOMAIN b.invoices : b.invoices[i].kind \in {"plan", "upgrade"} => b.invoices[i].start <= day

PlanRows(b) == {i \in DOMAIN b.invoices : /\ b.invoices[i].kind \in {"plan", "upgrade"}
                                          /\ b.invoices[i].status = "paid"}
RenewalRows(b) == {i \in DOMAIN b.invoices : b.invoices[i].kind = "renewal"}
OnePlan(b) == \A i, j \in PlanRows(b) : i = j

\* Whoever works on a plan has bought one, and only then are renewals issued.
BeginsWithPlan(b) ==
    /\ b.sub.status = "active" => PlanRows(b) # {}
    /\ RenewalRows(b) # {} => b.sub.status = "active"
    /\ \A i \in RenewalRows(b) : b.invoices[i].start <= b.invoices[i].end

\* Of an operator that keeps its plan, one renewal follows the present period, and the others
\* have been paid and begun.
InOrder(b) ==
    /\ \A i \in RenewalRows(b) :
          \/ b.invoices[i].start = b.sub.end + 1
          \/ b.invoices[i].status = "paid" /\ b.invoices[i].start <= b.sub.end
    /\ \A i, j \in RenewalRows(b) :
          b.invoices[i].start = b.sub.end + 1 /\ b.invoices[j].start = b.sub.end + 1 => i = j

Follows(b) ==
    \A i \in UpcomingRenewals(b) :
        b.invoices[i].status \in Open /\ Untouched(b, i) =>
            /\ b.invoices[i].units = RenewalUnits(b)
            /\ b.invoices[i].amount =
                 RenewalAmount(b.invoices[i].terms, b.invoices[i].cycle, RenewalUnits(b))

BooksInv(b, day) ==
    /\ Shape(b)
    /\ PlanBacked(b, day) /\ UnitsBacked(b) /\ PlansHaveBegun(b, day) /\ BeginsWithPlan(b)
    /\ OnePlan(b) => InOrder(b) /\ Follows(b)

OnInvoices(report, ids) ==
    DOMAIN report = {"invoice", "amount", "status"} /\ report.invoice \in ids

\* Nothing is loaded by a request while requests do not overlap, and a report is on an invoice.
IInv ==
    "overlap" \notin desk =>
        /\ today \in Int
        /\ BooksInv(Books, today)
        /\ \A p \in Procs : tasks[p] = Idle
        /\ IsSeq(reports) /\ \A k \in DOMAIN reports : OnInvoices(reports[k], DOMAIN invoices)
-----------------------------------------------------------------------------
(* Sequences *)

LEMMA Appended ==
    ASSUME NEW s, IsSeq(s), NEW e
    PROVE  /\ IsSeq(Append(s, e))
           /\ DOMAIN Append(s, e) = DOMAIN s \union {Len(s) + 1}
           /\ Len(s) + 1 \notin DOMAIN s /\ DOMAIN s \subseteq Nat
           /\ \A i \in DOMAIN s : Append(s, e)[i] = s[i]
           /\ Append(s, e)[Len(s) + 1] = e
  <1>1. PICK S : s \in Seq(S)
    BY DEF IsSeq
  <1> DEFINE T == S \union {e}
  <1>2. s \in Seq(T) /\ e \in T
    BY <1>1
  <1> HIDE DEF T
  <1>3. Append(s, e) \in Seq(T)
    BY <1>2
  <1>4. IsSeq(Append(s, e))
    BY <1>3 DEF IsSeq
  <1> QED
    BY <1>2, <1>4

LEMMA Mapped ==
    ASSUME NEW s, IsSeq(s), NEW t, t = [i \in DOMAIN s |-> t[i]]
    PROVE  IsSeq(t)
  <1>1. PICK S : s \in Seq(S)
    BY DEF IsSeq
  <1> DEFINE T == {t[i] : i \in DOMAIN s}
  <1>2. DOMAIN s = 1..Len(s) /\ Len(s) \in Nat
    BY <1>1
  <1>3. t \in [1..Len(s) -> T]
    BY <1>2
  <1> HIDE DEF T
  <1>4. t \in Seq(T)
    BY <1>2, <1>3
  <1> QED
    BY <1>4 DEF IsSeq

\* r is a sequence of n elements.
Listed(r, n) == r = [k \in 1..n |-> r[k]]

\* t is s with elements of r after it.
Continues(s, r, n, t) ==
    /\ IsSeq(t)
    /\ DOMAIN s \subseteq DOMAIN t
    /\ \A i \in DOMAIN s : t[i] = s[i]
    /\ \A i \in DOMAIN t \ DOMAIN s : \E k \in 1..n : t[i] = r[k]

LEMMA Extended ==
    ASSUME NEW s, IsSeq(s), NEW n \in Nat, NEW r, Listed(r, n)
    PROVE  Continues(s, r, n, s \o r)
  <1>1. PICK S : s \in Seq(S)
    BY DEF IsSeq
  <1> DEFINE R == {r[k] : k \in 1..n}
             T == S \union R
  <1>2. r \in [1..n -> R]
    BY DEF R, Listed
  <1> HIDE DEF R
  <1>3. s \in Seq(T) /\ r \in Seq(T)
    BY <1>1, <1>2
  <1>4. Len(r) = n
    BY <1>2
  <1> HIDE DEF T
  <1>5. /\ s \o r \in Seq(T) /\ Len(s \o r) = Len(s) + n
        /\ \A i \in 1..(Len(s) + n) : (s \o r)[i] = IF i <= Len(s) THEN s[i] ELSE r[i - Len(s)]
    BY <1>3, <1>4, ConcatProperties
  <1>6. DOMAIN s = 1..Len(s) /\ Len(s) \in Nat /\ DOMAIN (s \o r) = 1..(Len(s) + n)
    BY <1>3, <1>5
  <1>7. IsSeq(s \o r)
    BY <1>5 DEF IsSeq
  <1>8. ASSUME NEW i \in DOMAIN (s \o r) \ DOMAIN s
        PROVE  \E k \in 1..n : (s \o r)[i] = r[k]
    BY <1>5, <1>6
  <1> QED
    BY <1>5, <1>6, <1>7, <1>8 DEF Continues
-----------------------------------------------------------------------------
(* Steps that neither change what the operator works with nor pay or issue a renewal *)

SameTerms(inv, new) ==
    /\ new.kind = inv.kind /\ new.start = inv.start /\ new.end = inv.end
    /\ new.terms = inv.terms /\ new.cycle = inv.cycle

SamePlan(s, new) ==
    /\ new.status = s.status /\ new.start = s.start /\ new.end = s.end
    /\ new.terms = s.terms /\ new.cycle = s.cycle

Quiet(b, c, day) ==
    /\ Shape(c)
    /\ SamePlan(b.sub, c.sub) /\ c.addons = b.addons
    /\ DOMAIN b.invoices \subseteq DOMAIN c.invoices
    /\ \A i \in DOMAIN b.invoices :
          /\ SameTerms(b.invoices[i], c.invoices[i])
          /\ c.invoices[i].units = b.invoices[i].units /\ c.invoices[i].amount = b.invoices[i].amount
          /\ c.invoices[i].status = "paid" <=> b.invoices[i].status = "paid"
          /\ c.invoices[i].status \in Open => b.invoices[i].status \in Open
    /\ \A i \in DOMAIN c.invoices \ DOMAIN b.invoices :
          /\ c.invoices[i].kind # "renewal" /\ c.invoices[i].status # "paid"
          /\ c.invoices[i].kind \in {"plan", "upgrade"} => c.invoices[i].start <= day
    /\ \A i \in DOMAIN b.invoices : Untouched(c, i) => Untouched(b, i)

\* What backs the plan and the add-ons stays as long as neither changes.
LEMMA BackingKept ==
    ASSUME NEW b, NEW c, NEW day,
           SamePlan(b.sub, c.sub), c.addons = b.addons,
           \A i \in DOMAIN b.invoices : b.invoices[i].status = "paid" =>
               /\ i \in DOMAIN c.invoices /\ c.invoices[i].status = "paid"
               /\ SameTerms(b.invoices[i], c.invoices[i])
               /\ c.invoices[i].units = b.invoices[i].units,
           PlanBacked(b, day), UnitsBacked(b)
    PROVE  PlanBacked(c, day) /\ UnitsBacked(c)
  <1>1. PlanBacked(c, day)
    BY DEF PlanBacked, SamePlan, SameTerms
  <1>2. UnitsBacked(c)
    BY DEF UnitsBacked, SameTerms
  <1> QED
    BY <1>1, <1>2

\* An untouched renewal still follows when neither it nor the add-ons change.
LEMMA FollowsKept ==
    ASSUME NEW b, NEW c, Follows(b), c.sub.end = b.sub.end, c.addons = b.addons,
           \A i \in RenewalRows(c) :
               /\ i \in RenewalRows(b)
               /\ SameTerms(b.invoices[i], c.invoices[i])
               /\ c.invoices[i].units = b.invoices[i].units
               /\ c.invoices[i].amount = b.invoices[i].amount
               /\ c.invoices[i].status \in Open => b.invoices[i].status \in Open
               /\ Untouched(c, i) => Untouched(b, i)
    PROVE  Follows(c)
  <1>1. RenewalUnits(c) = RenewalUnits(b)
    BY DEF RenewalUnits
  <1> SUFFICES ASSUME NEW i \in UpcomingRenewals(c),
                      c.invoices[i].status \in Open, Untouched(c, i)
               PROVE  /\ c.invoices[i].units = RenewalUnits(c)
                      /\ c.invoices[i].amount =
                           RenewalAmount(c.invoices[i].terms, c.invoices[i].cycle, RenewalUnits(c))
    BY DEF Follows
  <1>2. i \in RenewalRows(c) /\ c.invoices[i].start > c.sub.end
    BY DEF UpcomingRenewals, RenewalRows
  <1>3. i \in UpcomingRenewals(b) /\ b.invoices[i].status \in Open /\ Untouched(b, i)
    BY <1>2 DEF UpcomingRenewals, RenewalRows, SameTerms
  <1> QED
    BY <1>1, <1>2, <1>3 DEF Follows, SameTerms

LEMMA QuietStep ==
    ASSUME NEW b, NEW c, NEW day, BooksInv(b, day), Quiet(b, c, day)
    PROVE  BooksInv(c, day)
  <1>1. PlanBacked(c, day) /\ UnitsBacked(c)
    BY BackingKept DEF BooksInv, Quiet
  <1>2. PlansHaveBegun(c, day)
    BY DEF BooksInv, Quiet, PlansHaveBegun, SameTerms
  <1>3. RenewalRows(c) = RenewalRows(b) /\ PlanRows(c) = PlanRows(b)
    BY DEF Quiet, RenewalRows, PlanRows, SameTerms
  <1>4. BeginsWithPlan(c)
    BY <1>3 DEF BooksInv, Quiet, BeginsWithPlan, SamePlan, SameTerms, RenewalRows
  <1>5. ASSUME OnePlan(c)
        PROVE  InOrder(c) /\ Follows(c)
    <2>1. InOrder(b) /\ Follows(b)
      BY <1>3, <1>5 DEF BooksInv, OnePlan
    <2>2. InOrder(c)
      BY <1>3, <2>1 DEF Quiet, InOrder, SamePlan, SameTerms, RenewalRows
    <2>3. \A i \in RenewalRows(c) : i \in DOMAIN b.invoices
      BY <1>3 DEF RenewalRows
    <2>4. Follows(c)
      BY <1>3, <2>1, <2>3, FollowsKept DEF Quiet, SamePlan
    <2> QED
      BY <2>2, <2>4
  <1> QED
    BY <1>1, <1>2, <1>4, <1>5 DEF BooksInv, Quiet
-----------------------------------------------------------------------------
(* A payment *)

WithPayment(b, payment) == [b EXCEPT !.payments = Append(@, payment)]
WithStatus(b, i, s) == [b EXCEPT !.invoices[i].status = s]

\* `c' is `b' after a payment, with invoice i paid by it.
Settled(b, c, i) ==
    /\ Shape(c)
    /\ c.sub = b.sub /\ c.addons = b.addons
    /\ DOMAIN c.invoices = DOMAIN b.invoices
    /\ \A j \in DOMAIN b.invoices \ {i} : c.invoices[j] = b.invoices[j]
    /\ SameTerms(b.invoices[i], c.invoices[i]) /\ c.invoices[i].status = "paid"
    /\ c.invoices[i].units = b.invoices[i].units
    /\ c.invoices[i].amount = b.invoices[i].amount
    /\ \A j : Untouched(c, j) => Untouched(b, j)

LEMMA PaymentAdded ==
    ASSUME NEW b, Shape(b), NEW payment, NEW c, c = WithPayment(b, payment)
    PROVE  /\ Shape(c)
           /\ c.operator = b.operator /\ c.sub = b.sub /\ c.addons = b.addons
           /\ c.invoices = b.invoices
           /\ \A i : Untouched(c, i) => Untouched(b, i)
  <1>1. /\ c.operator = b.operator /\ c.sub = b.sub /\ c.addons = b.addons
        /\ c.invoices = b.invoices /\ c.payments = Append(b.payments, payment)
        /\ c = [operator |-> c.operator, sub |-> c.sub, addons |-> c.addons,
                invoices |-> c.invoices, payments |-> c.payments]
    BY DEF Shape, WithPayment
  <1>2. IsSeq(b.payments)
    BY DEF Shape
  <1>3. /\ IsSeq(c.payments) /\ DOMAIN b.payments \subseteq DOMAIN c.payments
        /\ \A k \in DOMAIN b.payments : c.payments[k] = b.payments[k]
    BY <1>1, <1>2, Appended
  <1>4. Shape(c)
    BY <1>1, <1>3 DEF Shape
  <1>5. \A i : Untouched(c, i) => Untouched(b, i)
    BY <1>3 DEF Untouched
  <1> QED
    BY <1>1, <1>4, <1>5

LEMMA StatusSet ==
    ASSUME NEW b, Shape(b), NEW i \in DOMAIN b.invoices, NEW s \in Open \union {"paid", "void"},
           NEW c, c = WithStatus(b, i, s)
    PROVE  /\ Shape(c)
           /\ c.operator = b.operator /\ c.sub = b.sub /\ c.addons = b.addons
           /\ c.payments = b.payments
           /\ DOMAIN c.invoices = DOMAIN b.invoices
           /\ \A j \in DOMAIN b.invoices \ {i} : c.invoices[j] = b.invoices[j]
           /\ SameTerms(b.invoices[i], c.invoices[i]) /\ c.invoices[i].status = s
           /\ c.invoices[i].units = b.invoices[i].units
           /\ c.invoices[i].amount = b.invoices[i].amount
           /\ \A j : Untouched(c, j) <=> Untouched(b, j)
  <1>1. /\ c.operator = b.operator /\ c.sub = b.sub /\ c.addons = b.addons
        /\ c.payments = b.payments
        /\ c.invoices = [b.invoices EXCEPT ![i] = [b.invoices[i] EXCEPT !.status = s]]
        /\ c = [operator |-> c.operator, sub |-> c.sub, addons |-> c.addons,
                invoices |-> c.invoices, payments |-> c.payments]
    BY DEF Shape, WithStatus
  <1> DEFINE new == [b.invoices[i] EXCEPT !.status = s]
  <1>2. Row(b.invoices[i])
    BY DEF Shape
  <1>3. Row(new) /\ SameTerms(b.invoices[i], new) /\ new.status = s
        /\ new.units = b.invoices[i].units /\ new.amount = b.invoices[i].amount
    BY <1>2 DEF Row, SameTerms
  <1> HIDE DEF new
  <1>4. /\ DOMAIN c.invoices = DOMAIN b.invoices /\ c.invoices[i] = new
        /\ \A j \in DOMAIN b.invoices \ {i} : c.invoices[j] = b.invoices[j]
    BY <1>1 DEF new
  <1>5. c.invoices = [j \in DOMAIN b.invoices |-> c.invoices[j]]
    BY <1>1
  <1>6. IsSeq(b.invoices)
    BY DEF Shape
  <1>7. IsSeq(c.invoices)
    BY <1>5, <1>6, Mapped
  <1>8. Shape(c)
    BY <1>1, <1>3, <1>4, <1>7 DEF Shape
  <1>9. \A j : Untouched(c, j) <=> Untouched(b, j)
    BY <1>1 DEF Untouched
  <1> QED
    BY <1>1, <1>3, <1>4, <1>8, <1>9

LEMMA PaymentSettles ==
    ASSUME NEW b, Shape(b), NEW i \in DOMAIN b.invoices, NEW payment
    PROVE  Settled(b, WithStatus(WithPayment(b, payment), i, "paid"), i)
  <1> DEFINE a == WithPayment(b, payment)
             c == WithStatus(a, i, "paid")
  <1>1. /\ Shape(a)
        /\ a.sub = b.sub /\ a.addons = b.addons /\ a.invoices = b.invoices
        /\ \A j : Untouched(a, j) => Untouched(b, j)
    BY PaymentAdded
  <1> HIDE DEF a
  <1>2. i \in DOMAIN a.invoices /\ "paid" \in Open \union {"paid", "void"}
    BY <1>1
  <1>3. /\ Shape(c)
        /\ c.sub = a.sub /\ c.addons = a.addons
        /\ DOMAIN c.invoices = DOMAIN a.invoices
        /\ \A j \in DOMAIN a.invoices \ {i} : c.invoices[j] = a.invoices[j]
        /\ SameTerms(a.invoices[i], c.invoices[i]) /\ c.invoices[i].status = "paid"
        /\ c.invoices[i].units = a.invoices[i].units
        /\ c.invoices[i].amount = a.invoices[i].amount
        /\ \A j : Untouched(c, j) <=> Untouched(a, j)
    BY <1>1, <1>2, StatusSet
  <1> HIDE DEF c
  <1>4. Settled(b, c, i)
    BY <1>1, <1>3 DEF Settled
  <1> QED
    BY <1>4 DEF a, c

\* An open invoice becomes paid: a second plan that is paid ends the operator's keeping to
\* one, and a renewal that is paid is the next one.
LEMMA InvoicePaid ==
    ASSUME NEW b, NEW day, BooksInv(b, day), NEW i \in DOMAIN b.invoices,
           b.invoices[i].status \in Open, NEW c, Settled(b, c, i)
    PROVE  /\ BooksInv(c, day)
           /\ c.invoices[i].kind \in {"plan", "upgrade"} /\ c.sub.status = "active" => ~OnePlan(c)
           /\ c.invoices[i].kind = "renewal" /\ OnePlan(c) => c.invoices[i].start = c.sub.end + 1
  <1>3. "paid" \notin Open
    BY DEF Open
  <1>4. /\ Shape(c)
        /\ c.sub = b.sub /\ c.addons = b.addons
        /\ DOMAIN c.invoices = DOMAIN b.invoices
        /\ \A j \in DOMAIN b.invoices \ {i} : c.invoices[j] = b.invoices[j]
        /\ SameTerms(b.invoices[i], c.invoices[i]) /\ c.invoices[i].status = "paid"
        /\ c.invoices[i].units = b.invoices[i].units
        /\ c.invoices[i].amount = b.invoices[i].amount
        /\ \A j : Untouched(c, j) => Untouched(b, j)
    BY DEF Settled
  <1>5. \A j \in DOMAIN b.invoices :
           /\ SameTerms(b.invoices[j], c.invoices[j])
           /\ c.invoices[j].units = b.invoices[j].units /\ c.invoices[j].amount = b.invoices[j].amount
           /\ b.invoices[j].status = "paid" => c.invoices[j].status = "paid"
           /\ c.invoices[j].status \in Open => b.invoices[j].status \in Open
    BY <1>3, <1>4 DEF SameTerms
  <1>6. PlanBacked(c, day) /\ UnitsBacked(c)
    <2>1. SamePlan(b.sub, c.sub)
      BY <1>4 DEF SamePlan
    <2>2. \A j \in DOMAIN b.invoices : b.invoices[j].status = "paid" =>
             /\ j \in DOMAIN c.invoices /\ c.invoices[j].status = "paid"
             /\ SameTerms(b.invoices[j], c.invoices[j])
             /\ c.invoices[j].units = b.invoices[j].units
      BY <1>4, <1>5
    <2>3. PlanBacked(b, day) /\ UnitsBacked(b)
      BY DEF BooksInv
    <2> QED
      BY <1>4, <2>1, <2>2, <2>3, BackingKept
  <1>7. PlansHaveBegun(c, day)
    BY <1>4, <1>5 DEF BooksInv, PlansHaveBegun, SameTerms
  <1>8. RenewalRows(c) = RenewalRows(b) /\ PlanRows(b) \subseteq PlanRows(c) /\ i \notin PlanRows(b)
    BY <1>3, <1>4, <1>5 DEF RenewalRows, PlanRows, SameTerms
  <1>9. BeginsWithPlan(c)
    BY <1>4, <1>5, <1>8 DEF BooksInv, BeginsWithPlan, SameTerms, RenewalRows
  <1>10. ASSUME OnePlan(c)
         PROVE  InOrder(c) /\ Follows(c) /\ InOrder(b)
    <2>1. InOrder(b) /\ Follows(b)
      BY <1>8, <1>10 DEF BooksInv, OnePlan
    <2>2. InOrder(c)
      BY <1>4, <1>5, <1>8, <2>1 DEF InOrder, SameTerms, RenewalRows
    <2>3. \A j \in RenewalRows(c) : j \in DOMAIN b.invoices
      BY <1>8 DEF RenewalRows
    <2>4. \A j \in RenewalRows(c) :
             /\ j \in RenewalRows(b)
             /\ SameTerms(b.invoices[j], c.invoices[j])
             /\ c.invoices[j].units = b.invoices[j].units
             /\ c.invoices[j].amount = b.invoices[j].amount
             /\ c.invoices[j].status \in Open => b.invoices[j].status \in Open
             /\ Untouched(c, j) => Untouched(b, j)
      BY <1>4, <1>5, <1>8, <2>3
    <2>5. c.sub.end = b.sub.end /\ c.addons = b.addons
      BY <1>4
    <2>6. Follows(c)
      BY <2>1, <2>4, <2>5, FollowsKept
    <2> QED
      BY <2>1, <2>2, <2>6
  <1>11. ASSUME c.invoices[i].kind \in {"plan", "upgrade"}, c.sub.status = "active"
         PROVE  ~OnePlan(c)
    <2>1. PICK j : j \in PlanRows(b)
      BY <1>4, <1>11 DEF BooksInv, BeginsWithPlan
    <2>2. i \in PlanRows(c)
      BY <1>4, <1>11 DEF PlanRows
    <2> QED
      BY <1>8, <2>1, <2>2 DEF OnePlan
  <1>12. ASSUME c.invoices[i].kind = "renewal", OnePlan(c)
         PROVE  c.invoices[i].start = c.sub.end + 1
    <2>1. i \in RenewalRows(b) /\ b.invoices[i].status # "paid"
      BY <1>3, <1>4, <1>12 DEF RenewalRows, SameTerms
    <2> QED
      BY <1>4, <1>10, <1>12, <2>1 DEF InOrder, SameTerms
  <1> QED
    BY <1>4, <1>6, <1>7, <1>9, <1>10, <1>11, <1>12 DEF BooksInv
-----------------------------------------------------------------------------
(* What a paid invoice activates: `inv' is row j of the books, as the handler loaded it. *)

LEMMA PlanSet ==
    ASSUME NEW c, Shape(c), NEW inv, inv.start \in Int, inv.end \in Int,
           NEW d, d = PlanActivated(c, inv)
    PROVE  /\ Shape(d)
           /\ d.addons = c.addons /\ d.invoices = c.invoices /\ d.payments = c.payments
           /\ d.sub.status = "active" /\ d.sub.start = inv.start /\ d.sub.end = inv.end
           /\ d.sub.terms = inv.terms /\ d.sub.cycle = inv.cycle
  <1>1. /\ d.addons = c.addons /\ d.invoices = c.invoices /\ d.payments = c.payments
        /\ d.sub = [status |-> "active", start |-> inv.start, end |-> inv.end,
                    terms |-> inv.terms, cycle |-> inv.cycle, scheduled |-> NoChange]
        /\ d = [operator |-> d.operator, sub |-> d.sub, addons |-> d.addons,
                invoices |-> d.invoices, payments |-> d.payments]
    BY DEF Shape, PlanActivated
  <1> QED
    BY <1>1 DEF Shape

LEMMA PlanBackedBy ==
    ASSUME NEW d, NEW day, NEW j \in DOMAIN d.invoices,
           d.invoices[j].status = "paid", d.invoices[j].start <= day,
           NEW inv, SameTerms(d.invoices[j], inv),
           d.sub.start = inv.start, d.sub.end = inv.end,
           d.sub.terms = inv.terms, d.sub.cycle = inv.cycle
    PROVE  PlanBacked(d, day)
  BY DEF PlanBacked, SameTerms

LEMMA PlanActivates ==
    ASSUME NEW c, NEW day, BooksInv(c, day),
           NEW j \in DOMAIN c.invoices, c.invoices[j].status = "paid",
           c.invoices[j].kind \in {"plan", "upgrade"},
           c.sub.status = "active" => ~OnePlan(c),
           NEW inv, SameTerms(c.invoices[j], inv)
    PROVE  BooksInv(PlanActivated(c, inv), day)
  <1> DEFINE d == PlanActivated(c, inv)
  <1>1. Shape(c) /\ Row(c.invoices[j])
    BY DEF BooksInv, Shape
  <1>2. inv.start \in Int /\ inv.end \in Int
    BY <1>1 DEF SameTerms, Row
  <1>3. /\ Shape(d)
        /\ d.addons = c.addons /\ d.invoices = c.invoices /\ d.payments = c.payments
        /\ d.sub.status = "active" /\ d.sub.start = inv.start /\ d.sub.end = inv.end
        /\ d.sub.terms = inv.terms /\ d.sub.cycle = inv.cycle
    BY <1>1, <1>2, PlanSet
  <1> HIDE DEF d
  <1>4. PlanBacked(d, day)
    <2>1. d.invoices[j].start <= day
      BY <1>3 DEF BooksInv, PlansHaveBegun
    <2>2. j \in DOMAIN d.invoices /\ d.invoices[j].status = "paid" /\ SameTerms(d.invoices[j], inv)
      BY <1>3
    <2> QED
      BY <1>3, <2>1, <2>2, PlanBackedBy
  <1>5. UnitsBacked(d) /\ PlansHaveBegun(d, day)
    BY <1>3 DEF BooksInv, UnitsBacked, PlansHaveBegun
  <1>6. RenewalRows(d) = RenewalRows(c) /\ PlanRows(d) = PlanRows(c) /\ j \in PlanRows(d)
    BY <1>3 DEF RenewalRows, PlanRows
  <1>7. BeginsWithPlan(d)
    BY <1>3, <1>6 DEF BooksInv, BeginsWithPlan
  <1>8. ASSUME OnePlan(d)
        PROVE  InOrder(d) /\ Follows(d)
    <2>1. RenewalRows(d) = {}
      BY <1>6, <1>8 DEF BooksInv, BeginsWithPlan, OnePlan
    <2>2. UpcomingRenewals(d) = {}
      BY <2>1 DEF UpcomingRenewals, RenewalRows
    <2> QED
      BY <2>1, <2>2 DEF InOrder, Follows
  <1>9. BooksInv(d, day)
    BY <1>3, <1>4, <1>5, <1>7, <1>8 DEF BooksInv
  <1> QED
    BY <1>9 DEF d

\* `d' is `c' with some units those of `inv', and others ended.
RenewsUnits(c, inv, d) ==
    /\ Shape(d)
    /\ d.sub = c.sub /\ d.invoices = c.invoices /\ d.payments = c.payments
    /\ \A m \in Modules : d.addons[m].active =>
          \/ d.addons[m] = c.addons[m]
          \/ d.addons[m].quantity = inv.units[m] /\ d.addons[m].through = inv.end

LEMMA RenewedUnits ==
    ASSUME NEW c, Shape(c), NEW inv
    PROVE  RenewsUnits(c, inv, AddonsRenewed(c, inv))
  <1> SUFFICES ASSUME NEW d, d = AddonsRenewed(c, inv)
               PROVE  RenewsUnits(c, inv, d)
    OBVIOUS
  <1>1. /\ d.sub = c.sub /\ d.invoices = c.invoices /\ d.payments = c.payments
        /\ DOMAIN d.addons = Modules
        /\ d = [operator |-> d.operator, sub |-> d.sub, addons |-> d.addons,
                invoices |-> d.invoices, payments |-> d.payments]
    BY DEF Shape, AddonsRenewed
  <1>2. ASSUME NEW m \in Modules
        PROVE  /\ DOMAIN d.addons[m] = {"active", "quantity", "through", "renews"}
               /\ d.addons[m].active =>
                    \/ d.addons[m] = c.addons[m]
                    \/ d.addons[m].quantity = inv.units[m] /\ d.addons[m].through = inv.end
    <2> DEFINE addon == c.addons[m]
               carried == [addon EXCEPT !.through = inv.end, !.quantity = inv.units[m],
                                        !.renews = AsBefore]
               ended == [addon EXCEPT !.active = FALSE, !.renews = AsBefore]
    <2>1. DOMAIN addon = {"active", "quantity", "through", "renews"}
      BY DEF Shape
    <2>2. d.addons[m] = carried \/ d.addons[m] = ended \/ d.addons[m] = addon
      BY DEF Shape, AddonsRenewed
    <2>3. CASE d.addons[m] = carried
      BY <2>1, <2>3
    <2>4. CASE d.addons[m] = ended
      <3>1. ended.active = FALSE /\ DOMAIN ended = DOMAIN addon
        BY <2>1
      <3> QED
        BY <2>1, <2>4, <3>1
    <2>5. CASE d.addons[m] = addon
      BY <2>1, <2>5
    <2> QED
      BY <2>2, <2>3, <2>4, <2>5
  <1> QED
    BY <1>1, <1>2 DEF Shape, RenewsUnits

\* Of an operator that keeps its plan, the renewal that starts is the next one, and no other
\* is left to be paid.
LEMMA RenewalActivates ==
    ASSUME NEW c, NEW day, BooksInv(c, day),
           NEW j \in DOMAIN c.invoices, c.invoices[j].status = "paid",
           c.invoices[j].kind = "renewal", c.invoices[j].start <= day,
           OnePlan(c) => c.invoices[j].start = c.sub.end + 1,
           NEW inv, SameTerms(c.invoices[j], inv), inv.units = c.invoices[j].units
    PROVE  BooksInv(AddonsRenewed(PlanActivated(c, inv), inv), day)
  <1> DEFINE e == PlanActivated(c, inv)
             d == AddonsRenewed(e, inv)
  <1>1. Shape(c) /\ Row(c.invoices[j])
    BY DEF BooksInv, Shape
  <1>2. inv.start \in Int /\ inv.end \in Int
    BY <1>1 DEF SameTerms, Row
  <1>3. /\ Shape(e)
        /\ e.addons = c.addons /\ e.invoices = c.invoices
        /\ e.sub.status = "active" /\ e.sub.start = inv.start /\ e.sub.end = inv.end
        /\ e.sub.terms = inv.terms /\ e.sub.cycle = inv.cycle
    BY <1>1, <1>2, PlanSet
  <1> HIDE DEF e
  <1>a. RenewsUnits(e, inv, d)
    BY <1>3, RenewedUnits
  <1> HIDE DEF d
  <1>4. /\ Shape(d)
        /\ d.sub = e.sub /\ d.invoices = e.invoices
        /\ \A m \in Modules : d.addons[m].active =>
              \/ d.addons[m] = e.addons[m]
              \/ d.addons[m].quantity = inv.units[m] /\ d.addons[m].through = inv.end
    BY <1>a DEF RenewsUnits
  <1>5. PlanBacked(d, day)
    <2>1. j \in DOMAIN d.invoices /\ d.invoices[j].status = "paid" /\ SameTerms(d.invoices[j], inv)
          /\ d.invoices[j].start <= day
      BY <1>3, <1>4
    <2> QED
      BY <1>3, <1>4, <2>1, PlanBackedBy
  <1>6. UnitsBacked(d)
    BY <1>3, <1>4 DEF BooksInv, UnitsBacked, SameTerms
  <1>7. PlansHaveBegun(d, day)
    BY <1>3, <1>4 DEF BooksInv, PlansHaveBegun
  <1>8. RenewalRows(d) = RenewalRows(c) /\ PlanRows(d) = PlanRows(c) /\ j \in RenewalRows(c)
    BY <1>3, <1>4 DEF RenewalRows, PlanRows
  <1>9. BeginsWithPlan(d)
    BY <1>3, <1>4, <1>8 DEF BooksInv, BeginsWithPlan
  <1>10. ASSUME OnePlan(d)
         PROVE  InOrder(d) /\ Follows(d)
    <2>1. InOrder(c) /\ c.invoices[j].start = c.sub.end + 1
      BY <1>8, <1>10 DEF BooksInv, OnePlan
    <2>2. inv.start <= inv.end /\ inv.start = c.sub.end + 1 /\ d.sub.end = inv.end
      BY <1>3, <1>4, <1>8, <2>1 DEF BooksInv, BeginsWithPlan, SameTerms
    <2>3. \A i \in RenewalRows(d) :
             d.invoices[i].status = "paid" /\ d.invoices[i].start <= d.sub.end
      <3> SUFFICES ASSUME NEW i \in RenewalRows(c)
                   PROVE  c.invoices[i].status = "paid" /\ c.invoices[i].start <= inv.end
        BY <1>3, <1>4, <1>8, <2>2
      <3>1. c.invoices[i].start \in Int /\ c.sub.end \in Int
        BY <1>1 DEF RenewalRows, Shape, Row
      <3>2. CASE c.invoices[i].start = c.sub.end + 1
        BY <1>2, <1>8, <2>1, <2>2, <3>2 DEF InOrder
      <3>3. CASE c.invoices[i].status = "paid" /\ c.invoices[i].start <= c.sub.end
        BY <1>2, <2>2, <3>1, <3>3
      <3> QED
        BY <2>1, <3>2, <3>3 DEF InOrder
    <2>4. \A i \in RenewalRows(d) : d.invoices[i].start # d.sub.end + 1
      BY <1>2, <1>3, <1>4, <2>2, <2>3
    <2>5. InOrder(d)
      BY <2>3, <2>4 DEF InOrder
    <2>6. UpcomingRenewals(d) = {}
      BY <1>2, <1>4, <2>2, <2>3 DEF UpcomingRenewals, RenewalRows, Shape, Row
    <2> QED
      BY <2>5, <2>6 DEF Follows
  <1>11. BooksInv(d, day)
    BY <1>4, <1>5, <1>6, <1>7, <1>9, <1>10 DEF BooksInv
  <1> QED
    BY <1>11 DEF d, e

\* `c' is `b' with some renewals asking for what is to renew.
Reprices(b, renewals, c) ==
    /\ Shape(c)
    /\ c.sub = b.sub /\ c.addons = b.addons /\ c.payments = b.payments
    /\ DOMAIN c.invoices = DOMAIN b.invoices
    /\ \A i \in DOMAIN b.invoices \ renewals : c.invoices[i] = b.invoices[i]
    /\ \A i \in DOMAIN b.invoices \intersect renewals :
          /\ SameTerms(b.invoices[i], c.invoices[i])
          /\ c.invoices[i].status = b.invoices[i].status
          /\ c.invoices[i].units = RenewalUnits(b)
          /\ c.invoices[i].amount = RenewalAmount(b.invoices[i].terms, b.invoices[i].cycle,
                                                  RenewalUnits(b))

LEMMA RepricedRows ==
    ASSUME NEW b, Shape(b), NEW renewals
    PROVE  Reprices(b, renewals, Repriced(b, renewals))
  <1> SUFFICES ASSUME NEW c, c = Repriced(b, renewals)
               PROVE  Reprices(b, renewals, c)
    OBVIOUS
  <1> DEFINE units == RenewalUnits(b)
             reprice(inv) == [inv EXCEPT !.units = units,
                                         !.amount = RenewalAmount(inv.terms, inv.cycle, units)]
             new(i) == IF i \in renewals THEN reprice(b.invoices[i]) ELSE b.invoices[i]
  <1>1. /\ c.sub = b.sub /\ c.addons = b.addons /\ c.payments = b.payments
        /\ c.invoices = [i \in DOMAIN b.invoices |-> new(i)]
        /\ c = [operator |-> c.operator, sub |-> c.sub, addons |-> c.addons,
                invoices |-> c.invoices, payments |-> c.payments]
    BY DEF Shape, Repriced
  <1>2. ASSUME NEW i \in DOMAIN b.invoices
        PROVE  LET r == reprice(b.invoices[i]) IN
               /\ Row(r) /\ SameTerms(b.invoices[i], r) /\ r.status = b.invoices[i].status
               /\ r.units = units
               /\ r.amount = RenewalAmount(b.invoices[i].terms, b.invoices[i].cycle, units)
    <2>1. Row(b.invoices[i])
      BY DEF Shape
    <2> HIDE DEF units
    <2> QED
      BY <2>1 DEF Row, SameTerms
  <1> HIDE DEF reprice
  <1>3. DOMAIN c.invoices = DOMAIN b.invoices /\ \A i \in DOMAIN b.invoices : c.invoices[i] = new(i)
    BY <1>1
  <1>4. c.invoices = [i \in DOMAIN b.invoices |-> c.invoices[i]]
    BY <1>1
  <1>5. IsSeq(c.invoices)
    BY <1>4, Mapped DEF Shape
  <1>6. \A i \in DOMAIN c.invoices : Row(c.invoices[i])
    BY <1>2, <1>3 DEF Shape
  <1>7. Shape(c)
    BY <1>1, <1>5, <1>6 DEF Shape
  <1> QED
    BY <1>1, <1>2, <1>3, <1>7 DEF Reprices

\* Once the untouched renewals are repriced, each asks for what is to renew.
LEMMA RepricedFollow ==
    ASSUME NEW b, NEW day, Shape(b), PlanBacked(b, day), UnitsBacked(b), PlansHaveBegun(b, day),
           BeginsWithPlan(b), OnePlan(b) => InOrder(b),
           NEW renewals, renewals \subseteq UpcomingRenewals(b),
           \A i \in renewals : b.invoices[i].status \in Open,
           \A i \in UpcomingRenewals(b) :
              b.invoices[i].status \in Open /\ Untouched(b, i) => i \in renewals
    PROVE  BooksInv(Repriced(b, renewals), day)
  <1> DEFINE c == Repriced(b, renewals)
  <1>1. Reprices(b, renewals, c)
    BY RepricedRows
  <1> HIDE DEF c
  <1>2. /\ Shape(c) /\ c.sub = b.sub /\ c.addons = b.addons /\ c.payments = b.payments
        /\ DOMAIN c.invoices = DOMAIN b.invoices
        /\ \A i \in DOMAIN b.invoices : /\ SameTerms(b.invoices[i], c.invoices[i])
                                        /\ c.invoices[i].status = b.invoices[i].status
    BY <1>1 DEF Reprices, SameTerms
  <1>3. \A i \in DOMAIN b.invoices : b.invoices[i].status = "paid" =>
           /\ i \in DOMAIN c.invoices /\ c.invoices[i].status = "paid"
           /\ SameTerms(b.invoices[i], c.invoices[i])
           /\ c.invoices[i].units = b.invoices[i].units
    BY <1>1, <1>2 DEF Reprices, Open
  <1>4. PlanBacked(c, day) /\ UnitsBacked(c)
    <2>1. SamePlan(b.sub, c.sub)
      BY <1>2 DEF SamePlan
    <2> QED
      BY <1>2, <1>3, <2>1, BackingKept
  <1>5. PlansHaveBegun(c, day)
    BY <1>2 DEF PlansHaveBegun, SameTerms
  <1>6. RenewalRows(c) = RenewalRows(b) /\ PlanRows(c) = PlanRows(b)
    BY <1>2 DEF RenewalRows, PlanRows, SameTerms
  <1>7. BeginsWithPlan(c)
    BY <1>2, <1>6 DEF BeginsWithPlan, SameTerms, RenewalRows
  <1>8. OnePlan(c) => InOrder(c)
    BY <1>2, <1>6 DEF OnePlan, InOrder, SameTerms, RenewalRows
  <1>9. Follows(c)
    <2>1. RenewalUnits(c) = RenewalUnits(b)
      BY <1>2 DEF RenewalUnits
    <2> SUFFICES ASSUME NEW i \in UpcomingRenewals(c),
                        c.invoices[i].status \in Open, Untouched(c, i)
                 PROVE  /\ c.invoices[i].units = RenewalUnits(c)
                        /\ c.invoices[i].amount =
                             RenewalAmount(c.invoices[i].terms, c.invoices[i].cycle, RenewalUnits(c))
      BY DEF Follows
    <2>2. i \in UpcomingRenewals(b) /\ b.invoices[i].status \in Open /\ i \in DOMAIN b.invoices
      BY <1>2 DEF UpcomingRenewals, SameTerms
    <2>3. Untouched(b, i)
      BY <1>2 DEF Untouched
    <2>4. i \in renewals
      BY <2>2, <2>3
    <2> QED
      BY <1>1, <2>1, <2>2, <2>4 DEF Reprices, SameTerms
  <1>10. BooksInv(c, day)
    BY <1>2, <1>4, <1>5, <1>7, <1>8, <1>9 DEF BooksInv
  <1> QED
    BY <1>10 DEF c

LEMMA AddonActivates ==
    ASSUME NEW c, NEW day, BooksInv(c, day),
           NEW j \in DOMAIN c.invoices, c.invoices[j].status = "paid",
           NEW inv, SameTerms(c.invoices[j], inv), inv.units = c.invoices[j].units
    PROVE  BooksInv(AddonActivated(c, inv), day)
  <1> DEFINE Bought == [c EXCEPT !.addons = [m \in Modules |->
                          IF inv.units[m] = 0 THEN c.addons[m]
                          ELSE [active |-> TRUE, quantity |-> inv.units[m], through |-> inv.end,
                                renews |-> AsBefore]]]
             repriced(b) == {i \in UpcomingRenewals(b) : b.invoices[i].status \in Open /\ Untouched(b, i)}
  <1>1. AddonActivated(c, inv) = Repriced(Bought, repriced(Bought))
    BY DEF AddonActivated
  <1> SUFFICES ASSUME NEW b, b = Bought
               PROVE  BooksInv(Repriced(b, repriced(b)), day)
    BY <1>1
  <1>2. Shape(c)
    BY DEF BooksInv
  <1>3. /\ b.sub = c.sub /\ b.invoices = c.invoices /\ b.payments = c.payments
        /\ DOMAIN b.addons = Modules
        /\ b = [operator |-> b.operator, sub |-> b.sub, addons |-> b.addons,
                invoices |-> b.invoices, payments |-> b.payments]
    BY <1>2 DEF Shape
  <1>4. ASSUME NEW m \in Modules
        PROVE  /\ DOMAIN b.addons[m] = {"active", "quantity", "through", "renews"}
               /\ \/ b.addons[m] = c.addons[m]
                  \/ b.addons[m].quantity = inv.units[m] /\ b.addons[m].through = inv.end
    <2>1. b.addons[m] = IF inv.units[m] = 0 THEN c.addons[m]
                        ELSE [active |-> TRUE, quantity |-> inv.units[m], through |-> inv.end,
                              renews |-> AsBefore]
      BY <1>2 DEF Shape
    <2> QED
      BY <1>2, <2>1 DEF Shape
  <1> HIDE DEF Bought
  <1>5. Shape(b)
    BY <1>2, <1>3, <1>4 DEF Shape
  <1>6. PlanBacked(b, day) /\ PlansHaveBegun(b, day) /\ BeginsWithPlan(b)
    BY <1>3 DEF BooksInv, PlanBacked, PlansHaveBegun, BeginsWithPlan, RenewalRows, PlanRows
  <1>7. UnitsBacked(b)
    BY <1>3, <1>4 DEF BooksInv, UnitsBacked, SameTerms
  <1>8. OnePlan(b) => InOrder(b)
    BY <1>3 DEF BooksInv, OnePlan, PlanRows, InOrder, RenewalRows
  <1> QED
    BY <1>5, <1>6, <1>7, <1>8, RepricedFollow

\* Of an invoice that has just been paid in full, whatever it is for.
LEMMA PaidInvoiceActivates ==
    ASSUME NEW b, today \in Int, BooksInv(b, today), NEW i \in DOMAIN b.invoices,
           b.invoices[i].status \in Open, NEW c, Settled(b, c, i)
    PROVE  BooksInv(Activated(c, b.invoices[i]), today)
  <1> DEFINE inv == b.invoices[i]
  <1>1. /\ BooksInv(c, today)
        /\ c.invoices[i].kind \in {"plan", "upgrade"} /\ c.sub.status = "active" => ~OnePlan(c)
        /\ c.invoices[i].kind = "renewal" /\ OnePlan(c) => c.invoices[i].start = c.sub.end + 1
    BY InvoicePaid
  <1>2. /\ i \in DOMAIN c.invoices /\ c.invoices[i].status = "paid"
        /\ SameTerms(c.invoices[i], inv) /\ inv.units = c.invoices[i].units
        /\ c.invoices[i].kind = inv.kind /\ c.invoices[i].start = inv.start
    BY DEF Settled, SameTerms
  <1>3. inv.kind \in InvoiceKinds /\ (inv.kind = "renewal" => inv.start \in Int)
    BY DEF BooksInv, Shape, Row
  <1> SUFFICES BooksInv(Activated(c, inv), today)
    OBVIOUS
  <1> HIDE DEF inv
  <1>4. CASE inv.kind \in {"usage", "manual"}
    BY <1>1, <1>4 DEF Activated
  <1>5. CASE inv.kind = "addon"
    <2>1. Activated(c, inv) = AddonActivated(c, inv)
      BY <1>5 DEF Activated
    <2> QED
      BY <1>1, <1>2, <2>1, AddonActivates
  <1>6. CASE inv.kind = "renewal" /\ inv.start > today
    BY <1>1, <1>6 DEF Activated
  <1>7. CASE inv.kind = "renewal" /\ ~(inv.start > today)
    <2>1. Activated(c, inv) = AddonsRenewed(PlanActivated(c, inv), inv)
      BY <1>7 DEF Activated
    <2>2. inv.start <= today
      BY <1>3, <1>7
    <2> QED
      BY <1>1, <1>2, <1>7, <2>1, <2>2, RenewalActivates
  <1>8. CASE inv.kind \in {"plan", "upgrade"}
    <2>1. Activated(c, inv) = PlanActivated(c, inv)
      BY <1>8 DEF Activated
    <2> QED
      BY <1>1, <1>2, <1>8, <2>1, PlanActivates
  <1> QED
    BY <1>3, <1>4, <1>5, <1>6, <1>7, <1>8 DEF InvoiceKinds
-----------------------------------------------------------------------------
(* The daily job *)

LEMMA UsageWindowsCounted == \E n \in Nat : DOMAIN UsageWindows = 1..n
  <1> DEFINE over == {k \in 0..LastDay :
                 /\ sub.start + k * DaysInMonth <= sub.end
                 /\ Min({sub.start + k * DaysInMonth + DaysInMonth - 1, sub.end}) < today}
  <1>1. DOMAIN UsageWindows = 1..Cardinality(over)
    BY DEF UsageWindows
  <1>2. over \subseteq 0..LastDay
    OBVIOUS
  <1>3. IsFiniteSet(0..LastDay)
    BY Calendar, FS_Interval
  <1> HIDE DEF over
  <1>4. Cardinality(over) \in Nat
    BY <1>2, <1>3, FS_Subset, FS_CardinalityType
  <1> QED
    BY <1>1, <1>4

WithInvoices(b, r) == [b EXCEPT !.invoices = @ \o r]

LEMMA InvoicesExtended ==
    ASSUME NEW b, Shape(b), NEW n \in Nat, NEW r, Listed(r, n),
           \A k \in 1..n : Row(r[k]), NEW c, c = WithInvoices(b, r)
    PROVE  /\ Shape(c)
           /\ c.sub = b.sub /\ c.addons = b.addons /\ c.payments = b.payments
           /\ DOMAIN b.invoices \subseteq DOMAIN c.invoices
           /\ \A i \in DOMAIN b.invoices : c.invoices[i] = b.invoices[i]
           /\ \A i \in DOMAIN c.invoices \ DOMAIN b.invoices : \E k \in 1..n : c.invoices[i] = r[k]
  <1>1. /\ c.sub = b.sub /\ c.addons = b.addons /\ c.payments = b.payments
        /\ c.invoices = b.invoices \o r
        /\ c = [operator |-> c.operator, sub |-> c.sub, addons |-> c.addons,
                invoices |-> c.invoices, payments |-> c.payments]
    BY DEF Shape, WithInvoices
  <1>2. IsSeq(b.invoices)
    BY DEF Shape
  <1>3. Continues(b.invoices, r, n, c.invoices)
    BY <1>1, <1>2, Extended
  <1>4. \A i \in DOMAIN c.invoices : Row(c.invoices[i])
    BY <1>1, <1>3 DEF Shape, Continues
  <1>5. Shape(c)
    BY <1>1, <1>3, <1>4 DEF Shape, Continues
  <1> QED
    BY <1>1, <1>3, <1>5 DEF Continues

LEMMA UsageBilledQuietly ==
    ASSUME NEW b, Shape(b)
    PROVE  /\ Quiet(b, UsageBilled(b), today)
           /\ UsageBilled(b).sub = b.sub
           /\ \A i \in RenewalRows(UsageBilled(b)) :
                 i \in RenewalRows(b) /\ UsageBilled(b).invoices[i] = b.invoices[i]
  <1> DEFINE windows == UsageWindows
             known(w) == \E i \in DOMAIN b.invoices :
                 /\ b.invoices[i].kind = "usage"
                 /\ b.invoices[i].start = w.start /\ b.invoices[i].end = w.end
             owed == {m \in DOMAIN windows :
                         ~known(windows[m]) /\ ExtraSeats(sub.terms, windows[m]) # 0}
             nth(n) == windows[CHOOSE m \in owed : Cardinality({k \in owed : k <= m}) = n]
             bill(w) == NewInvoice("usage", w.start, w.end, today,
                            Rounded(ExtraSeats(sub.terms, w) * sub.terms.rate, w.end - w.start + 1))
             count == Cardinality(owed)
             bills == [n \in 1..count |-> bill(nth(n))]
  <1>1. \/ UsageBilled(b) = b
        \/ UsageBilled(b) = WithInvoices(b, bills)
    BY DEF UsageBilled, WithInvoices
  <1>2. count \in Nat
    <2>1. PICK n \in Nat : DOMAIN windows = 1..n
      BY UsageWindowsCounted
    <2>2. owed \subseteq 1..n
      BY <2>1
    <2>3. IsFiniteSet(1..n)
      BY <2>1, FS_Interval
    <2> HIDE DEF owed
    <2> QED
      BY <2>2, <2>3, FS_Subset, FS_CardinalityType
  <1> HIDE DEF windows, known, owed, nth, count
  <1>3. \A w : Row(bill(w)) /\ bill(w).kind = "usage" /\ bill(w).status = "issued"
    BY DEF NewInvoice, Row, InvoiceKinds, Open
  <1> HIDE DEF bill
  <1>4. /\ Listed(bills, count)
        /\ \A k \in 1..count : /\ Row(bills[k]) /\ bills[k].kind = "usage"
                               /\ bills[k].status = "issued"
    BY <1>3 DEF Listed
  <1> HIDE DEF bills
  <1> SUFFICES ASSUME NEW c, c = UsageBilled(b)
               PROVE  /\ Quiet(b, c, today) /\ c.sub = b.sub
                      /\ \A i \in RenewalRows(c) :
                            i \in RenewalRows(b) /\ c.invoices[i] = b.invoices[i]
    OBVIOUS
  <1>5. /\ Shape(c)
        /\ c.sub = b.sub /\ c.addons = b.addons /\ c.payments = b.payments
        /\ DOMAIN b.invoices \subseteq DOMAIN c.invoices
        /\ \A i \in DOMAIN b.invoices : c.invoices[i] = b.invoices[i]
        /\ \A i \in DOMAIN c.invoices \ DOMAIN b.invoices :
              c.invoices[i].kind = "usage" /\ c.invoices[i].status = "issued"
    <2>1. CASE c = b
      BY <2>1
    <2>2. CASE c = WithInvoices(b, bills)
      BY <1>2, <1>4, <2>2, InvoicesExtended
    <2> QED
      BY <1>1, <2>1, <2>2
  <1>6. \A i : Untouched(c, i) => Untouched(b, i)
    BY <1>5 DEF Untouched
  <1>7. Quiet(b, c, today)
    BY <1>5, <1>6 DEF Quiet, SamePlan, SameTerms
  <1> QED
    BY <1>5, <1>7 DEF RenewalRows

LEMMA OverdueQuietly ==
    ASSUME NEW b, Shape(b)
    PROVE  Quiet(b, BecomeOverdue(b), today)
  <1> DEFINE late(inv) == [inv EXCEPT !.status = "overdue"]
             new(i) == IF b.invoices[i].status = "issued" /\ b.invoices[i].due < today
                       THEN late(b.invoices[i]) ELSE b.invoices[i]
  <1> SUFFICES ASSUME NEW c, c = BecomeOverdue(b)
               PROVE  Quiet(b, c, today)
    OBVIOUS
  <1>1. /\ c.sub = b.sub /\ c.addons = b.addons /\ c.payments = b.payments
        /\ c.invoices = [i \in DOMAIN b.invoices |-> new(i)]
        /\ c = [operator |-> c.operator, sub |-> c.sub, addons |-> c.addons,
                invoices |-> c.invoices, payments |-> c.payments]
    BY DEF Shape, BecomeOverdue
  <1>2. ASSUME NEW i \in DOMAIN b.invoices
        PROVE  LET r == late(b.invoices[i]) IN
               /\ Row(r) /\ SameTerms(b.invoices[i], r) /\ r.status = "overdue"
               /\ r.units = b.invoices[i].units /\ r.amount = b.invoices[i].amount
    <2>1. Row(b.invoices[i])
      BY DEF Shape
    <2> QED
      BY <2>1 DEF Row, SameTerms, Open
  <1> HIDE DEF late
  <1>3. DOMAIN c.invoices = DOMAIN b.invoices /\ \A i \in DOMAIN b.invoices : c.invoices[i] = new(i)
    BY <1>1
  <1>4. c.invoices = [i \in DOMAIN b.invoices |-> c.invoices[i]]
    BY <1>1
  <1>5. IsSeq(c.invoices)
    BY <1>4, Mapped DEF Shape
  <1>6. Shape(c)
    BY <1>1, <1>2, <1>3, <1>5 DEF Shape
  <1>7. \A i : Untouched(c, i) => Untouched(b, i)
    BY <1>1 DEF Untouched
  <1> QED
    BY <1>1, <1>2, <1>3, <1>6, <1>7 DEF Quiet, SamePlan, SameTerms, Open

\* `c' is `b' with one more invoice.
Adds(b, inv, c) ==
    /\ Shape(c)
    /\ c.sub = b.sub /\ c.addons = b.addons /\ c.payments = b.payments
    /\ \A i \in DOMAIN b.invoices : c.invoices[i] = b.invoices[i]
    /\ \E k : /\ k \notin DOMAIN b.invoices /\ c.invoices[k] = inv
              /\ DOMAIN c.invoices = DOMAIN b.invoices \union {k}

LEMMA IssuedRow ==
    ASSUME NEW b, Shape(b), NEW inv, Row(inv)
    PROVE  Adds(b, inv, Issued(b, inv))
  <1> SUFFICES ASSUME NEW c, c = Issued(b, inv)
               PROVE  Adds(b, inv, c)
    OBVIOUS
  <1>1. /\ c.sub = b.sub /\ c.addons = b.addons /\ c.payments = b.payments
        /\ c.invoices = Append(b.invoices, inv)
        /\ c = [operator |-> c.operator, sub |-> c.sub, addons |-> c.addons,
                invoices |-> c.invoices, payments |-> c.payments]
    BY DEF Shape, Issued
  <1> DEFINE k == Len(b.invoices) + 1
  <1>2. /\ IsSeq(c.invoices)
        /\ DOMAIN c.invoices = DOMAIN b.invoices \union {k}
        /\ k \notin DOMAIN b.invoices
        /\ \A i \in DOMAIN b.invoices : c.invoices[i] = b.invoices[i]
        /\ c.invoices[k] = inv
    BY <1>1, Appended DEF Shape
  <1> HIDE DEF k
  <1>3. Shape(c)
    BY <1>1, <1>2 DEF Shape
  <1> QED
    BY <1>1, <1>2, <1>3 DEF Adds

\* A new invoice that is to be paid, of any kind but a renewal, changes nothing yet.
LEMMA IssuedQuietly ==
    ASSUME NEW b, Shape(b), NEW inv, Row(inv), NEW day,
           inv.kind # "renewal", inv.status = "issued",
           inv.kind \in {"plan", "upgrade"} => inv.start <= day
    PROVE  Quiet(b, Issued(b, inv), day)
  <1> SUFFICES ASSUME NEW c, Adds(b, inv, c)
               PROVE  Quiet(b, c, day)
    BY IssuedRow
  <1>1. \A i : Untouched(c, i) => Untouched(b, i)
    BY DEF Adds, Untouched
  <1>2. /\ Shape(c) /\ c.sub = b.sub /\ c.addons = b.addons
        /\ \A i \in DOMAIN b.invoices : c.invoices[i] = b.invoices[i]
        /\ DOMAIN b.invoices \subseteq DOMAIN c.invoices
        /\ \A i \in DOMAIN c.invoices \ DOMAIN b.invoices : c.invoices[i] = inv
    BY DEF Adds
  <1> QED
    BY <1>1, <1>2 DEF Quiet, SamePlan, SameTerms

\* The next renewal asks for what is to renew.
LEMMA RenewalIssued ==
    ASSUME NEW b, NEW day, BooksInv(b, day), b.sub.status = "active",
           RenewalsFrom(b, b.sub.end + 1) = {},
           NEW inv, Row(inv), inv.kind = "renewal", inv.status = "issued",
           inv.start = b.sub.end + 1, inv.start <= inv.end,
           inv.units = RenewalUnits(b),
           inv.amount = RenewalAmount(inv.terms, inv.cycle, RenewalUnits(b))
    PROVE  BooksInv(Issued(b, inv), day)
  <1>0. Shape(b)
    BY DEF BooksInv
  <1> SUFFICES ASSUME NEW c, Adds(b, inv, c)
               PROVE  BooksInv(c, day)
    BY <1>0, IssuedRow
  <1>1. PICK k : /\ k \notin DOMAIN b.invoices /\ c.invoices[k] = inv
                 /\ DOMAIN c.invoices = DOMAIN b.invoices \union {k}
    BY DEF Adds
  <1>2. /\ Shape(c) /\ c.sub = b.sub /\ c.addons = b.addons
        /\ \A i \in DOMAIN b.invoices : c.invoices[i] = b.invoices[i]
        /\ \A i : Untouched(c, i) => Untouched(b, i)
    BY DEF Adds, Untouched
  <1>3. PlanBacked(c, day) /\ UnitsBacked(c) /\ PlansHaveBegun(c, day)
    BY <1>1, <1>2 DEF BooksInv, PlanBacked, UnitsBacked, PlansHaveBegun
  <1>4. RenewalRows(c) = RenewalRows(b) \union {k} /\ PlanRows(c) = PlanRows(b)
    BY <1>1, <1>2 DEF RenewalRows, PlanRows
  <1>5. BeginsWithPlan(c)
    BY <1>1, <1>2, <1>4 DEF BooksInv, BeginsWithPlan, RenewalRows
  <1>6. ASSUME OnePlan(c)
        PROVE  InOrder(c) /\ Follows(c)
    <2>1. InOrder(b) /\ Follows(b)
      BY <1>4, <1>6 DEF BooksInv, OnePlan
    <2>2. \A i \in RenewalRows(b) : b.invoices[i].start # b.sub.end + 1
      BY DEF RenewalsFrom, RenewalRows
    <2>3. InOrder(c)
      BY <1>1, <1>2, <1>4, <2>1, <2>2 DEF InOrder, RenewalRows
    <2>4. RenewalUnits(c) = RenewalUnits(b)
      BY <1>2 DEF RenewalUnits
    <2>5. ASSUME NEW i \in UpcomingRenewals(c), c.invoices[i].status \in Open, Untouched(c, i)
          PROVE  /\ c.invoices[i].units = RenewalUnits(c)
                 /\ c.invoices[i].amount =
                      RenewalAmount(c.invoices[i].terms, c.invoices[i].cycle, RenewalUnits(c))
      <3>1. CASE i = k
        BY <1>1, <2>4, <3>1
      <3>2. CASE i # k
        <4>1. i \in UpcomingRenewals(b) /\ i \in DOMAIN b.invoices
          BY <1>1, <1>2, <3>2 DEF UpcomingRenewals
        <4> QED
          BY <1>2, <2>1, <2>4, <2>5, <4>1 DEF Follows
      <3> QED
        BY <3>1, <3>2
    <2>6. Follows(c)
      BY <2>5 DEF Follows
    <2> QED
      BY <2>3, <2>6
  <1> QED
    BY <1>2, <1>3, <1>5, <1>6 DEF BooksInv

LEMMA PeriodIsLong ==
    ASSUME NEW start \in Int, NEW cycle
    PROVE  PeriodEnd(start, cycle) \in Int /\ start <= PeriodEnd(start, cycle)
  <1> DEFINE n == MonthsOf(cycle)
             length == n * DaysInMonth
  <1>1. n \in Nat \ {0} /\ DaysInMonth \in Nat \ {0}
    BY Calendar DEF MonthsOf
  <1> HIDE DEF n
  <1>2. length \in Nat \ {0}
    BY <1>1
  <1>3. PeriodEnd(start, cycle) = start + length - 1
    BY DEF PeriodEnd, n
  <1> HIDE DEF length
  <1> QED
    BY <1>2, <1>3

LEMMA FirstOfRows ==
    ASSUME NEW S, S \subseteq Nat, S # {}
    PROVE  Min(S) \in S
  <1> DEFINE R == {ss \in Nat \X Nat : ss[1] < ss[2]}
  <1>0. IsWellFoundedOn(R, Nat)
    <2>1. R = OpToRel(<, Nat)
      BY Zenon DEF OpToRel
    <2> QED
      BY <2>1, NatLessThanWellFounded, Zenon
  <1>1. PICK x \in S : \A y \in S : <<y, x>> \notin R
    <2> HIDE DEF R
    <2> QED
      BY <1>0, WFMin
  <1>2. \A y \in S : x <= y
    <2>1. \A m, n \in Nat : m < n => <<m, n>> \in R
      OBVIOUS
    <2> HIDE DEF R
    <2> TAKE y \in S
    <2>2. x \in Nat /\ y \in Nat /\ <<y, x>> \notin R
      BY <1>1
    <2>3. ~(y < x)
      BY <2>1, <2>2
    <2> QED
      BY <2>2, <2>3
  <1> QED
    BY <1>2 DEF Min

LEMMA ChangeDropped ==
    ASSUME NEW b, Shape(b), NEW change, NEW day
    PROVE  LET c == [b EXCEPT !.sub.scheduled = change] IN
           /\ Quiet(b, c, day)
           /\ c.invoices = b.invoices /\ c.sub.end = b.sub.end /\ c.sub.status = b.sub.status
  <1> SUFFICES ASSUME NEW c, c = [b EXCEPT !.sub.scheduled = change]
               PROVE  /\ Quiet(b, c, day)
                      /\ c.invoices = b.invoices /\ c.sub.end = b.sub.end
                      /\ c.sub.status = b.sub.status
    OBVIOUS
  <1>1. /\ c.sub = [b.sub EXCEPT !.scheduled = change] /\ c.addons = b.addons
        /\ c.invoices = b.invoices /\ c.payments = b.payments
        /\ c = [operator |-> c.operator, sub |-> c.sub, addons |-> c.addons,
                invoices |-> c.invoices, payments |-> c.payments]
    BY DEF Shape
  <1>2. SamePlan(b.sub, c.sub) /\ DOMAIN c.sub = DOMAIN b.sub
    BY <1>1 DEF Shape, SamePlan
  <1>3. Shape(c)
    BY <1>1, <1>2 DEF Shape, SamePlan
  <1>4. \A i : Untouched(c, i) => Untouched(b, i)
    BY <1>1 DEF Untouched
  <1> QED
    BY <1>1, <1>2, <1>3, <1>4 DEF Quiet, SamePlan, SameTerms

LEMMA RenewalInvoiceFits ==
    ASSUME NEW b, Shape(b), b.sub.end = sub.end
    PROVE  LET inv == RenewalInvoice(b) IN
           /\ Row(inv) /\ inv.kind = "renewal" /\ inv.status = "issued"
           /\ inv.start = b.sub.end + 1 /\ inv.start <= inv.end
           /\ inv.units = RenewalUnits(b)
           /\ inv.amount = RenewalAmount(inv.terms, inv.cycle, RenewalUnits(b))
  <1> DEFINE start == sub.end + 1
             units == RenewalUnits(b)
             end == PeriodEnd(start, Renewing.cycle)
             amount == RenewalAmount(Renewing.terms, Renewing.cycle, units)
  <1>1. start \in Int /\ end \in Int /\ start <= end
    <2>1. start \in Int
      BY DEF Shape
    <2> HIDE DEF start
    <2> QED
      BY <2>1, PeriodIsLong
  <1>2. RenewalInvoice(b) = [NewInvoice("renewal", start, end, start, amount)
                             EXCEPT !.terms = Renewing.terms, !.cycle = Renewing.cycle,
                                    !.units = units]
    BY DEF RenewalInvoice
  <1>3. start = b.sub.end + 1
    OBVIOUS
  <1> DEFINE inv == RenewalInvoice(b)
  <1> HIDE DEF start, end, units, amount
  <1>4. /\ DOMAIN inv = {"kind", "start", "end", "due", "amount", "status", "terms", "cycle", "units"}
        /\ inv.kind = "renewal" /\ inv.status = "issued" /\ inv.start = start /\ inv.end = end
        /\ inv.units = units /\ inv.amount = amount
        /\ inv.terms = Renewing.terms /\ inv.cycle = Renewing.cycle
    BY <1>2 DEF NewInvoice
  <1> HIDE DEF inv
  <1>5. Row(inv)
    BY <1>1, <1>4 DEF Row, InvoiceKinds, Open
  <1>6. /\ Row(inv) /\ inv.kind = "renewal" /\ inv.status = "issued"
        /\ inv.start = b.sub.end + 1 /\ inv.start <= inv.end
        /\ inv.units = units /\ inv.amount = RenewalAmount(inv.terms, inv.cycle, units)
    BY <1>1, <1>3, <1>4, <1>5 DEF amount
  <1> QED
    BY <1>6 DEF inv, units

LEMMA RenewedBooks ==
    ASSUME NEW b, today \in Int, BooksInv(b, today), b.sub = sub, Paid
    PROVE  BooksInv(Renewed(b), today)
  <1> DEFINE start == sub.end + 1
             paid == {i \in RenewalsFrom(b, start) : b.invoices[i].status = "paid"}
             kept == [b EXCEPT !.sub.scheduled = IF Fits(@.terms, TRUE) THEN @ ELSE NoChange]
             asked == IF sub.scheduled = NoChange THEN b ELSE kept
  <1>2. Shape(b)
    BY DEF BooksInv
  <1>1. \/ Renewed(b) = b
        \/ paid # {} /\ start <= today /\ Renewed(b) = Activated(b, b.invoices[Min(paid)])
        \/ Renewed(b) = asked
        \/ RenewalsFrom(b, start) = {} /\ Renewed(b) = Issued(asked, RenewalInvoice(asked))
    BY DEF Renewed
  <1>3. /\ BooksInv(asked, today)
        /\ asked.invoices = b.invoices /\ asked.sub.end = b.sub.end
        /\ asked.sub.status = b.sub.status
    <2>1. CASE asked = b
      BY <2>1
    <2>2. CASE asked # b
      <3>1. PICK change : asked = [b EXCEPT !.sub.scheduled = change]
        BY <2>2
      <3> HIDE DEF asked
      <3>2. /\ Quiet(b, asked, today)
            /\ asked.invoices = b.invoices /\ asked.sub.end = b.sub.end
            /\ asked.sub.status = b.sub.status
        BY <1>2, <3>1, ChangeDropped
      <3> QED
        BY <3>2, QuietStep
    <2> QED
      BY <2>1, <2>2
  <1> HIDE DEF asked
  <1>4. ASSUME paid # {}, start <= today
        PROVE  BooksInv(Activated(b, b.invoices[Min(paid)]), today)
    <2>1. paid \subseteq DOMAIN b.invoices
      BY DEF RenewalsFrom
    <2>2. DOMAIN b.invoices \subseteq Nat
      BY <1>2, Appended DEF Shape
    <2> DEFINE j == Min(paid)
    <2>3. j \in paid
      <3> HIDE DEF paid
      <3> QED
        BY <1>4, <2>1, <2>2, FirstOfRows
    <2>4. /\ j \in DOMAIN b.invoices /\ b.invoices[j].status = "paid"
          /\ b.invoices[j].kind = "renewal" /\ b.invoices[j].start = b.sub.end + 1
      BY <2>3 DEF RenewalsFrom
    <2> DEFINE inv == b.invoices[j]
    <2> SUFFICES BooksInv(Activated(b, inv), today)
      OBVIOUS
    <2> HIDE DEF j
    <2>5. SameTerms(b.invoices[j], inv) /\ inv.units = b.invoices[j].units
      BY DEF SameTerms
    <2>6. inv.kind = "renewal" /\ inv.start <= today /\ inv.start \in Int
      BY <1>2, <1>4, <2>4 DEF Shape
    <2> HIDE DEF inv
    <2>7. Activated(b, inv) = AddonsRenewed(PlanActivated(b, inv), inv)
      BY <2>6 DEF Activated
    <2>8. b.invoices[j].start <= today
      BY <2>5, <2>6 DEF SameTerms
    <2> QED
      BY <2>4, <2>5, <2>7, <2>8, RenewalActivates
  <1>5. ASSUME RenewalsFrom(b, start) = {}
        PROVE  BooksInv(Issued(asked, RenewalInvoice(asked)), today)
    <2> DEFINE inv == RenewalInvoice(asked)
    <2>1. Shape(asked) /\ asked.sub.end = sub.end
      BY <1>3 DEF BooksInv
    <2>2. /\ Row(inv) /\ inv.kind = "renewal" /\ inv.status = "issued"
          /\ inv.start = asked.sub.end + 1 /\ inv.start <= inv.end
          /\ inv.units = RenewalUnits(asked)
          /\ inv.amount = RenewalAmount(inv.terms, inv.cycle, RenewalUnits(asked))
      BY <2>1, RenewalInvoiceFits
    <2> HIDE DEF inv
    <2>3. RenewalsFrom(asked, asked.sub.end + 1) = {} /\ asked.sub.status = "active"
      BY <1>3, <1>5 DEF RenewalsFrom, Paid
    <2>4. BooksInv(Issued(asked, inv), today)
      BY <1>3, <2>2, <2>3, RenewalIssued
    <2> QED
      BY <2>4 DEF inv
  <1> HIDE DEF paid, start
  <1> QED
    BY <1>1, <1>3, <1>4, <1>5
-----------------------------------------------------------------------------
(* The books become what a handler has made of them. *)

LEMMA BooksBecome ==
    ASSUME NEW b, Shape(b), Become(b)
    PROVE  Books' = b
  BY DEF Shape, Become, Books

LEMMA BooksKept ==
    ASSUME UNCHANGED account, BooksInv(Books, today), today' = today
    PROVE  BooksInv(Books, today)'
  <1>1. Books' = Books
    BY DEF account, Books
  <1> QED
    BY <1>1

LEMMA BooksDone ==
    ASSUME NEW b, BooksInv(b, today), Become(b), today' = today
    PROVE  BooksInv(Books, today)'
  <1>1. Books' = b
    BY BooksBecome DEF BooksInv
  <1> QED
    BY <1>1

LEMMA RunJobsKeeps ==
    ASSUME today \in Int, BooksInv(Books, today), RunJobs
    PROVE  BooksInv(Books, today)'
  <1> DEFINE billed == IF Paid THEN UsageBilled(Books) ELSE Books
             renewed == IF Paid THEN Renewed(billed) ELSE billed
  <1>1. BooksInv(billed, today) /\ billed.sub = sub
    <2>1. Shape(Books) /\ Books.sub = sub
      BY DEF BooksInv, Books
    <2>2. CASE Paid
      <3>1. Quiet(Books, UsageBilled(Books), today) /\ UsageBilled(Books).sub = Books.sub
        BY <2>1, UsageBilledQuietly
      <3>2. BooksInv(UsageBilled(Books), today)
        BY <3>1, QuietStep
      <3> QED
        BY <2>1, <2>2, <3>1, <3>2
    <2>3. CASE ~Paid
      BY <2>1, <2>3
    <2> QED
      BY <2>2, <2>3
  <1> HIDE DEF billed
  <1>2. BooksInv(renewed, today)
    <2>1. CASE Paid
      BY <1>1, <2>1, RenewedBooks
    <2>2. CASE ~Paid
      BY <1>1, <2>2
    <2> QED
      BY <2>1, <2>2
  <1>3. Become(BecomeOverdue(renewed)) /\ today' = today
    BY DEF RunJobs, billed
  <1> HIDE DEF renewed
  <1>4. BooksInv(BecomeOverdue(renewed), today)
    <2>1. Quiet(renewed, BecomeOverdue(renewed), today)
      BY <1>2, OverdueQuietly DEF BooksInv
    <2> QED
      BY <1>2, <2>1, QuietStep
  <1> QED
    BY <1>3, <1>4, BooksDone

LEMMA DayPasses ==
    ASSUME today \in Int, BooksInv(Books, today), AdvanceDay
    PROVE  BooksInv(Books, today)'
  <1>1. Books' = Books /\ today' = today + 1
    BY DEF AdvanceDay, account, Books
  <1> DEFINE b == Books
  <1>2. BooksInv(b, today) /\ Shape(b)
    BY DEF BooksInv
  <1> HIDE DEF b
  <1>3. \A i \in DOMAIN b.invoices : Row(b.invoices[i])
    BY <1>2 DEF Shape
  <1>4. PlanBacked(b, today + 1)
    BY <1>2 DEF BooksInv, PlanBacked, Shape
  <1>5. PlansHaveBegun(b, today + 1)
    BY <1>2, <1>3 DEF BooksInv, PlansHaveBegun, Row
  <1>6. BooksInv(b, today + 1)
    BY <1>2, <1>4, <1>5 DEF BooksInv
  <1> QED
    BY <1>1, <1>6 DEF b

LEMMA StatusOnly ==
    ASSUME NEW status, BooksInv(Books, today), operator' = status,
           UNCHANGED billing, today' = today
    PROVE  BooksInv(Books, today)'
  <1> DEFINE b == Books
             c == [b EXCEPT !.operator = status]
  <1>1. Books' = c
    BY DEF Books, billing
  <1>2. BooksInv(b, today) /\ Shape(b)
    BY DEF BooksInv
  <1> HIDE DEF b
  <1>3. /\ c.sub = b.sub /\ c.addons = b.addons
        /\ c.invoices = b.invoices /\ c.payments = b.payments
        /\ c = [operator |-> c.operator, sub |-> c.sub, addons |-> c.addons,
                invoices |-> c.invoices, payments |-> c.payments]
    BY <1>2 DEF Shape
  <1> HIDE DEF c
  <1>4. Shape(c)
    BY <1>2, <1>3 DEF Shape
  <1>5. Quiet(b, c, today)
    BY <1>3, <1>4 DEF Quiet, SamePlan, SameTerms, Untouched
  <1>6. BooksInv(c, today)
    BY <1>2, <1>5, QuietStep
  <1> QED
    BY <1>1, <1>6
-----------------------------------------------------------------------------
(* Plans *)

LEMMA SchedulePlanKeeps ==
    ASSUME NEW terms, NEW cycle, BooksInv(Books, today), SchedulePlan(terms, cycle)
    PROVE  BooksInv(Books, today)'
  <1> DEFINE change == [terms |-> terms, cycle |-> cycle]
             b == Books
             c == [b EXCEPT !.sub.scheduled = change]
  <1>1. Books' = c /\ today' = today
    BY DEF SchedulePlan, Books, world
  <1>2. BooksInv(b, today) /\ Shape(b)
    BY DEF BooksInv
  <1> HIDE DEF b, change
  <1>3. Quiet(b, c, today)
    BY <1>2, ChangeDropped
  <1>4. BooksInv(c, today)
    BY <1>2, <1>3, QuietStep
  <1> HIDE DEF c
  <1> QED
    BY <1>1, <1>4

LEMMA PlanInvoiceFits ==
    ASSUME today \in Int, BooksInv(Books, today), NEW terms, NEW cycle
    PROVE  LET inv == PlanInvoice(terms, cycle) IN
           /\ Row(inv) /\ inv.kind \in {"plan", "upgrade"} /\ inv.status = "issued"
           /\ inv.start <= today
           /\ Row([inv EXCEPT !.status = "paid"])
           /\ [inv EXCEPT !.status = "paid"].status = "paid"
           /\ SameTerms([inv EXCEPT !.status = "paid"], inv)
  <1>1. PICK kind, start, end, amount :
           /\ PlanInvoice(terms, cycle) = [NewInvoice(kind, start, end, today, amount)
                                           EXCEPT !.terms = terms, !.cycle = cycle]
           /\ \/ kind = "upgrade" /\ Paid /\ start = sub.start /\ end = sub.end
              \/ kind = "plan" /\ start = today /\ end = PeriodEnd(today, cycle)
    <2>1. CASE Paid /\ today <= sub.end
      BY <2>1 DEF PlanInvoice
    <2>2. CASE ~(Paid /\ today <= sub.end)
      BY <2>2 DEF PlanInvoice
    <2> QED
      BY <2>1, <2>2
  <1>2. start \in Int /\ end \in Int /\ start <= today
    <2>1. CASE kind = "upgrade"
      BY <1>1, <2>1 DEF BooksInv, Shape, PlanBacked, Books, Paid
    <2>2. CASE kind = "plan"
      BY <1>1, <2>2, PeriodIsLong
    <2> QED
      BY <1>1, <2>1, <2>2
  <1> DEFINE inv == PlanInvoice(terms, cycle)
  <1>3. /\ DOMAIN inv = {"kind", "start", "end", "due", "amount", "status", "terms", "cycle", "units"}
        /\ inv.kind = kind /\ inv.status = "issued" /\ inv.start = start /\ inv.end = end
    BY <1>1 DEF NewInvoice
  <1> HIDE DEF inv
  <1>4. Row(inv)
    BY <1>1, <1>2, <1>3 DEF Row, InvoiceKinds, Open
  <1> DEFINE bought == [inv EXCEPT !.status = "paid"]
  <1>5. Row(bought) /\ bought.status = "paid" /\ SameTerms(bought, inv)
    BY <1>4 DEF Row, SameTerms
  <1>6. /\ Row(inv) /\ inv.kind \in {"plan", "upgrade"} /\ inv.status = "issued"
        /\ inv.start <= today /\ Row(bought) /\ bought.status = "paid" /\ SameTerms(bought, inv)
    BY <1>1, <1>2, <1>3, <1>4, <1>5
  <1> HIDE DEF bought
  <1> QED
    BY <1>6 DEF inv, bought

\* A plan that costs nothing is on an invoice that counts as paid at once.
LEMMA FreePlanIssued ==
    ASSUME NEW b, NEW day, BooksInv(b, day), NEW inv, Row(inv),
           inv.kind \in {"plan", "upgrade"}, inv.status = "paid", inv.start <= day
    PROVE  LET c == Issued(b, inv) IN
           /\ BooksInv(c, day)
           /\ c.sub.status = "active" => ~OnePlan(c)
           /\ \E j \in DOMAIN c.invoices : c.invoices[j] = inv
  <1>0. Shape(b)
    BY DEF BooksInv
  <1> SUFFICES ASSUME NEW c, Adds(b, inv, c)
               PROVE  /\ BooksInv(c, day)
                      /\ c.sub.status = "active" => ~OnePlan(c)
                      /\ \E j \in DOMAIN c.invoices : c.invoices[j] = inv
    BY <1>0, IssuedRow
  <1>1. PICK k : /\ k \notin DOMAIN b.invoices /\ c.invoices[k] = inv
                 /\ DOMAIN c.invoices = DOMAIN b.invoices \union {k}
    BY DEF Adds
  <1>2. /\ Shape(c) /\ c.sub = b.sub /\ c.addons = b.addons
        /\ \A i \in DOMAIN b.invoices : c.invoices[i] = b.invoices[i]
        /\ \A i : Untouched(c, i) => Untouched(b, i)
    BY DEF Adds, Untouched
  <1>3. PlanBacked(c, day) /\ UnitsBacked(c) /\ PlansHaveBegun(c, day)
    BY <1>1, <1>2 DEF BooksInv, PlanBacked, UnitsBacked, PlansHaveBegun
  <1>4. RenewalRows(c) = RenewalRows(b) /\ PlanRows(c) = PlanRows(b) \union {k}
    BY <1>1, <1>2 DEF RenewalRows, PlanRows
  <1>5. BeginsWithPlan(c)
    BY <1>1, <1>2, <1>4 DEF BooksInv, BeginsWithPlan, RenewalRows
  <1>6. c.sub.status = "active" => ~OnePlan(c)
    <2>1. k \notin PlanRows(b)
      BY <1>1 DEF PlanRows
    <2> QED
      BY <1>2, <1>4, <2>1 DEF BooksInv, BeginsWithPlan, OnePlan
  <1>7. ASSUME OnePlan(c)
        PROVE  InOrder(c) /\ Follows(c)
    <2>1. RenewalRows(c) = {}
      BY <1>2, <1>4, <1>6, <1>7 DEF BooksInv, BeginsWithPlan
    <2>2. UpcomingRenewals(c) = {}
      BY <2>1 DEF UpcomingRenewals, RenewalRows
    <2> QED
      BY <2>1, <2>2 DEF InOrder, Follows
  <1> QED
    BY <1>1, <1>2, <1>3, <1>5, <1>6, <1>7 DEF BooksInv

LEMMA InvoicePlanKeeps ==
    ASSUME NEW terms, NEW cycle, NEW custom, today \in Int, BooksInv(Books, today),
           InvoicePlan(terms, cycle, custom)
    PROVE  BooksInv(Books, today)'
  <1> DEFINE b == Books
             inv == PlanInvoice(terms, cycle)
             bought == [inv EXCEPT !.status = "paid"]
             free == Issued(b, bought)
  <1>1. /\ \/ Become(Activated(free, inv))
           \/ Become(Issued(b, inv))
        /\ today' = today
    BY DEF InvoicePlan, world
  <1>2. /\ Row(inv) /\ inv.kind \in {"plan", "upgrade"} /\ inv.status = "issued"
        /\ inv.start <= today
        /\ Row(bought) /\ bought.status = "paid" /\ SameTerms(bought, inv)
    BY PlanInvoiceFits
  <1>3. BooksInv(b, today) /\ Shape(b)
    BY DEF BooksInv
  <1> HIDE DEF b, inv, bought
  <1>4. BooksInv(Issued(b, inv), today)
    <2>1. Quiet(b, Issued(b, inv), today)
      BY <1>2, <1>3, IssuedQuietly
    <2> QED
      BY <1>3, <2>1, QuietStep
  <1>5. BooksInv(Activated(free, inv), today)
    <2>1. /\ BooksInv(free, today)
          /\ free.sub.status = "active" => ~OnePlan(free)
          /\ \E j \in DOMAIN free.invoices : free.invoices[j] = bought
      <3>1. bought.kind \in {"plan", "upgrade"} /\ bought.start <= today
        BY <1>2 DEF SameTerms
      <3> QED
        BY <1>2, <1>3, <3>1, FreePlanIssued
    <2> HIDE DEF free
    <2>2. PICK j \in DOMAIN free.invoices : free.invoices[j] = bought
      BY <2>1
    <2>3. /\ free.invoices[j].status = "paid" /\ SameTerms(free.invoices[j], inv)
          /\ free.invoices[j].kind \in {"plan", "upgrade"}
      BY <1>2, <2>2 DEF SameTerms
    <2>4. Activated(free, inv) = PlanActivated(free, inv)
      BY <1>2 DEF Activated
    <2> QED
      BY <2>1, <2>3, <2>4, PlanActivates
  <1> HIDE DEF free
  <1> QED
    BY <1>1, <1>4, <1>5, BooksDone
-----------------------------------------------------------------------------
(* Add-ons, payments, cancellations *)

LEMMA RequestAddonKeeps ==
    ASSUME NEW m, NEW quantity, BooksInv(Books, today), RequestAddon(m, quantity)
    PROVE  BooksInv(Books, today)'
  <1> DEFINE b == Books
             old == IF InForce(addons[m]) THEN addons[m].quantity ELSE 0
             inv == AddonInvoice(m, quantity, old)
  <1>1. Become(Issued(b, inv)) /\ today' = today
    BY DEF RequestAddon, world
  <1>2. Row(inv) /\ inv.kind = "addon" /\ inv.status = "issued"
    BY DEF AddonInvoice, NewInvoice, Row, InvoiceKinds, Open
  <1>3. BooksInv(b, today) /\ Shape(b)
    BY DEF BooksInv
  <1> HIDE DEF b, inv
  <1>4. Quiet(b, Issued(b, inv), today)
    BY <1>2, <1>3, IssuedQuietly
  <1>5. BooksInv(Issued(b, inv), today)
    BY <1>3, <1>4, QuietStep
  <1> QED
    BY <1>1, <1>5, BooksDone

LEMMA ManualInvoiceKeeps ==
    ASSUME NEW amount, BooksInv(Books, today), ManualInvoice(amount)
    PROVE  BooksInv(Books, today)'
  <1> DEFINE b == Books
             inv == NewInvoice("manual", today, today, today, amount)
  <1>1. Become(Issued(b, inv)) /\ today' = today
    BY DEF ManualInvoice, world
  <1>2. Row(inv) /\ inv.kind = "manual" /\ inv.status = "issued"
    BY DEF NewInvoice, Row, InvoiceKinds, Open
  <1>3. BooksInv(b, today) /\ Shape(b)
    BY DEF BooksInv
  <1> HIDE DEF b, inv
  <1>4. Quiet(b, Issued(b, inv), today)
    BY <1>2, <1>3, IssuedQuietly
  <1>5. BooksInv(Issued(b, inv), today)
    BY <1>3, <1>4, QuietStep
  <1> QED
    BY <1>1, <1>5, BooksDone

\* What renews of an add-on is chosen while no renewal is paid on: each is repriced.
LEMMA ScheduleAddonRenewalKeeps ==
    ASSUME NEW m \in Modules, NEW units, BooksInv(Books, today), ScheduleAddonRenewal(m, units)
    PROVE  BooksInv(Books, today)'
  <1> DEFINE b == Books
             keep == IF units = addons[m].quantity THEN AsBefore ELSE units
             renewals == UpcomingRenewals(b)
  <1>1. /\ Become(Repriced([b EXCEPT !.addons[m].renews = keep], renewals))
        /\ \A i \in renewals : invoices[i].status \in Open /\ Untouched(b, i)
        /\ b.invoices = invoices
        /\ today' = today
    BY DEF ScheduleAddonRenewal, world, Books
  <1>2. BooksInv(b, today) /\ Shape(b)
    BY DEF BooksInv
  <1> HIDE DEF b, keep
  <1> SUFFICES ASSUME NEW c, c = [b EXCEPT !.addons[m].renews = keep],
                      Become(Repriced(c, renewals))
               PROVE  BooksInv(Books, today)'
    BY <1>1
  <1>3. /\ c.sub = b.sub /\ c.invoices = b.invoices /\ c.payments = b.payments
        /\ c.addons = [b.addons EXCEPT ![m] = [b.addons[m] EXCEPT !.renews = keep]]
        /\ c = [operator |-> c.operator, sub |-> c.sub, addons |-> c.addons,
                invoices |-> c.invoices, payments |-> c.payments]
    BY <1>2 DEF Shape
  <1>4. ASSUME NEW n \in Modules
        PROVE  /\ DOMAIN c.addons[n] = {"active", "quantity", "through", "renews"}
               /\ c.addons[n].active => b.addons[n].active
               /\ c.addons[n].quantity = b.addons[n].quantity
               /\ c.addons[n].through = b.addons[n].through
    <2>1. DOMAIN b.addons[n] = {"active", "quantity", "through", "renews"} /\ DOMAIN b.addons = Modules
      BY <1>2 DEF Shape
    <2>2. CASE n = m
      <3>1. c.addons[n] = [b.addons[n] EXCEPT !.renews = keep]
        BY <1>3, <2>1, <2>2
      <3> QED
        BY <2>1, <3>1
    <2>3. CASE n # m
      <3>1. c.addons[n] = b.addons[n]
        BY <1>3, <2>1, <2>3
      <3> QED
        BY <2>1, <3>1
    <2> QED
      BY <2>2, <2>3
  <1>5. Shape(c)
    BY <1>2, <1>3, <1>4 DEF Shape
  <1>6. PlanBacked(c, today) /\ PlansHaveBegun(c, today) /\ BeginsWithPlan(c)
    BY <1>2, <1>3 DEF BooksInv, PlanBacked, PlansHaveBegun, BeginsWithPlan, RenewalRows, PlanRows
  <1>7. UnitsBacked(c)
    BY <1>2, <1>3, <1>4 DEF BooksInv, UnitsBacked
  <1>8. OnePlan(c) => InOrder(c)
    BY <1>2, <1>3 DEF BooksInv, OnePlan, PlanRows, InOrder, RenewalRows
  <1>9. UpcomingRenewals(c) = renewals /\ \A i \in renewals : c.invoices[i].status \in Open
    BY <1>1, <1>3 DEF UpcomingRenewals
  <1> HIDE DEF renewals
  <1>10. BooksInv(Repriced(c, renewals), today)
    BY <1>5, <1>6, <1>7, <1>8, <1>9, RepricedFollow
  <1> QED
    BY <1>1, <1>10, BooksDone

LEMMA PaymentKeeps ==
    ASSUME NEW i \in DOMAIN invoices, NEW amount, NEW key, NEW report,
           today \in Int, BooksInv(Books, today), invoices[i].status \in Open,
           Become(PaymentRecorded(invoices[i], i, amount, key, report)), today' = today
    PROVE  BooksInv(Books, today)'
  <1> DEFINE b == Books
             payment == [invoice |-> i, amount |-> amount, key |-> key, report |-> report]
             a == WithPayment(b, payment)
             c == WithStatus(a, i, "paid")
  <1>0. b.invoices = invoices
    BY DEF Books
  <1>1. \/ Become(Activated(c, b.invoices[i]))
        \/ Become(a)
    BY <1>0 DEF PaymentRecorded, WithPayment, WithStatus
  <1>2. BooksInv(b, today) /\ Shape(b) /\ i \in DOMAIN b.invoices /\ b.invoices[i].status \in Open
    BY <1>0 DEF BooksInv
  <1> HIDE DEF b, payment
  <1>3. BooksInv(a, today)
    <2>1. /\ Shape(a) /\ a.sub = b.sub /\ a.addons = b.addons /\ a.invoices = b.invoices
          /\ \A j : Untouched(a, j) => Untouched(b, j)
      BY <1>2, PaymentAdded
    <2> HIDE DEF a
    <2>2. Quiet(b, a, today)
      BY <2>1 DEF Quiet, SamePlan, SameTerms
    <2> QED
      BY <1>2, <2>2, QuietStep
  <1>4. BooksInv(Activated(c, b.invoices[i]), today)
    <2>1. Settled(b, c, i)
      BY <1>2, PaymentSettles
    <2> HIDE DEF c
    <2> QED
      BY <1>2, <2>1, PaidInvoiceActivates
  <1> HIDE DEF a, c
  <1> QED
    BY <1>1, <1>3, <1>4, BooksDone

LEMMA CancelInvoiceKeeps ==
    ASSUME NEW i \in DOMAIN invoices, BooksInv(Books, today), CancelInvoice(i)
    PROVE  BooksInv(Books, today)'
  <1> DEFINE b == Books
             c == WithStatus(b, i, "void")
  <1>1. /\ Books' = c /\ today' = today /\ b.invoices[i].status \in Open
        /\ i \in DOMAIN b.invoices
    BY DEF CancelInvoice, MayCancel, Books, world, WithStatus
  <1>2. BooksInv(b, today) /\ Shape(b)
    BY DEF BooksInv
  <1> HIDE DEF b
  <1>3. /\ Shape(c)
        /\ c.sub = b.sub /\ c.addons = b.addons
        /\ DOMAIN c.invoices = DOMAIN b.invoices
        /\ \A j \in DOMAIN b.invoices \ {i} : c.invoices[j] = b.invoices[j]
        /\ SameTerms(b.invoices[i], c.invoices[i]) /\ c.invoices[i].status = "void"
        /\ c.invoices[i].units = b.invoices[i].units
        /\ c.invoices[i].amount = b.invoices[i].amount
        /\ \A j : Untouched(c, j) <=> Untouched(b, j)
    BY <1>1, <1>2, StatusSet
  <1> HIDE DEF c
  <1>4. Quiet(b, c, today)
    BY <1>1, <1>3 DEF Quiet, SamePlan, SameTerms, Open
  <1>5. BooksInv(c, today)
    BY <1>2, <1>4, QuietStep
  <1> QED
    BY <1>1, <1>5
-----------------------------------------------------------------------------
(* No handler forgets an invoice *)

Keeps(b, c) == DOMAIN b.invoices \subseteq DOMAIN c.invoices

LEMMA ActivatedKeeps ==
    ASSUME NEW b, NEW inv
    PROVE  Keeps(b, Activated(b, inv))
  <1>1. Keeps(b, PlanActivated(b, inv))
    BY DEF Keeps, PlanActivated
  <1>2. Keeps(b, AddonsRenewed(PlanActivated(b, inv), inv))
    BY DEF Keeps, PlanActivated, AddonsRenewed
  <1>3. Keeps(b, AddonActivated(b, inv))
    BY DEF Keeps, AddonActivated, Repriced
  <1>4. Keeps(b, b)
    BY DEF Keeps
  <1>5. CASE inv.kind \in {"usage", "manual"}
    BY <1>4, <1>5 DEF Activated
  <1>6. CASE inv.kind = "addon"
    BY <1>3, <1>6 DEF Activated
  <1>7. CASE inv.kind = "renewal"
    BY <1>2, <1>4, <1>7 DEF Activated
  <1>8. CASE inv.kind \notin {"usage", "manual", "addon", "renewal"}
    BY <1>1, <1>8 DEF Activated
  <1> QED
    BY <1>5, <1>6, <1>7, <1>8

LEMMA IssuedKeeps ==
    ASSUME NEW b, Shape(b), NEW inv
    PROVE  Keeps(b, Issued(b, inv))
  <1>1. Issued(b, inv).invoices = Append(b.invoices, inv)
    BY DEF Issued, Shape
  <1>2. DOMAIN b.invoices \subseteq DOMAIN Append(b.invoices, inv)
    BY Appended DEF Shape
  <1> QED
    BY <1>1, <1>2 DEF Keeps

LEMMA PaymentRecordedKeeps ==
    ASSUME NEW inv, NEW i, NEW amount, NEW key, NEW report
    PROVE  Keeps(Books, PaymentRecorded(inv, i, amount, key, report))
  <1> DEFINE paid == [Books EXCEPT !.payments = Append(@, [invoice |-> i, amount |-> amount,
                                                           key |-> key, report |-> report])]
             settled == [paid EXCEPT !.invoices[i].status = "paid"]
  <1>1. Keeps(Books, paid) /\ Keeps(Books, settled)
    BY DEF Keeps, Books
  <1>2. \/ PaymentRecorded(inv, i, amount, key, report) = paid
        \/ PaymentRecorded(inv, i, amount, key, report) = Activated(settled, inv)
    BY DEF PaymentRecorded
  <1> HIDE DEF paid, settled
  <1>3. Keeps(settled, Activated(settled, inv))
    BY ActivatedKeeps
  <1> QED
    BY <1>1, <1>2, <1>3 DEF Keeps

LEMMA RenewedKeeps ==
    ASSUME NEW b, Shape(b)
    PROVE  Keeps(b, Renewed(b))
  <1> DEFINE start == sub.end + 1
             paid == {i \in RenewalsFrom(b, start) : b.invoices[i].status = "paid"}
             kept == [b EXCEPT !.sub.scheduled = IF Fits(@.terms, TRUE) THEN @ ELSE NoChange]
             asked == IF sub.scheduled = NoChange THEN b ELSE kept
  <1>1. \/ Renewed(b) = b
        \/ Renewed(b) = Activated(b, b.invoices[Min(paid)])
        \/ Renewed(b) = asked
        \/ Renewed(b) = Issued(asked, RenewalInvoice(asked))
    BY DEF Renewed
  <1>2. Shape(asked) /\ asked.invoices = b.invoices
    <2>1. CASE asked = b
      BY <2>1
    <2>2. CASE asked # b
      <3>1. PICK change : asked = [b EXCEPT !.sub.scheduled = change]
        BY <2>2
      <3> HIDE DEF asked
      <3> QED
        BY <3>1, ChangeDropped DEF Quiet
    <2> QED
      BY <2>1, <2>2
  <1> HIDE DEF asked, paid
  <1>3. Keeps(b, Activated(b, b.invoices[Min(paid)]))
    BY ActivatedKeeps
  <1>4. Keeps(asked, Issued(asked, RenewalInvoice(asked)))
    BY <1>2, IssuedKeeps
  <1> QED
    BY <1>1, <1>2, <1>3, <1>4 DEF Keeps

LEMMA BooksGrow ==
    ASSUME NEW b, Keeps(Books, b), Become(b)
    PROVE  DOMAIN invoices \subseteq DOMAIN invoices'
  BY DEF Keeps, Become, Books

LEMMA RunJobsGrows ==
    ASSUME BooksInv(Books, today), RunJobs
    PROVE  DOMAIN invoices \subseteq DOMAIN invoices'
  <1> DEFINE billed == IF Paid THEN UsageBilled(Books) ELSE Books
             renewed == IF Paid THEN Renewed(billed) ELSE billed
  <1>1. Shape(billed) /\ Keeps(Books, billed)
    <2>1. Shape(Books)
      BY DEF BooksInv
    <2>2. Quiet(Books, UsageBilled(Books), today)
      BY <2>1, UsageBilledQuietly
    <2> QED
      BY <2>1, <2>2 DEF Quiet, Keeps
  <1>2. Become(BecomeOverdue(renewed))
    BY DEF RunJobs
  <1> HIDE DEF billed
  <1>3. Keeps(Books, renewed)
    BY <1>1, RenewedKeeps DEF Keeps
  <1> HIDE DEF renewed
  <1>4. Keeps(renewed, BecomeOverdue(renewed))
    BY DEF Keeps, BecomeOverdue
  <1> QED
    BY <1>2, <1>3, <1>4, BooksGrow DEF Keeps
-----------------------------------------------------------------------------
(* The invariant holds *)

LEMMA IInvInit == Init => IInv
  <1> SUFFICES ASSUME Init, "overlap" \notin desk
               PROVE  /\ today \in Int /\ BooksInv(Books, today)
                      /\ \A p \in Procs : tasks[p] = Idle
                      /\ IsSeq(reports)
                      /\ \A k \in DOMAIN reports : OnInvoices(reports[k], DOMAIN invoices)
    BY DEF IInv
  <1>1. today \in Int /\ \A p \in Procs : tasks[p] = Idle
    BY DEF Init
  <1>2. IsSeq(reports) /\ \A k \in DOMAIN reports : OnInvoices(reports[k], DOMAIN invoices)
    BY DEF Init, IsSeq
  <1> DEFINE b == Books
  <1>3. /\ b = [operator |-> b.operator, sub |-> b.sub, addons |-> b.addons,
                invoices |-> b.invoices, payments |-> b.payments]
        /\ b.operator = operator /\ b.sub = sub /\ b.addons = addons
        /\ b.invoices = invoices /\ b.payments = payments
    BY DEF Books
  <1> HIDE DEF b
  <1>4. /\ DOMAIN addons = Modules
        /\ \A m \in Modules : /\ DOMAIN addons[m] = {"active", "quantity", "through", "renews"}
                              /\ ~addons[m].active
    BY DEF Init, NoAddon
  <1>5. UnitsBacked(b)
    BY <1>3, <1>4 DEF UnitsBacked
  <1>6. PICK c \in Cases :
          IF c.terms = NoTerms
          THEN /\ sub = [status |-> "trial", start |-> NoDay, end |-> NoDay,
                         terms |-> NoTerms, cycle |-> "monthly", scheduled |-> NoChange]
               /\ invoices = <<>> /\ payments = <<>>
          ELSE /\ sub = [status |-> "active", start |-> 0, end |-> PeriodEnd(0, c.cycle),
                         terms |-> c.terms, cycle |-> c.cycle, scheduled |-> NoChange]
               /\ invoices = <<FirstPlan(c)>>
               /\ payments = <<[invoice |-> 1, amount |-> FirstPlan(c).amount, key |-> 1,
                                report |-> 0]>>
    BY DEF Init
  <1>7. CASE c.terms = NoTerms
    <2>1. /\ sub = [status |-> "trial", start |-> NoDay, end |-> NoDay,
                    terms |-> NoTerms, cycle |-> "monthly", scheduled |-> NoChange]
          /\ invoices = <<>> /\ payments = <<>>
      BY <1>6, <1>7
    <2>2. DOMAIN invoices = {}
      BY <2>1
    <2>3. IsSeq(invoices) /\ IsSeq(payments)
      BY <2>1 DEF IsSeq
    <2>4. sub.start \in Int /\ sub.end \in Int /\ sub.status # "active"
      BY <2>1 DEF NoDay
    <2>5. DOMAIN sub = {"status", "start", "end", "terms", "cycle", "scheduled"}
      BY <2>1
    <2>6. Shape(b)
      BY <1>3, <1>4, <2>2, <2>3, <2>4, <2>5 DEF Shape
    <2>7. PlanBacked(b, today) /\ PlansHaveBegun(b, today)
      BY <1>3, <2>2, <2>4 DEF PlanBacked, PlansHaveBegun
    <2>8. RenewalRows(b) = {} /\ UpcomingRenewals(b) = {}
      BY <1>3, <2>2 DEF RenewalRows, UpcomingRenewals
    <2>9. BeginsWithPlan(b) /\ InOrder(b) /\ Follows(b)
      BY <1>3, <2>4, <2>8 DEF BeginsWithPlan, InOrder, Follows
    <2> QED
      BY <1>1, <1>2, <1>5, <2>6, <2>7, <2>9 DEF BooksInv, b
  <1>8. CASE c.terms # NoTerms
    <2> DEFINE inv == FirstPlan(c)
               last == PeriodEnd(0, c.cycle)
               payment == [invoice |-> 1, amount |-> inv.amount, key |-> 1, report |-> 0]
    <2>1. /\ sub = [status |-> "active", start |-> 0, end |-> last,
                    terms |-> c.terms, cycle |-> c.cycle, scheduled |-> NoChange]
          /\ invoices = <<inv>> /\ payments = <<payment>>
      BY <1>6, <1>8
    <2>2. last \in Int /\ 0 <= last
      BY PeriodIsLong
    <2>3. /\ DOMAIN inv = {"kind", "start", "end", "due", "amount", "status", "terms", "cycle",
                           "units"}
          /\ inv.kind = "plan" /\ inv.status = "paid" /\ inv.start = 0 /\ inv.end = last
          /\ inv.terms = c.terms /\ inv.cycle = c.cycle
      BY DEF FirstPlan, NewInvoice
    <2> HIDE DEF inv, last, payment
    <2>4. Row(inv)
      BY <2>2, <2>3 DEF Row, InvoiceKinds
    <2>5. DOMAIN invoices = {1} /\ invoices[1] = inv
      BY <2>1
    <2>6. IsSeq(invoices) /\ IsSeq(payments)
      <3>1. invoices \in Seq({inv}) /\ payments \in Seq({payment})
        BY <2>1
      <3> QED
        BY <3>1 DEF IsSeq
    <2>7. /\ DOMAIN sub = {"status", "start", "end", "terms", "cycle", "scheduled"}
          /\ sub.status = "active" /\ sub.start = 0 /\ sub.end = last
          /\ sub.terms = c.terms /\ sub.cycle = c.cycle
      BY <2>1
    <2>8. Shape(b)
      BY <1>3, <1>4, <2>2, <2>4, <2>5, <2>6, <2>7 DEF Shape
    <2>9. today = 0
      BY DEF Init
    <2>10. PlanBacked(b, today) /\ PlansHaveBegun(b, today)
      BY <1>3, <2>3, <2>5, <2>7, <2>9 DEF PlanBacked, PlansHaveBegun
    <2>11. RenewalRows(b) = {} /\ UpcomingRenewals(b) = {} /\ 1 \in PlanRows(b)
      BY <1>3, <2>3, <2>5 DEF RenewalRows, UpcomingRenewals, PlanRows
    <2>12. BeginsWithPlan(b) /\ InOrder(b) /\ Follows(b)
      BY <2>11 DEF BeginsWithPlan, InOrder, Follows
    <2> QED
      BY <1>1, <1>2, <1>5, <2>8, <2>10, <2>12 DEF BooksInv, b
  <1> QED
    BY <1>7, <1>8

\* What IInv says of an operator whose requests do not overlap.
Sound ==
    /\ today \in Int
    /\ BooksInv(Books, today)
    /\ \A p \in Procs : tasks[p] = Idle
    /\ IsSeq(reports) /\ \A k \in DOMAIN reports : OnInvoices(reports[k], DOMAIN invoices)

\* The reports that are kept, of which a handler sets the status of at most one.
LEMMA SoundStep ==
    ASSUME Sound, BooksInv(Books, today)', today' \in Int, tasks' = tasks,
           DOMAIN invoices \subseteq DOMAIN invoices',
           \/ reports' = reports
           \/ \E k, status : reports' = [reports EXCEPT ![k].status = status]
           \/ \E i, amount, status :
                 /\ i \in DOMAIN invoices
                 /\ reports' = Append(reports, [invoice |-> i, amount |-> amount, status |-> status])
    PROVE  Sound'
  <1>1. /\ IsSeq(reports')
        /\ \A k \in DOMAIN reports' : OnInvoices(reports'[k], DOMAIN invoices')
    <2>0. IsSeq(reports) /\ \A k \in DOMAIN reports : OnInvoices(reports[k], DOMAIN invoices)
      BY DEF Sound
    <2>1. CASE reports' = reports
      BY <2>0, <2>1 DEF OnInvoices
    <2>2. CASE \E k, status : reports' = [reports EXCEPT ![k].status = status]
      <3>1. PICK k, status : reports' = [reports EXCEPT ![k].status = status]
        BY <2>2
      <3>2. reports' = [j \in DOMAIN reports |-> reports'[j]]
        BY <3>1
      <3>3. IsSeq(reports')
        BY <2>0, <3>2, Mapped
      <3>4. ASSUME NEW j \in DOMAIN reports'
            PROVE  OnInvoices(reports'[j], DOMAIN invoices')
        <4>1. j \in DOMAIN reports /\ OnInvoices(reports[j], DOMAIN invoices)
          BY <2>0, <3>2
        <4>2. reports'[j] = reports[j] \/ reports'[j] = [reports[j] EXCEPT !.status = status]
          BY <3>1, <4>1
        <4> QED
          BY <4>1, <4>2 DEF OnInvoices
      <3> QED
        BY <3>3, <3>4
    <2>3. CASE \E i, amount, status :
                 /\ i \in DOMAIN invoices
                 /\ reports' = Append(reports, [invoice |-> i, amount |-> amount, status |-> status])
      <3>1. PICK i, amount, status :
                 /\ i \in DOMAIN invoices
                 /\ reports' = Append(reports, [invoice |-> i, amount |-> amount, status |-> status])
        BY <2>3
      <3> DEFINE report == [invoice |-> i, amount |-> amount, status |-> status]
      <3>2. OnInvoices(report, DOMAIN invoices) /\ reports' = Append(reports, report)
        BY <3>1 DEF OnInvoices
      <3> HIDE DEF report
      <3>3. /\ IsSeq(reports') /\ DOMAIN reports' = DOMAIN reports \union {Len(reports) + 1}
            /\ \A j \in DOMAIN reports : reports'[j] = reports[j]
            /\ reports'[Len(reports) + 1] = report
        BY <2>0, <3>2, Appended
      <3> QED
        BY <2>0, <3>2, <3>3 DEF OnInvoices
    <2> QED
      BY <2>1, <2>2, <2>3
  <1>2. \A p \in Procs : tasks'[p] = Idle
    BY DEF Sound
  <1> QED
    BY <1>1, <1>2 DEF Sound, Idle

\* A step that leaves the reports and the requests alone.
LEMMA BooksStep ==
    ASSUME Sound, BooksInv(Books, today)', today' \in Int,
           DOMAIN invoices \subseteq DOMAIN invoices', UNCHANGED <<reports, tasks>>
    PROVE  Sound'
  BY SoundStep

LEMMA RequestsKeep ==
    ASSUME Sound,
           \/ \E terms \in Plans, cycle \in Cycles : RequestPlan(terms, cycle)
           \/ \E terms \in Contracts, cycle \in Cycles : RequestContract(terms, cycle)
           \/ \E m \in Modules, quantity \in 1..MaxUnits : RequestAddon(m, quantity)
           \/ \E m \in Modules, units \in 0..MaxUnits \union {AsBefore} :
                 ScheduleAddonRenewal(m, units)
           \/ \E amount \in Parts : ManualInvoice(amount)
    PROVE  Sound'
  <1>0. today \in Int /\ BooksInv(Books, today) /\ Shape(Books)
    BY DEF Sound, BooksInv
  <1>1. ASSUME NEW terms, NEW cycle, SchedulePlan(terms, cycle)
        PROVE  Sound'
    <2>1. BooksInv(Books, today)'
      BY <1>0, <1>1, SchedulePlanKeeps
    <2> QED
      BY <1>0, <1>1, <2>1, BooksStep DEF SchedulePlan, world
  <1>2. ASSUME NEW terms, NEW cycle, NEW custom, InvoicePlan(terms, cycle, custom)
        PROVE  Sound'
    <2>1. BooksInv(Books, today)'
      BY <1>0, <1>2, InvoicePlanKeeps
    <2> DEFINE inv == PlanInvoice(terms, cycle)
               paid == [inv EXCEPT !.status = "paid"]
               free == Issued(Books, paid)
    <2>2. /\ Become(Activated(free, inv)) \/ Become(Issued(Books, inv))
          /\ today' = today /\ UNCHANGED <<reports, tasks>>
      BY <1>2 DEF InvoicePlan, world
    <2> HIDE DEF inv, paid
    <2>3. Keeps(Books, free) /\ Keeps(Books, Issued(Books, inv))
      BY <1>0, IssuedKeeps
    <2> HIDE DEF free
    <2>4. Keeps(Books, Activated(free, inv))
      BY <2>3, ActivatedKeeps DEF Keeps
    <2>5. DOMAIN invoices \subseteq DOMAIN invoices'
      BY <2>2, <2>3, <2>4, BooksGrow
    <2> QED
      BY <1>0, <2>1, <2>2, <2>5, BooksStep
  <1>3. ASSUME NEW m \in Modules, NEW quantity, RequestAddon(m, quantity)
        PROVE  Sound'
    <2>1. BooksInv(Books, today)'
      BY <1>0, <1>3, RequestAddonKeeps
    <2>2. PICK inv : Become(Issued(Books, inv))
      BY <1>3 DEF RequestAddon
    <2>3. DOMAIN invoices \subseteq DOMAIN invoices'
      BY <1>0, <2>2, IssuedKeeps, BooksGrow
    <2>4. today' = today /\ UNCHANGED <<reports, tasks>>
      BY <1>3 DEF RequestAddon, world
    <2> QED
      BY <1>0, <2>1, <2>3, <2>4, BooksStep
  <1>4. ASSUME NEW m \in Modules, NEW units, ScheduleAddonRenewal(m, units)
        PROVE  Sound'
    <2>1. BooksInv(Books, today)'
      BY <1>0, <1>4, ScheduleAddonRenewalKeeps
    <2>2. PICK keep, renewals : Become(Repriced([Books EXCEPT !.addons[m].renews = keep], renewals))
      BY <1>4 DEF ScheduleAddonRenewal
    <2>3. Keeps(Books, Repriced([Books EXCEPT !.addons[m].renews = keep], renewals))
      BY DEF Keeps, Repriced, Books
    <2>4. DOMAIN invoices \subseteq DOMAIN invoices'
      BY <2>2, <2>3, BooksGrow
    <2>5. today' = today /\ UNCHANGED <<reports, tasks>>
      BY <1>4 DEF ScheduleAddonRenewal, world
    <2> QED
      BY <1>0, <2>1, <2>4, <2>5, BooksStep
  <1>5. ASSUME NEW amount, ManualInvoice(amount)
        PROVE  Sound'
    <2>1. BooksInv(Books, today)'
      BY <1>0, <1>5, ManualInvoiceKeeps
    <2>2. PICK inv : Become(Issued(Books, inv))
      BY <1>5 DEF ManualInvoice
    <2>3. DOMAIN invoices \subseteq DOMAIN invoices'
      BY <1>0, <2>2, IssuedKeeps, BooksGrow
    <2>4. today' = today /\ UNCHANGED <<reports, tasks>>
      BY <1>5 DEF ManualInvoice, world
    <2> QED
      BY <1>0, <2>1, <2>3, <2>4, BooksStep
  <1>6. CASE \E terms \in Plans, cycle \in Cycles : RequestPlan(terms, cycle)
    BY <1>1, <1>2, <1>6 DEF RequestPlan
  <1>7. CASE \E terms \in Contracts, cycle \in Cycles : RequestContract(terms, cycle)
    BY <1>1, <1>2, <1>7 DEF RequestContract
  <1> QED
    BY <1>3, <1>4, <1>5, <1>6, <1>7

LEMMA InvoicesKeep ==
    ASSUME Sound, "overlap" \notin desk,
           \/ \E i \in DOMAIN invoices : OnInvoice(i)
           \/ \E k \in DOMAIN reports : AcceptReport(k) \/ RejectReport(k)
    PROVE  Sound'
  <1>0. today \in Int /\ BooksInv(Books, today)
    BY DEF Sound
  <1>1. ASSUME NEW i \in DOMAIN invoices, CancelInvoice(i)
        PROVE  Sound'
    <2>1. BooksInv(Books, today)'
      BY <1>0, <1>1, CancelInvoiceKeeps
    <2>2. /\ DOMAIN invoices' = DOMAIN invoices
          /\ today' = today /\ UNCHANGED <<reports, tasks>>
      BY <1>1 DEF CancelInvoice, world
    <2> QED
      BY <1>0, <2>1, <2>2, BooksStep
  <1>2. ASSUME NEW i \in DOMAIN invoices, NEW amount, ReportPayment(i, amount)
        PROVE  Sound'
    <2>1. UNCHANGED <<account, tasks>> /\ today' = today
      BY <1>2 DEF ReportPayment, world
    <2>2. BooksInv(Books, today)'
      BY <1>0, <2>1, BooksKept
    <2>3. reports' = Append(reports, [invoice |-> i, amount |-> amount, status |-> "pending"])
      BY <1>2 DEF ReportPayment
    <2>4. DOMAIN invoices \subseteq DOMAIN invoices'
      BY <2>1 DEF account
    <2> QED
      BY <1>0, <2>1, <2>2, <2>3, <2>4, SoundStep
  <1>3. ASSUME NEW i \in DOMAIN invoices, NEW amount, NEW key, ConfirmPayment(i, amount, key)
        PROVE  Sound'
    <2>1. /\ invoices[i].status \in Open
          /\ Become(PaymentRecorded(invoices[i], i, amount, key, 0))
          /\ today' = today /\ UNCHANGED <<reports, tasks>>
      BY <1>3 DEF ConfirmPayment, MayPay, world
    <2>2. BooksInv(Books, today)'
      BY <1>0, <2>1, PaymentKeeps
    <2>3. DOMAIN invoices \subseteq DOMAIN invoices'
      BY <2>1, PaymentRecordedKeeps, BooksGrow
    <2> QED
      BY <1>0, <2>1, <2>2, <2>3, BooksStep
  <1>4. ASSUME NEW k \in DOMAIN reports, AcceptReport(k)
        PROVE  Sound'
    <2> DEFINE i == reports[k].invoice
               amount == reports[k].amount
    <2>1. /\ invoices[i].status \in Open
          /\ Become(PaymentRecorded(invoices[i], i, amount, NoKey, k))
          /\ reports' = [reports EXCEPT ![k].status = "accepted"]
          /\ today' = today /\ UNCHANGED tasks
      BY <1>4 DEF AcceptReport, MayPay, world
    <2>2. i \in DOMAIN invoices
      BY DEF Sound, OnInvoices
    <2> HIDE DEF i, amount
    <2>3. BooksInv(Books, today)'
      BY <1>0, <2>1, <2>2, PaymentKeeps
    <2>4. DOMAIN invoices \subseteq DOMAIN invoices'
      BY <2>1, PaymentRecordedKeeps, BooksGrow
    <2> QED
      BY <1>0, <2>1, <2>3, <2>4, SoundStep
  <1>5. ASSUME NEW k \in DOMAIN reports, RejectReport(k)
        PROVE  Sound'
    <2>1. UNCHANGED <<account, tasks>> /\ today' = today
      BY <1>5 DEF RejectReport, world
    <2>2. BooksInv(Books, today)'
      BY <1>0, <2>1, BooksKept
    <2>3. reports' = [reports EXCEPT ![k].status = "rejected"]
      BY <1>5 DEF RejectReport
    <2>4. DOMAIN invoices \subseteq DOMAIN invoices'
      BY <2>1 DEF account
    <2> QED
      BY <1>0, <2>1, <2>2, <2>3, <2>4, SoundStep
  <1> QED
    BY <1>1, <1>2, <1>3, <1>4, <1>5 DEF OnInvoice

\* Without requests that overlap, none of their steps is taken.
LEMMA NoRequestOverlaps ==
    ASSUME Sound, "overlap" \notin desk, NEW p \in Procs
    PROVE  ~Request(p)
  <1>1. tasks[p] = Idle
    BY DEF Sound
  <1>2. tasks[p].op = "idle"
    BY <1>1 DEF Idle
  <1> QED
    BY <1>1, <1>2 DEF Request, CancelLoad, ConfirmLoad, ConfirmCommit, CancelCommit, Fail

LEMMA OperatorKeeps ==
    ASSUME Sound, Hold \/ ReleaseHold \/ Suspend \/ ActivateOperator
    PROVE  Sound'
  <1>0. today \in Int /\ BooksInv(Books, today)
    BY DEF Sound
  <1>1. /\ \E status : operator' = status
        /\ UNCHANGED billing /\ today' = today /\ UNCHANGED <<reports, tasks>>
    BY DEF Hold, ReleaseHold, Suspend, ActivateOperator, world
  <1>2. BooksInv(Books, today)'
    BY <1>0, <1>1, StatusOnly
  <1>3. DOMAIN invoices \subseteq DOMAIN invoices'
    BY <1>1 DEF billing
  <1> QED
    BY <1>0, <1>1, <1>2, <1>3, BooksStep

\* Steps that touch none of the books.
LEMMA OthersKeep ==
    ASSUME Sound, UNCHANGED <<today, account, reports, tasks>>
    PROVE  Sound'
  <1>0. today \in Int /\ BooksInv(Books, today)
    BY DEF Sound
  <1>1. BooksInv(Books, today)'
    BY <1>0, BooksKept
  <1>2. DOMAIN invoices \subseteq DOMAIN invoices'
    BY DEF account
  <1> QED
    BY <1>0, <1>1, <1>2, BooksStep

LEMMA IInvNext == IInv /\ [Next]_vars => IInv'
  <1> SUFFICES ASSUME IInv, [Next]_vars, "overlap" \notin desk'
               PROVE  Sound'
    BY DEF IInv, Sound
  <1>0. desk' = desk
    BY DEF Next, vars, world, RequestPlan, RequestContract, SchedulePlan, InvoicePlan, RequestAddon,
           ScheduleAddonRenewal, OnInvoice, CancelInvoice, ReportPayment, ConfirmPayment,
           AcceptReport, RejectReport, ManualInvoice, Request, CancelLoad, ConfirmLoad,
           ConfirmCommit, CancelCommit, Fail, Hold, ReleaseHold, Suspend, ActivateOperator,
           SeatsGrow, SeatsShrink, StorageGrows, StorageShrinks, RecordUsage, RunJobs, AdvanceDay
  <1>1. Sound /\ "overlap" \notin desk
    BY <1>0 DEF IInv, Sound
  <1>2. today \in Int /\ BooksInv(Books, today)
    BY <1>1 DEF Sound
  <1>3. CASE \/ \E terms \in Plans, cycle \in Cycles : RequestPlan(terms, cycle)
             \/ \E terms \in Contracts, cycle \in Cycles : RequestContract(terms, cycle)
             \/ \E m \in Modules, quantity \in 1..MaxUnits : RequestAddon(m, quantity)
             \/ \E m \in Modules, units \in 0..MaxUnits \union {AsBefore} :
                   ScheduleAddonRenewal(m, units)
             \/ \E amount \in Parts : ManualInvoice(amount)
    BY <1>1, <1>3, RequestsKeep
  <1>4. CASE \/ \E i \in DOMAIN invoices : OnInvoice(i)
             \/ \E k \in DOMAIN reports : AcceptReport(k) \/ RejectReport(k)
    BY <1>1, <1>4, InvoicesKeep
  <1>5. CASE \E p \in Procs : Request(p)
    BY <1>1, <1>5, NoRequestOverlaps
  <1>6. CASE Hold \/ ReleaseHold \/ Suspend \/ ActivateOperator
    BY <1>1, <1>6, OperatorKeeps
  <1>7. CASE SeatsGrow \/ SeatsShrink \/ StorageGrows \/ StorageShrinks \/ RecordUsage
    <2>1. UNCHANGED <<today, account, reports, tasks>>
      BY <1>7 DEF SeatsGrow, SeatsShrink, StorageGrows, StorageShrinks, RecordUsage
    <2> QED
      BY <1>1, <2>1, OthersKeep
  <1>8. CASE RunJobs
    <2>1. BooksInv(Books, today)'
      BY <1>2, <1>8, RunJobsKeeps
    <2>2. DOMAIN invoices \subseteq DOMAIN invoices'
      BY <1>2, <1>8, RunJobsGrows
    <2>3. today' = today /\ UNCHANGED <<reports, tasks>>
      BY <1>8 DEF RunJobs
    <2> QED
      BY <1>1, <1>2, <2>1, <2>2, <2>3, BooksStep
  <1>9. CASE AdvanceDay
    <2>1. BooksInv(Books, today)'
      BY <1>2, <1>9, DayPasses
    <2>2. /\ DOMAIN invoices \subseteq DOMAIN invoices'
          /\ today' = today + 1 /\ UNCHANGED <<reports, tasks>>
      BY <1>9 DEF AdvanceDay, account
    <2> QED
      BY <1>1, <1>2, <2>1, <2>2, BooksStep
  <1>10. CASE UNCHANGED vars
    <2>1. UNCHANGED <<today, account, reports, tasks>>
      BY <1>10 DEF vars, world
    <2> QED
      BY <1>1, <2>1, OthersKeep
  <1> QED
    BY <1>3, <1>4, <1>5, <1>6, <1>7, <1>8, <1>9, <1>10 DEF Next

LEMMA IInvAlways == Spec => []IInv
  BY IInvInit, IInvNext, PTL DEF Spec
-----------------------------------------------------------------------------
(* What it implies *)

LEMMA BackedIsPaidFor ==
    ASSUME IInv
    PROVE  WhatRunsIsPaidFor
  <1> SUFFICES ASSUME "overlap" \notin desk
               PROVE  PlanIsPaidFor /\ AddonUnitsPaidFor
    BY DEF WhatRunsIsPaidFor
  <1>1. PlanBacked(Books, today) /\ UnitsBacked(Books)
    BY DEF IInv, BooksInv
  <1>2. Books.sub = sub /\ Books.addons = addons /\ Books.invoices = invoices
    BY DEF Books
  <1>3. \A i \in DOMAIN invoices : invoices[i].status = "paid" => invoices[i] \in PaidFor
    BY DEF PaidFor, Range
  <1>4. PlanIsPaidFor
    BY <1>1, <1>2, <1>3 DEF PlanBacked, PlanIsPaidFor, Paid
  <1>5. AddonUnitsPaidFor
    BY <1>1, <1>2, <1>3 DEF UnitsBacked, AddonUnitsPaidFor, InForce
  <1> QED
    BY <1>4, <1>5

LEMMA FollowingRenewals ==
    ASSUME IInv
    PROVE  RenewalFollowsAddons
  <1> SUFFICES ASSUME KeepsItsPlan, NEW i \in UpcomingRenewals(Books),
                      invoices[i].status \in Open, Untouched(Books, i)
               PROVE  /\ invoices[i].units = RenewalUnits(Books)
                      /\ invoices[i].amount = RenewalAmount(invoices[i].terms, invoices[i].cycle,
                                                            RenewalUnits(Books))
    BY DEF RenewalFollowsAddons
  <1>1. Books.invoices = invoices
    BY DEF Books
  <1>2. OnePlan(Books)
    BY <1>1 DEF KeepsItsPlan, OnePlan, PlanRows
  <1>3. Follows(Books)
    BY <1>2 DEF KeepsItsPlan, IInv, BooksInv
  <1> QED
    BY <1>1, <1>3 DEF Follows

\* "Features activate only after full payment": whatever an operator works with is on a paid
\* invoice, in every state of operator_billing's handlers and of the daily job: its plan, for the
\* very period and terms, which has begun, and every unit of an add-on in force, to its last day.
THEOREM WhatRunsHasBeenPaid == Spec => []WhatRunsIsPaidFor
  BY IInvAlways, BackedIsPaidFor, PTL

\* "An unpaid renewal invoice is repriced immediately": a renewal that nobody has paid on asks
\* for exactly the units that are to renew, through purchases, reductions, cancellations,
\* payments and renewals that start, for an operator that changes its plan at renewals only.
THEOREM RenewalsAskForWhatRenews == Spec => []RenewalFollowsAddons
  BY IInvAlways, FollowingRenewals, PTL

(* Sums, for the amounts. *)

LEMMA Least ==
    ASSUME NEW S \in SUBSET Nat, S # {}
    PROVE  \E x \in S : \A y \in S : x <= y
  <1>1. PICK x \in S : \A y \in S : <<y, x>> \notin OpToRel(<, Nat)
    BY NatLessThanWellFounded, WFMin, Zenon
  <1>2. \A y \in S : ~(y < x)
    BY <1>1 DEF OpToRel
  <1> QED
    BY <1>2

(* Sums.  The element a fold takes next, and what is left. *)

Picked(S) == CHOOSE x \in S : TRUE
Rest(S) == S \ {Picked(S)}

\* Induction over finite sets, stated of a set of subsets.
LEMMA SetsByPicking ==
    ASSUME NEW S, IsFiniteSet(S), NEW F, {} \in F,
           \A T \in SUBSET S : T # {} /\ Rest(T) \in F => T \in F
    PROVE  \A T \in SUBSET S : T \in F
  <1> DEFINE Bad == {T \in SUBSET S : T \notin F}
             Counts == {Cardinality(T) : T \in Bad}
  <1>1. \A T \in SUBSET S : IsFiniteSet(T) /\ Cardinality(T) \in Nat
    BY FS_Subset, FS_CardinalityType
  <1>2. ASSUME Bad # {}
        PROVE  FALSE
    <2>1. Counts \in SUBSET Nat /\ Counts # {}
      BY <1>1, <1>2
    <2>2. PICK n \in Counts : \A m \in Counts : n <= m
      BY <2>1, Least
    <2>3. PICK T \in Bad : Cardinality(T) = n
      BY <2>2
    <2>4. T # {} /\ T \in SUBSET S
      BY <2>3
    <2>5. Picked(T) \in T
      BY <2>4 DEF Picked
    <2>6. Rest(T) \in SUBSET S /\ Cardinality(Rest(T)) = Cardinality(T) - 1
      BY <1>1, <2>4, <2>5, FS_RemoveElement DEF Rest
    <2>7. Cardinality(Rest(T)) \notin Counts
      BY <1>1, <2>1, <2>2, <2>3, <2>4, <2>6
    <2>8. Rest(T) \in F
      BY <2>6, <2>7
    <2> QED
      BY <2>3, <2>4, <2>8
  <1> QED
    BY <1>2

\* g is the fold of f over the subsets of S.
Fold(f, S, g) ==
    g = [s \in SUBSET S |-> IF s = {} THEN 0 ELSE f[Picked(s)] + g[Rest(s)]]

TheFold(f, S) == CHOOSE g : Fold(f, S, g)

LEMMA SumIsFold ==
    ASSUME NEW f, NEW S
    PROVE  SumFunctionOnSet(f, S) = TheFold(f, S)[S]
  BY Zenon DEF SumFunctionOnSet, FoldFunctionOnSet, MapThenFoldSet, TheFold, Fold, Picked, Rest


\* Folds over the subsets of at most n elements exist, of any n.
Small(S, n) == {T \in SUBSET S : Cardinality(T) <= n}
FoldTo(f, S, n, g) ==
    g = [s \in Small(S, n) |-> IF s = {} THEN 0 ELSE f[Picked(s)] + g[Rest(s)]]

LEMMA RestIsSmaller ==
    ASSUME NEW T, IsFiniteSet(T), T # {}
    PROVE  /\ Picked(T) \in T /\ IsFiniteSet(Rest(T)) /\ Rest(T) \subseteq T
           /\ Cardinality(T) \in Nat /\ Cardinality(Rest(T)) = Cardinality(T) - 1
  <1>1. Picked(T) \in T
    BY DEF Picked
  <1> QED
    BY <1>1, FS_RemoveElement, FS_CardinalityType, FS_Subset DEF Rest

LEMMA FoldExists ==
    ASSUME NEW f, NEW S, IsFiniteSet(S)
    PROVE  Fold(f, S, TheFold(f, S))
  <1> DEFINE Bad == {n \in Nat : ~\E g : FoldTo(f, S, n, g)}
  <1>0. \A T \in SUBSET S : IsFiniteSet(T) /\ Cardinality(T) \in Nat
    BY FS_Subset, FS_CardinalityType
  <1>1. FoldTo(f, S, 0, [s \in Small(S, 0) |-> 0])
    <2>1. \A s \in Small(S, 0) : s = {}
      BY <1>0, FS_EmptySet DEF Small
    <2> QED
      BY <2>1 DEF FoldTo
  <1>2. ASSUME NEW n \in Nat, NEW g, FoldTo(f, S, n, g)
        PROVE  \E h : FoldTo(f, S, n + 1, h)
    <2> DEFINE h == [s \in Small(S, n + 1) |-> IF s = {} THEN 0 ELSE f[Picked(s)] + g[Rest(s)]]
    <2>1. \A s \in Small(S, n) : s \in Small(S, n + 1)
      BY <1>0 DEF Small
    <2>2. \A s \in Small(S, n) : g[s] = IF s = {} THEN 0 ELSE f[Picked(s)] + g[Rest(s)]
      BY <1>2 DEF FoldTo
    <2>3. \A s \in Small(S, n) : h[s] = g[s]
      BY <2>1, <2>2
    <2>4. \A s \in Small(S, n + 1) : s # {} => Rest(s) \in Small(S, n)
      BY <1>0, RestIsSmaller DEF Small
    <2>5. \A s \in Small(S, n + 1) : h[s] = IF s = {} THEN 0 ELSE f[Picked(s)] + h[Rest(s)]
      BY <2>3, <2>4
    <2>6. h = [s \in Small(S, n + 1) |-> h[s]]
      OBVIOUS
    <2> HIDE DEF h
    <2> QED
      BY <2>5, <2>6 DEF FoldTo
  <1>3. Bad = {}
    <2> SUFFICES ASSUME Bad # {} PROVE FALSE
      OBVIOUS
    <2>1. PICK n \in Bad : \A m \in Bad : n <= m
      BY Least
    <2>2. n # 0
      BY <1>1
    <2>3. n - 1 \in Nat /\ n - 1 \notin Bad
      BY <2>1, <2>2
    <2>4. PICK g : FoldTo(f, S, n - 1, g)
      BY <2>3
    <2>5. \E h : FoldTo(f, S, (n - 1) + 1, h)
      BY <1>2, <2>3, <2>4
    <2>6. (n - 1) + 1 = n
      OBVIOUS
    <2> QED
      BY <2>5, <2>6
  <1>4. PICK g : FoldTo(f, S, Cardinality(S), g)
    BY <1>0, <1>3
  <1>5. Small(S, Cardinality(S)) = SUBSET S
    BY <1>0, FS_Subset DEF Small
  <1>6. Fold(f, S, g)
    BY <1>4, <1>5 DEF FoldTo, Fold
  <1> QED
    BY <1>6, Zenon DEF TheFold

LEMMA FoldUnique ==
    ASSUME NEW f, NEW S, IsFiniteSet(S), NEW g, Fold(f, S, g),
           NEW T \in SUBSET S, NEW h, Fold(f, T, h)
    PROVE  \A s \in SUBSET T : g[s] = h[s]
  <1> DEFINE F == {s \in SUBSET T : g[s] = h[s]}
  <1>1. \A s \in SUBSET S : g[s] = IF s = {} THEN 0 ELSE f[Picked(s)] + g[Rest(s)]
    BY DEF Fold
  <1>2. \A s \in SUBSET T : h[s] = IF s = {} THEN 0 ELSE f[Picked(s)] + h[Rest(s)]
    BY DEF Fold
  <1>3. {} \in F
    BY <1>1, <1>2
  <1>4. \A s \in SUBSET T : s # {} /\ Rest(s) \in F => s \in F
    BY <1>1, <1>2
  <1>5. IsFiniteSet(T)
    BY FS_Subset
  <1> HIDE DEF F
  <1>6. \A s \in SUBSET T : s \in F
    BY <1>3, <1>4, <1>5, SetsByPicking
  <1> QED
    BY <1>6 DEF F

LEMMA SumOfNone ==
    ASSUME NEW f
    PROVE  SumFunctionOnSet(f, {}) = 0
  <1>1. Fold(f, {}, TheFold(f, {}))
    BY FoldExists, FS_EmptySet
  <1> QED
    BY <1>1, SumIsFold DEF Fold

LEMMA SumByPicking ==
    ASSUME NEW f, NEW S, IsFiniteSet(S), S # {}
    PROVE  SumFunctionOnSet(f, S) = f[Picked(S)] + SumFunctionOnSet(f, Rest(S))
  <1> DEFINE g == TheFold(f, S)
             h == TheFold(f, Rest(S))
  <1>1. Rest(S) \in SUBSET S /\ IsFiniteSet(Rest(S))
    BY RestIsSmaller
  <1>2. Fold(f, S, g) /\ Fold(f, Rest(S), h)
    BY <1>1, FoldExists
  <1>3. SumFunctionOnSet(f, S) = g[S] /\ SumFunctionOnSet(f, Rest(S)) = h[Rest(S)]
    BY SumIsFold
  <1> HIDE DEF g, h
  <1>4. g[Rest(S)] = h[Rest(S)]
    BY <1>1, <1>2, FoldUnique
  <1>5. g[S] = f[Picked(S)] + g[Rest(S)]
    BY <1>2 DEF Fold
  <1> QED
    BY <1>3, <1>4, <1>5

LEMMA SumsAreNumbers ==
    ASSUME NEW f, NEW S, IsFiniteSet(S), \A x \in S : f[x] \in Int
    PROVE  /\ SumFunctionOnSet(f, S) \in Int
           /\ (\A x \in S : f[x] \in Nat) => SumFunctionOnSet(f, S) \in Nat
  <1> DEFINE F == {T \in SUBSET S : /\ SumFunctionOnSet(f, T) \in Int
                                    /\ (\A x \in T : f[x] \in Nat) => SumFunctionOnSet(f, T) \in Nat}
  <1>1. {} \in F
    BY SumOfNone
  <1>2. ASSUME NEW T \in SUBSET S, T # {}, Rest(T) \in F
        PROVE  T \in F
    <2> DEFINE rest == SumFunctionOnSet(f, Rest(T))
    <2>1. IsFiniteSet(T)
      BY FS_Subset
    <2>2. SumFunctionOnSet(f, T) = f[Picked(T)] + rest /\ Picked(T) \in T /\ Rest(T) \subseteq T
      BY <1>2, <2>1, SumByPicking, RestIsSmaller
    <2>3. rest \in Int /\ ((\A x \in T : f[x] \in Nat) => rest \in Nat)
      BY <1>2, <2>2
    <2> HIDE DEF rest
    <2> QED
      BY <2>2, <2>3
  <1> HIDE DEF F
  <1>3. S \in F
    BY <1>1, <1>2, SetsByPicking
  <1> QED
    BY <1>3 DEF F

LEMMA SumOfTheSame ==
    ASSUME NEW f, NEW g, NEW S, IsFiniteSet(S), \A x \in S : f[x] = g[x]
    PROVE  SumFunctionOnSet(f, S) = SumFunctionOnSet(g, S)
  <1> DEFINE F == {T \in SUBSET S : SumFunctionOnSet(f, T) = SumFunctionOnSet(g, T)}
  <1>1. {} \in F
    BY SumOfNone
  <1>2. ASSUME NEW T \in SUBSET S, T # {}, Rest(T) \in F
        PROVE  T \in F
    <2>1. IsFiniteSet(T)
      BY FS_Subset
    <2>2. /\ SumFunctionOnSet(f, T) = f[Picked(T)] + SumFunctionOnSet(f, Rest(T))
          /\ SumFunctionOnSet(g, T) = g[Picked(T)] + SumFunctionOnSet(g, Rest(T))
          /\ Picked(T) \in T
      BY <1>2, <2>1, SumByPicking, RestIsSmaller
    <2> QED
      BY <1>2, <2>2
  <1> HIDE DEF F
  <1>3. S \in F
    BY <1>1, <1>2, SetsByPicking
  <1> QED
    BY <1>3 DEF F

\* An element counts once, whichever is taken first.
Takes(f, T) == \A z \in T : SumFunctionOnSet(f, T) = f[z] + SumFunctionOnSet(f, T \ {z})

LEMMA SumWithout ==
    ASSUME NEW f, NEW S, IsFiniteSet(S), \A x \in S : f[x] \in Int, NEW y \in S
    PROVE  SumFunctionOnSet(f, S) = f[y] + SumFunctionOnSet(f, S \ {y})
  <1> DEFINE F == {T \in SUBSET S : \A V \in SUBSET S :
                      Cardinality(V) = Cardinality(T) => Takes(f, V)}
             Sum(T) == SumFunctionOnSet(f, T)
  <1>0. \A T \in SUBSET S : /\ IsFiniteSet(T) /\ Cardinality(T) \in Nat
                            /\ Cardinality(T) = 0 <=> T = {}
    BY FS_Subset, FS_CardinalityType, FS_EmptySet
  <1>1. {} \in F
    BY <1>0 DEF Takes
  <1>2. ASSUME NEW T \in SUBSET S, T # {}, Rest(T) \in F
        PROVE  T \in F
    <2> SUFFICES ASSUME NEW V \in SUBSET S, Cardinality(V) = Cardinality(T), NEW z \in V
                 PROVE  Sum(V) = f[z] + Sum(V \ {z})
      BY DEF Takes
    <2> DEFINE p == Picked(V)
               U == V \ {z}
               both == Rest(V) \ {z}
    <2>1. V # {} /\ IsFiniteSet(V)
      BY <1>0, <1>2
    <2>2. Sum(V) = f[p] + Sum(Rest(V)) /\ p \in V /\ Rest(V) = V \ {p}
      BY <2>1, SumByPicking, RestIsSmaller DEF Rest
    <2>3. Cardinality(Rest(V)) = Cardinality(Rest(T)) /\ Cardinality(U) = Cardinality(Rest(T))
      BY <1>0, <1>2, <2>1, RestIsSmaller, FS_RemoveElement
    <2>4. Takes(f, Rest(V)) /\ Takes(f, U)
      <3>1. Rest(V) \in SUBSET S /\ U \in SUBSET S
        BY <2>2
      <3> QED
        BY <1>2, <2>3, <3>1
    <2>5. CASE z = p
      BY <2>2, <2>5
    <2>6. CASE z # p
      <3>1. Sum(Rest(V)) = f[z] + Sum(both)
        BY <2>2, <2>4, <2>6 DEF Takes
      <3>2. p \in U /\ U \ {p} = both
        BY <2>2, <2>6
      <3>3. Sum(U) = f[p] + Sum(both)
        BY <2>4, <3>2 DEF Takes
      <3>4. Sum(both) \in Int
        <4>1. IsFiniteSet(both) /\ both \subseteq S
          BY <1>0, <2>2
        <4> QED
          BY <4>1, SumsAreNumbers
      <3>5. f[p] \in Int /\ f[z] \in Int
        BY <2>2
      <3> DEFINE n == Sum(both)
      <3> HIDE DEF n
      <3>6. Sum(V) = f[p] + (f[z] + n) /\ Sum(U) = f[p] + n
        BY <2>2, <3>1, <3>3 DEF n
      <3> QED
        BY <3>4, <3>5, <3>6 DEF n
    <2> QED
      BY <2>5, <2>6
  <1> HIDE DEF F
  <1>3. S \in F
    BY <1>1, <1>2, SetsByPicking
  <1> QED
    BY <1>3 DEF F, Takes

\* A sum one of whose terms changes.
LEMMA SumWithOneChanged ==
    ASSUME NEW f, NEW g, NEW S, IsFiniteSet(S), NEW y \in S,
           \A x \in S : f[x] \in Int /\ g[x] \in Int,
           \A x \in S \ {y} : g[x] = f[x]
    PROVE  /\ SumFunctionOnSet(f, S) \in Int
           /\ SumFunctionOnSet(g, S) = SumFunctionOnSet(f, S) - f[y] + g[y]
  <1> DEFINE others == SumFunctionOnSet(f, S \ {y})
  <1>1. IsFiniteSet(S \ {y})
    BY FS_Subset
  <1>2. others \in Int /\ others = SumFunctionOnSet(g, S \ {y})
    BY <1>1, SumsAreNumbers, SumOfTheSame
  <1>3. SumFunctionOnSet(f, S) = f[y] + others /\ SumFunctionOnSet(g, S) = g[y] + others
    BY <1>2, SumWithout
  <1>4. f[y] \in Int /\ g[y] \in Int
    OBVIOUS
  <1> HIDE DEF others
  <1> QED
    BY <1>2, <1>3, <1>4
-----------------------------------------------------------------------------
(* What is paid on an invoice *)

Payments(rows, i) == {k \in DOMAIN rows : rows[k].invoice = i}
PaymentAmounts(rows) == [k \in DOMAIN rows |-> rows[k].amount]

LEMMA PaidOnIsSum ==
    ASSUME NEW b, IsSeq(b.payments), NEW i
    PROVE  /\ IsFiniteSet(Payments(b.payments, i))
           /\ PaidOn(b, i) = SumFunctionOnSet(PaymentAmounts(b.payments), Payments(b.payments, i))
  <1> DEFINE paid == Payments(b.payments, i)
             f == [k \in paid |-> b.payments[k].amount]
             g == PaymentAmounts(b.payments)
  <1>1. IsFiniteSet(paid)
    <2>1. PICK S : b.payments \in Seq(S)
      BY DEF IsSeq
    <2>2. DOMAIN b.payments = 1..Len(b.payments) /\ Len(b.payments) \in Nat
      BY <2>1
    <2>3. IsFiniteSet(DOMAIN b.payments)
      BY <2>2, FS_Interval
    <2> QED
      BY <2>3, FS_Subset DEF Payments
  <1>2. PaidOn(b, i) = SumFunctionOnSet(f, paid)
    <2>1. DOMAIN f = paid
      OBVIOUS
    <2>2. PaidOn(b, i) = SumFunction(f)
      BY Zenon DEF PaidOn, Payments
    <2>3. SumFunction(f) = SumFunctionOnSet(f, DOMAIN f)
      BY Zenon DEF SumFunction
    <2> QED
      BY <2>1, <2>2, <2>3
  <1>3. \A k \in paid : f[k] = g[k]
    BY DEF Payments, PaymentAmounts
  <1> HIDE DEF paid, f, g
  <1>4. SumFunctionOnSet(f, paid) = SumFunctionOnSet(g, paid)
    BY <1>1, <1>3, SumOfTheSame
  <1> QED
    BY <1>1, <1>2, <1>4 DEF paid, g

LEMMA PaidOnIsANumber ==
    ASSUME NEW b, IsSeq(b.payments), \A k \in DOMAIN b.payments : b.payments[k].amount \in Int, NEW i
    PROVE  PaidOn(b, i) \in Int
  <1> DEFINE paid == Payments(b.payments, i)
             g == PaymentAmounts(b.payments)
  <1>1. IsFiniteSet(paid) /\ PaidOn(b, i) = SumFunctionOnSet(g, paid)
    BY PaidOnIsSum
  <1>2. \A k \in paid : g[k] \in Int
    BY DEF Payments, PaymentAmounts
  <1> HIDE DEF paid, g
  <1> QED
    BY <1>1, <1>2, SumsAreNumbers

LEMMA NothingPaidOn ==
    ASSUME NEW b, IsSeq(b.payments), NEW i, Untouched(b, i)
    PROVE  PaidOn(b, i) = 0
  <1>1. Payments(b.payments, i) = {}
    BY DEF Untouched, Payments
  <1> QED
    BY <1>1, PaidOnIsSum, SumOfNone

\* A payment counts for its own invoice.
LEMMA PaidWithPayment ==
    ASSUME NEW b, IsSeq(b.payments), \A k \in DOMAIN b.payments : b.payments[k].amount \in Int,
           NEW payment, payment.amount \in Int, NEW c, c.payments = Append(b.payments, payment)
    PROVE  /\ PaidOn(c, payment.invoice) = PaidOn(b, payment.invoice) + payment.amount
           /\ \A i : i # payment.invoice => PaidOn(c, i) = PaidOn(b, i)
  <1> DEFINE n == Len(b.payments) + 1
             f == PaymentAmounts(b.payments)
             g == PaymentAmounts(c.payments)
             old(i) == Payments(b.payments, i)
             new(i) == Payments(c.payments, i)
  <1>1. /\ IsSeq(c.payments)
        /\ DOMAIN c.payments = DOMAIN b.payments \union {n}
        /\ n \notin DOMAIN b.payments
        /\ \A k \in DOMAIN b.payments : c.payments[k] = b.payments[k]
        /\ c.payments[n] = payment
    BY Appended
  <1> HIDE DEF n
  <1>2. \A i : /\ IsFiniteSet(old(i)) /\ PaidOn(b, i) = SumFunctionOnSet(f, old(i))
               /\ IsFiniteSet(new(i)) /\ PaidOn(c, i) = SumFunctionOnSet(g, new(i))
    BY <1>1, PaidOnIsSum
  <1>3. \A i : i # payment.invoice => new(i) = old(i)
    BY <1>1 DEF Payments
  <1>4. LET i == payment.invoice IN new(i) = old(i) \union {n} /\ n \notin old(i)
    BY <1>1 DEF Payments
  <1>5. \A k \in DOMAIN b.payments : f[k] \in Int /\ g[k] = f[k]
    BY <1>1 DEF PaymentAmounts
  <1>6. g[n] = payment.amount
    BY <1>1 DEF PaymentAmounts
  <1>7. \A i : old(i) \subseteq DOMAIN b.payments
    BY DEF Payments
  <1> HIDE DEF f, g, old, new
  <1>8. \A i : SumFunctionOnSet(g, old(i)) = SumFunctionOnSet(f, old(i))
    BY <1>2, <1>5, <1>7, SumOfTheSame
  <1>9. \A i : i # payment.invoice => PaidOn(c, i) = PaidOn(b, i)
    BY <1>2, <1>3, <1>8
  <1>10. PaidOn(c, payment.invoice) = PaidOn(b, payment.invoice) + payment.amount
    <2> DEFINE i == payment.invoice
               S == new(i)
    <2>1. IsFiniteSet(S) /\ n \in S /\ S \ {n} = old(i)
      BY <1>2, <1>4
    <2>2. \A k \in S : g[k] \in Int
      BY <1>4, <1>5, <1>6, <1>7
    <2> HIDE DEF S, i
    <2>3. SumFunctionOnSet(g, S) = g[n] + SumFunctionOnSet(g, S \ {n})
      BY <2>1, <2>2, SumWithout
    <2>4. PaidOn(c, i) = g[n] + PaidOn(b, i)
      BY <1>2, <1>8, <2>1, <2>3 DEF S
    <2>5. PaidOn(b, i) \in Int
      BY PaidOnIsANumber
    <2>6. g[n] \in Int
      BY <1>6
    <2> HIDE DEF n
    <2> QED
      BY <1>6, <2>4, <2>5, <2>6 DEF i
  <1> QED
    BY <1>9, <1>10

LEMMA PaidOnSamePayments ==
    ASSUME NEW b, NEW c, c.payments = b.payments
    PROVE  \A i : PaidOn(c, i) = PaidOn(b, i)
  BY Zenon DEF PaidOn
-----------------------------------------------------------------------------
(* The shape of the books, with the values that the rows have. *)

TypedRow(inv) ==
    /\ Row(inv) /\ Invoice(inv) /\ inv.start <= inv.end
    /\ inv.kind \in {"plan", "upgrade", "renewal"} => inv.terms \in Terms

TypedSub(s) ==
    /\ s.status = "active" => /\ s.terms \in Terms /\ s.cycle \in Cycles
                              /\ s.start \in Nat /\ s.end \in Nat /\ s.start <= s.end
    /\ \/ s.scheduled = NoChange
       \/ s.scheduled.terms \in Terms /\ s.scheduled.cycle \in Cycles

TypedPayment(payment, ids) ==
    /\ payment.invoice \in ids /\ payment.amount \in Int
    /\ payment.key \in Nat /\ payment.report \in Nat

Typed(b) ==
    /\ Shape(b)
    /\ b.operator \in {"trial", "active", "hold", "suspended"}
    /\ TypedSub(b.sub)
    /\ \A m \in Modules : b.addons[m] \in Addon
    /\ \A i \in DOMAIN b.invoices : TypedRow(b.invoices[i])
    /\ \A k \in DOMAIN b.payments : TypedPayment(b.payments[k], DOMAIN b.invoices)

LEMMA PriceIsANumber ==
    ASSUME NEW terms \in Terms, NEW cycle
    PROVE  BasePrice(terms, cycle) \in Nat
  <1>1. terms.annual \in Nat /\ terms.monthly \in Nat
    BY DEF Terms
  <1> QED
    BY <1>1 DEF BasePrice

LEMMA MonthsAreCounted == \A cycle : MonthsOf(cycle) \in Nat \ {0}
  BY Calendar DEF MonthsOf

LEMMA RenewalAmountIsANumber ==
    ASSUME NEW terms \in Terms, NEW cycle, NEW units \in Units
    PROVE  RenewalAmount(terms, cycle, units) \in Nat
  <1> DEFINE prices == [m \in Modules |-> AddonPrices[m] * units[m] * MonthsOf(cycle)]
  <1>1. \A m \in Modules : prices[m] \in Nat
    <2> TAKE m \in Modules
    <2>1. AddonPrices[m] \in Nat /\ units[m] \in Nat /\ MonthsOf(cycle) \in Nat
      BY Amounts, Bounds, MonthsAreCounted DEF Units
    <2>2. AddonPrices[m] * units[m] \in Nat
      BY <2>1
    <2>3. AddonPrices[m] * units[m] * MonthsOf(cycle) \in Nat
      <3> DEFINE price == AddonPrices[m] * units[m]
      <3> HIDE DEF price
      <3>1. price * MonthsOf(cycle) \in Nat
        BY <2>1, <2>2 DEF price
      <3> QED
        BY <3>1 DEF price
    <2> QED
      BY <2>3
  <1>2. DOMAIN prices = Modules
    OBVIOUS
  <1>3. RenewalAmount(terms, cycle, units) = BasePrice(terms, cycle) + SumFunction(prices)
    BY DEF RenewalAmount
  <1> HIDE DEF prices
  <1>4. SumFunction(prices) \in Nat
    <2>1. SumFunction(prices) = SumFunctionOnSet(prices, Modules)
      BY <1>2, Zenon DEF SumFunction
    <2>2. IsFiniteSet(Modules)
      BY Amounts
    <2>3. \A m \in Modules : prices[m] \in Int
      BY <1>1
    <2> QED
      BY <1>1, <2>1, <2>2, <2>3, SumsAreNumbers
  <1> QED
    BY <1>3, <1>4, PriceIsANumber

LEMMA RoundedIsANumber ==
    ASSUME NEW n \in Nat, NEW d \in Nat \ {0}
    PROVE  Rounded(n, d) \in Nat
  BY DEF Rounded

LEMMA RenewalUnitsTyped ==
    ASSUME NEW b, \A m \in Modules : b.addons[m] \in Addon
    PROVE  RenewalUnits(b) \in Units
  <1>1. \A m \in Modules : RenewingUnits(b.addons[m]) \in 0..MaxUnits
    <2> TAKE m \in Modules
    <2>1. b.addons[m] \in Addon
      OBVIOUS
    <2> QED
      BY <2>1, Bounds DEF RenewingUnits, Addon, AsBefore
  <1> QED
    BY <1>1 DEF RenewalUnits, Units
-----------------------------------------------------------------------------
(* Steps that confirm no payment: what an invoice asks for changes only while nobody has paid *)
(* anything on it, and none becomes paid but one that asks for nothing. *)

Carries(b, c) ==
    /\ Typed(c) /\ c.payments = b.payments
    /\ DOMAIN b.invoices \subseteq DOMAIN c.invoices
    /\ \A i \in DOMAIN b.invoices :
          /\ c.invoices[i].kind = b.invoices[i].kind
          /\ c.invoices[i].status = "paid" => b.invoices[i].status = "paid"
          /\ \/ c.invoices[i].amount = b.invoices[i].amount
             \/ Untouched(b, i) /\ c.invoices[i].status # "paid"
    /\ \A i \in DOMAIN c.invoices \ DOMAIN b.invoices :
          c.invoices[i].status = "paid" => c.invoices[i].amount = 0

\* No invoice asks for anything else, and no add-on is asked for.
Firm(b, c) ==
    /\ DOMAIN b.invoices \subseteq DOMAIN c.invoices
    /\ \A i \in DOMAIN b.invoices : /\ c.invoices[i].kind = b.invoices[i].kind
                                    /\ c.invoices[i].amount = b.invoices[i].amount
    /\ \A i \in DOMAIN c.invoices \ DOMAIN b.invoices : c.invoices[i].kind # "addon"

LEMMA CarriesItself ==
    ASSUME NEW b, Typed(b)
    PROVE  Carries(b, b) /\ Firm(b, b)
  BY DEF Carries, Firm

LEMMA CarriesOn ==
    ASSUME NEW b, NEW c, NEW d, Carries(b, c), Carries(c, d)
    PROVE  Carries(b, d)
  <1>1. /\ Typed(d) /\ d.payments = b.payments
        /\ DOMAIN b.invoices \subseteq DOMAIN d.invoices
    BY DEF Carries
  <1>2. \A i : Untouched(c, i) => Untouched(b, i)
    BY DEF Carries, Untouched
  <1>3. ASSUME NEW i \in DOMAIN b.invoices
        PROVE  /\ d.invoices[i].kind = b.invoices[i].kind
               /\ d.invoices[i].status = "paid" => b.invoices[i].status = "paid"
               /\ \/ d.invoices[i].amount = b.invoices[i].amount
                  \/ Untouched(b, i) /\ d.invoices[i].status # "paid"
    BY <1>2 DEF Carries
  <1>4. ASSUME NEW i \in DOMAIN d.invoices \ DOMAIN b.invoices, d.invoices[i].status = "paid"
        PROVE  d.invoices[i].amount = 0
    BY <1>4 DEF Carries
  <1> QED
    BY <1>1, <1>3, <1>4 DEF Carries

LEMMA FirmOn ==
    ASSUME NEW b, NEW c, NEW d, Firm(b, c), Firm(c, d)
    PROVE  Firm(b, d)
  BY DEF Firm

\* Steps that change only what the operator works with.
LEMMA RowsCarried ==
    ASSUME NEW b, Typed(b), NEW c, Shape(c), c.invoices = b.invoices, c.payments = b.payments,
           c.operator \in {"trial", "active", "hold", "suspended"}, TypedSub(c.sub),
           \A m \in Modules : c.addons[m] \in Addon
    PROVE  Carries(b, c) /\ Firm(b, c)
  <1>1. Typed(c)
    BY DEF Typed
  <1> QED
    BY <1>1 DEF Carries, Firm

LEMMA RepricedCarries ==
    ASSUME NEW b, Typed(b), NEW renewals,
           \A i \in renewals \intersect DOMAIN b.invoices :
              /\ b.invoices[i].kind = "renewal" /\ b.invoices[i].status \in Open
              /\ Untouched(b, i)
    PROVE  Carries(b, Repriced(b, renewals))
  <1> DEFINE c == Repriced(b, renewals)
             units == RenewalUnits(b)
  <1>0. Shape(b)
    BY DEF Typed
  <1>1. Reprices(b, renewals, c) /\ c.operator = b.operator
    BY <1>0, RepricedRows DEF Repriced, Shape
  <1> HIDE DEF c
  <1>2. units \in Units
    BY RenewalUnitsTyped DEF Typed
  <1>3. /\ Shape(c) /\ c.sub = b.sub /\ c.addons = b.addons /\ c.payments = b.payments
        /\ DOMAIN c.invoices = DOMAIN b.invoices
    BY <1>1 DEF Reprices
  <1>4. ASSUME NEW i \in DOMAIN b.invoices
        PROVE  /\ TypedRow(c.invoices[i])
               /\ c.invoices[i].kind = b.invoices[i].kind
               /\ c.invoices[i].status = b.invoices[i].status
               /\ i \notin renewals => c.invoices[i].amount = b.invoices[i].amount
    <2>1. CASE i \notin renewals
      <3>1. c.invoices[i] = b.invoices[i]
        BY <1>1, <2>1 DEF Reprices
      <3> QED
        BY <2>1, <3>1 DEF Typed
    <2>2. CASE i \in renewals
      <3>1. /\ SameTerms(b.invoices[i], c.invoices[i])
            /\ c.invoices[i].status = b.invoices[i].status
            /\ c.invoices[i].units = units
            /\ c.invoices[i].amount = RenewalAmount(b.invoices[i].terms, b.invoices[i].cycle, units)
        BY <1>1, <2>2 DEF Reprices
      <3>2. TypedRow(b.invoices[i]) /\ b.invoices[i].kind = "renewal"
        BY <2>2 DEF Typed
      <3>3. b.invoices[i].terms \in Terms
        BY <3>2 DEF TypedRow
      <3> HIDE DEF units
      <3>4. c.invoices[i].amount \in Nat
        BY <1>2, <3>1, <3>3, RenewalAmountIsANumber
      <3>5. Row(c.invoices[i])
        BY <1>3 DEF Shape
      <3>6. c.invoices[i].due = b.invoices[i].due
        <4>1. c.invoices[i] = [b.invoices[i] EXCEPT
                 !.units = RenewalUnits(b),
                 !.amount = RenewalAmount(b.invoices[i].terms, b.invoices[i].cycle, RenewalUnits(b))]
          BY <1>0, <2>2 DEF c, Repriced, Shape
        <4>2. Row(b.invoices[i])
          BY <1>0 DEF Shape
        <4> QED
          BY <4>1, <4>2 DEF Row
      <3>7. Invoice(c.invoices[i])
        BY <1>2, <3>1, <3>2, <3>4, <3>6 DEF TypedRow, Invoice, SameTerms
      <3>8. TypedRow(c.invoices[i])
        BY <3>1, <3>2, <3>5, <3>7 DEF TypedRow, SameTerms
      <3> QED
        BY <2>2, <3>1, <3>8 DEF SameTerms
    <2> QED
      BY <2>1, <2>2
  <1>5. Typed(c)
    <2>1. \A i \in DOMAIN c.invoices : TypedRow(c.invoices[i])
      BY <1>3, <1>4
    <2> QED
      BY <1>1, <1>3, <2>1 DEF Typed
  <1>6. "paid" \notin Open
    BY DEF Open
  <1>7. Carries(b, c)
    BY <1>3, <1>4, <1>5, <1>6 DEF Carries
  <1> QED
    BY <1>7 DEF c

LEMMA PlanActivatedCarries ==
    ASSUME NEW b, Typed(b), NEW inv, TypedRow(inv), inv.kind \in {"plan", "upgrade", "renewal"},
           NEW c, c = PlanActivated(b, inv)
    PROVE  /\ Carries(b, c) /\ c.invoices = b.invoices
           /\ c.sub.status = "active" /\ c.sub.start = inv.start /\ c.sub.end = inv.end
  <1>1. inv.start \in Int /\ inv.end \in Int
    BY DEF TypedRow, Row
  <1>2. /\ Shape(c)
        /\ c.addons = b.addons /\ c.invoices = b.invoices /\ c.payments = b.payments
        /\ c.sub.status = "active" /\ c.sub.start = inv.start /\ c.sub.end = inv.end
        /\ c.sub.terms = inv.terms /\ c.sub.cycle = inv.cycle
    BY <1>1, PlanSet DEF Typed
  <1>3. c.sub.scheduled = NoChange /\ (c.operator = b.operator \/ c.operator = "active")
    BY DEF PlanActivated, Typed, Shape
  <1>4. TypedSub(c.sub)
    BY <1>2, <1>3 DEF TypedSub, TypedRow, Invoice
  <1>5. /\ c.operator \in {"trial", "active", "hold", "suspended"}
        /\ \A m \in Modules : c.addons[m] \in Addon
    BY <1>2, <1>3 DEF Typed
  <1> QED
    BY <1>2, <1>4, <1>5, RowsCarried

LEMMA AddonsRenewedCarries ==
    ASSUME NEW b, Typed(b), NEW inv, TypedRow(inv), NEW c, c = AddonsRenewed(b, inv)
    PROVE  Carries(b, c) /\ c.invoices = b.invoices /\ c.sub = b.sub
  <1>1. /\ Shape(c) /\ c.sub = b.sub /\ c.invoices = b.invoices /\ c.payments = b.payments
    BY RenewedUnits DEF Typed, RenewsUnits
  <1>2. c.operator = b.operator
    BY DEF AddonsRenewed, Typed, Shape
  <1>3. ASSUME NEW m \in Modules
        PROVE  c.addons[m] \in Addon
    <2> DEFINE addon == b.addons[m]
               carried == [addon EXCEPT !.through = inv.end, !.quantity = inv.units[m],
                                        !.renews = AsBefore]
               ended == [addon EXCEPT !.active = FALSE, !.renews = AsBefore]
    <2>1. c.addons[m] = carried \/ c.addons[m] = ended \/ c.addons[m] = addon
      BY DEF Typed, Shape, AddonsRenewed
    <2>2. addon \in Addon
      BY DEF Typed
    <2>3. inv.end \in Nat /\ inv.units[m] \in 0..MaxUnits
      BY DEF TypedRow, Invoice, Units
    <2> HIDE DEF addon
    <2> QED
      BY <2>1, <2>2, <2>3 DEF Addon
  <1> QED
    BY <1>1, <1>2, <1>3, RowsCarried DEF Typed

\* The rows are the same, but for what an open one asks for.
RowsSame(b, c) ==
    /\ DOMAIN c.invoices = DOMAIN b.invoices
    /\ \A i \in DOMAIN b.invoices : /\ SameTerms(b.invoices[i], c.invoices[i])
                                    /\ c.invoices[i].status = b.invoices[i].status

LEMMA RepricedSame ==
    ASSUME NEW b, Shape(b), NEW renewals
    PROVE  /\ RowsSame(b, Repriced(b, renewals))
           /\ Repriced(b, renewals).sub = b.sub
  <1> DEFINE c == Repriced(b, renewals)
  <1>1. Reprices(b, renewals, c)
    BY RepricedRows
  <1> HIDE DEF c
  <1>2. RowsSame(b, c) /\ c.sub = b.sub
    BY <1>1 DEF Reprices, RowsSame, SameTerms
  <1> QED
    BY <1>2 DEF c

LEMMA AddonActivatedCarries ==
    ASSUME NEW b, Typed(b), NEW inv, TypedRow(inv)
    PROVE  /\ Carries(b, AddonActivated(b, inv))
           /\ RowsSame(b, AddonActivated(b, inv)) /\ AddonActivated(b, inv).sub = b.sub
  <1> DEFINE new(m) == IF inv.units[m] = 0 THEN b.addons[m]
                       ELSE [active |-> TRUE, quantity |-> inv.units[m], through |-> inv.end,
                             renews |-> AsBefore]
             Bought == [b EXCEPT !.addons = [m \in Modules |->
                          IF inv.units[m] = 0 THEN b.addons[m]
                          ELSE [active |-> TRUE, quantity |-> inv.units[m], through |-> inv.end,
                                renews |-> AsBefore]]]
             repriced(a) == {i \in UpcomingRenewals(a) : a.invoices[i].status \in Open /\ Untouched(a, i)}
  <1>1. AddonActivated(b, inv) = Repriced(Bought, repriced(Bought))
    BY DEF AddonActivated
  <1>0. PICK a : a = Bought
    OBVIOUS
  <1>2. /\ a.operator = b.operator /\ a.sub = b.sub /\ a.invoices = b.invoices
        /\ a.payments = b.payments
        /\ a.addons = [m \in Modules |-> new(m)]
        /\ a = [operator |-> a.operator, sub |-> a.sub, addons |-> a.addons,
                invoices |-> a.invoices, payments |-> a.payments]
    BY <1>0 DEF Typed, Shape
  <1>11. AddonActivated(b, inv) = Repriced(a, repriced(a))
    BY <1>0, <1>1, Zenon
  <1> HIDE DEF Bought
  <1>3. ASSUME NEW m \in Modules
        PROVE  new(m) \in Addon /\ DOMAIN new(m) = {"active", "quantity", "through", "renews"}
    <2>1. inv.end \in Nat /\ inv.units[m] \in 0..MaxUnits
      BY DEF TypedRow, Invoice, Units
    <2>2. b.addons[m] \in Addon /\ DOMAIN b.addons[m] = {"active", "quantity", "through", "renews"}
      BY DEF Typed, Shape
    <2> QED
      BY <2>1, <2>2 DEF Addon
  <1>4. DOMAIN a.addons = Modules /\ \A m \in Modules : a.addons[m] = new(m)
    BY <1>2
  <1> HIDE DEF new
  <1>5. Shape(a)
    BY <1>2, <1>3, <1>4 DEF Typed, Shape
  <1>6. Carries(b, a) /\ Typed(a)
    BY <1>2, <1>3, <1>4, <1>5, RowsCarried DEF Typed, Carries
  <1>7. \A i \in repriced(a) : /\ a.invoices[i].kind = "renewal" /\ a.invoices[i].status \in Open
                               /\ Untouched(a, i)
    BY DEF UpcomingRenewals
  <1> HIDE DEF repriced
  <1>8. Carries(a, Repriced(a, repriced(a)))
    BY <1>6, <1>7, RepricedCarries
  <1>9. Carries(b, Repriced(a, repriced(a)))
    BY <1>6, <1>8, CarriesOn
  <1>10. RowsSame(a, Repriced(a, repriced(a))) /\ Repriced(a, repriced(a)).sub = a.sub
    BY <1>5, RepricedSame
  <1> QED
    BY <1>2, <1>9, <1>10, <1>11 DEF RowsSame

LEMMA ActivatedCarries ==
    ASSUME NEW b, Typed(b), NEW inv, TypedRow(inv)
    PROVE  /\ Carries(b, Activated(b, inv))
           /\ inv.kind # "addon" => Firm(b, Activated(b, inv))
  <1>0. inv.kind \in InvoiceKinds
    BY DEF TypedRow, Row
  <1>1. CASE inv.kind \in {"usage", "manual"}
    BY <1>1, CarriesItself DEF Activated
  <1>2. CASE inv.kind = "addon"
    BY <1>2, AddonActivatedCarries DEF Activated
  <1>3. CASE inv.kind = "renewal" /\ inv.start > today
    BY <1>3, CarriesItself DEF Activated
  <1> DEFINE c == PlanActivated(b, inv)
             d == AddonsRenewed(c, inv)
  <1>4. CASE inv.kind = "renewal" /\ ~(inv.start > today)
    <2>1. Activated(b, inv) = d
      BY <1>4 DEF Activated
    <2>2. Carries(b, c) /\ c.invoices = b.invoices
      BY <1>4, PlanActivatedCarries
    <2> HIDE DEF c
    <2>3. Typed(c)
      BY <2>2 DEF Carries
    <2>4. Carries(c, d) /\ d.invoices = c.invoices
      BY <2>3, AddonsRenewedCarries
    <2> HIDE DEF d
    <2>5. Carries(b, d)
      BY <2>2, <2>4, CarriesOn
    <2>6. Firm(b, d)
      BY <2>2, <2>4 DEF Firm
    <2> QED
      BY <2>1, <2>5, <2>6
  <1>5. CASE inv.kind \in {"plan", "upgrade"}
    <2>1. Activated(b, inv) = c
      BY <1>5 DEF Activated
    <2>2. Carries(b, c) /\ c.invoices = b.invoices
      BY <1>5, PlanActivatedCarries
    <2> HIDE DEF c
    <2>3. Firm(b, c)
      BY <2>2 DEF Firm
    <2> QED
      BY <2>1, <2>2, <2>3
  <1> QED
    BY <1>0, <1>1, <1>2, <1>3, <1>4, <1>5 DEF InvoiceKinds

\* An invoice is added that is to be paid, or asks for nothing.
LEMMA IssuedCarries ==
    ASSUME NEW b, Typed(b), NEW inv, TypedRow(inv), inv.status = "paid" => inv.amount = 0
    PROVE  /\ Carries(b, Issued(b, inv))
           /\ inv.kind # "addon" => Firm(b, Issued(b, inv))
  <1> SUFFICES ASSUME NEW c, c = Issued(b, inv)
               PROVE  Carries(b, c) /\ (inv.kind # "addon" => Firm(b, c))
    OBVIOUS
  <1>0. Shape(b) /\ Row(inv)
    BY DEF Typed, TypedRow
  <1>1. Adds(b, inv, c) /\ c.operator = b.operator
    BY <1>0, IssuedRow DEF Issued, Shape
  <1>2. PICK k : /\ k \notin DOMAIN b.invoices /\ c.invoices[k] = inv
                 /\ DOMAIN c.invoices = DOMAIN b.invoices \union {k}
    BY <1>1 DEF Adds
  <1>3. /\ Shape(c) /\ c.sub = b.sub /\ c.addons = b.addons /\ c.payments = b.payments
        /\ \A i \in DOMAIN b.invoices : c.invoices[i] = b.invoices[i]
    BY <1>1 DEF Adds
  <1>4. \A i \in DOMAIN c.invoices : TypedRow(c.invoices[i])
    BY <1>2, <1>3 DEF Typed
  <1>5. \A j \in DOMAIN c.payments : TypedPayment(c.payments[j], DOMAIN c.invoices)
    BY <1>2, <1>3 DEF Typed, TypedPayment
  <1>6. Typed(c)
    BY <1>1, <1>3, <1>4, <1>5 DEF Typed
  <1> QED
    BY <1>2, <1>3, <1>6 DEF Carries, Firm
-----------------------------------------------------------------------------
(* The months that usage is billed for *)

LEMMA Highest ==
    ASSUME NEW n \in Nat, NEW S \in SUBSET (0..n), S # {}
    PROVE  Max(S) \in S
  <1> DEFINE T == {n - x : x \in S}
  <1>1. T \in SUBSET Nat /\ T # {}
    <2>1. \A x \in S : x \in 0..n /\ n - x \in Nat
      OBVIOUS
    <2> QED
      BY <2>1
  <1>2. PICK y \in T : \A z \in T : y <= z
    BY <1>1, Least
  <1>3. PICK x \in S : y = n - x
    BY <1>2
  <1>4. \A z \in S : x >= z
    BY <1>2, <1>3
  <1> QED
    BY <1>4 DEF Max

LEMMA LargerOfTwo == \A a, c \in Int : Max({a, c}) = IF a >= c THEN a ELSE c
  <1> TAKE a, c \in Int
  <1>1. \E x \in {a, c} : \A y \in {a, c} : x >= y
    OBVIOUS
  <1>2. Max({a, c}) \in {a, c} /\ \A y \in {a, c} : Max({a, c}) >= y
    BY <1>1 DEF Max
  <1> QED
    BY <1>2

LEMMA SmallerOfTwo == \A a, c \in Int : Min({a, c}) = IF a <= c THEN a ELSE c
  <1> TAKE a, c \in Int
  <1>1. \E x \in {a, c} : \A y \in {a, c} : x <= y
    OBVIOUS
  <1>2. Min({a, c}) \in {a, c} /\ \A y \in {a, c} : Min({a, c}) <= y
    BY <1>1 DEF Min
  <1> QED
    BY <1>2

LEMMA LaterMonths ==
    ASSUME NEW j \in Nat, NEW k \in Nat, j <= k
    PROVE  /\ j * DaysInMonth \in Nat /\ k * DaysInMonth \in Nat
           /\ j * DaysInMonth <= k * DaysInMonth
           /\ j < k => j * DaysInMonth + DaysInMonth <= k * DaysInMonth
  <1>1. DaysInMonth \in Nat
    BY Calendar
  <1> DEFINE n == k - j
  <1>2. n \in Nat /\ k = j + n
    OBVIOUS
  <1> HIDE DEF n
  <1>3. j * DaysInMonth \in Nat /\ n * DaysInMonth \in Nat
    BY <1>1, <1>2
  <1>4. k * DaysInMonth = j * DaysInMonth + n * DaysInMonth
    BY <1>1, <1>2
  <1>5. n # 0 => DaysInMonth <= n * DaysInMonth
    <2>1. CASE n # 0
      <3> DEFINE l == n - 1
      <3>1. l \in Nat /\ n = l + 1
        BY <1>2, <2>1
      <3> HIDE DEF l
      <3>2. l * DaysInMonth \in Nat /\ n * DaysInMonth = l * DaysInMonth + DaysInMonth
        BY <1>1, <3>1
      <3> QED
        BY <1>1, <3>2
    <2> QED
      BY <2>1
  <1> QED
    BY <1>1, <1>2, <1>3, <1>4, <1>5

\* The windows of a period are its months, in order, as far as they are over.
LEMMA MonthsOver ==
    ASSUME TypedSub(sub), Paid, today \in Int, NEW m \in DOMAIN UsageWindows,
           NEW w, w = UsageWindows[m]
    PROVE  /\ m \in Nat /\ m >= 1
           /\ w.start = sub.start + (m - 1) * DaysInMonth
           /\ w.start \in Nat /\ w.end \in Nat /\ sub.start <= w.start
           /\ w.start <= w.end /\ w.end <= sub.end /\ w.end < w.start + DaysInMonth
           /\ w.end < today
           /\ w.end = sub.end \/ w.end = w.start + DaysInMonth - 1
  <1> DEFINE from(k) == sub.start + k * DaysInMonth
             upto(k) == Min({from(k) + DaysInMonth - 1, sub.end})
             over == {k \in 0..LastDay : from(k) <= sub.end /\ upto(k) < today}
             n == Cardinality(over)
  <1>1. /\ sub.start \in Nat /\ sub.end \in Nat /\ sub.start <= sub.end
        /\ DaysInMonth \in Nat \ {0} /\ LastDay \in Nat
    BY Calendar DEF TypedSub, Paid
  <1>2. UsageWindows = [k \in 1..n |-> [start |-> from(k - 1), end |-> upto(k - 1)]]
    BY DEF UsageWindows
  <1>3. n \in Nat /\ \A k \in 1..n : UsageWindows[k] = [start |-> from(k - 1), end |-> upto(k - 1)]
    <2>1. IsFiniteSet(0..LastDay)
      BY <1>1, FS_Interval
    <2>3. over \subseteq 0..LastDay
      OBVIOUS
    <2> HIDE DEF over
    <2>2. n \in Nat
      BY <2>1, <2>3, FS_Subset, FS_CardinalityType
    <2> HIDE DEF n, from, upto
    <2> QED
      BY <1>2, <2>2
  <1>4. m \in 1..n
    <2> HIDE DEF n, from, upto
    <2> QED
      BY <1>2
  <1>5. w.start = from(m - 1) /\ w.end = upto(m - 1)
    <2>1. w = [start |-> from(m - 1), end |-> upto(m - 1)]
      <3> HIDE DEF n, from, upto
      <3> QED
        BY <1>3, <1>4, Zenon
    <2> DEFINE s == from(m - 1)
               e == upto(m - 1)
    <2>2. w = [start |-> s, end |-> e]
      BY <2>1
    <2> HIDE DEF s, e
    <2>3. w.start = s /\ w.end = e
      BY <2>2
    <2> QED
      BY <2>3 DEF s, e
  <1>6. \A k \in Nat : /\ from(k) \in Nat /\ sub.start <= from(k)
                       /\ upto(k) = IF from(k) + DaysInMonth - 1 <= sub.end
                                    THEN from(k) + DaysInMonth - 1 ELSE sub.end
    <2> TAKE k \in Nat
    <2>1. k * DaysInMonth \in Nat
      BY <1>1
    <2>2. from(k) \in Nat /\ sub.start <= from(k)
      BY <1>1, <2>1
    <2> HIDE DEF from
    <2> QED
      BY <1>1, <2>2, SmallerOfTwo
  <1>7. \A j, k \in Nat : j <= k => from(j) <= from(k)
    <2> TAKE j, k \in Nat
    <2> HAVE j <= k
    <2>1. j * DaysInMonth \in Nat /\ k * DaysInMonth \in Nat /\ j * DaysInMonth <= k * DaysInMonth
      BY LaterMonths
    <2> QED
      BY <1>1, <2>1
  <1>8. \A j, k \in Nat : j <= k => upto(j) <= upto(k)
    <2> HIDE DEF from, upto
    <2> QED
      BY <1>1, <1>6, <1>7
  <1>9. m - 1 \in over
    <2> HIDE DEF n
    <2> SUFFICES ASSUME m - 1 \notin over
                 PROVE  FALSE
      OBVIOUS
    <2>1. ASSUME NEW k \in over
          PROVE  k \in 0..(m - 2)
      <3>1. m - 1 \in Nat /\ k \in Nat /\ k \in 0..LastDay
        BY <1>3, <1>4
      <3>2. SUFFICES ASSUME m - 1 <= k
                     PROVE  FALSE
        BY <1>3, <1>4, <3>1
      <3>3. m - 1 \in 0..LastDay
        BY <1>1, <3>1, <3>2
      <3>4. from(m - 1) <= from(k) /\ upto(m - 1) <= upto(k)
        BY <1>7, <1>8, <3>1, <3>2
      <3>5. from(k) <= sub.end /\ upto(k) < today
        OBVIOUS
      <3>6. from(k) \in Nat /\ from(m - 1) \in Nat /\ upto(k) \in Int /\ upto(m - 1) \in Int
        <4> HIDE DEF from, upto
        <4> QED
          BY <1>1, <1>6, <3>1
      <3> HIDE DEF from, upto
      <3>7. from(m - 1) <= sub.end /\ upto(m - 1) < today
        BY <1>1, <3>4, <3>5, <3>6
      <3> QED
        BY <3>3, <3>7
    <2>2. over \subseteq 0..(m - 2)
      BY <2>1
    <2>3. IsFiniteSet(0..(m - 2)) /\ Cardinality(0..(m - 2)) = m - 1
      <3>1. m - 2 \in Int /\ 0 \in Int
        BY <1>3, <1>4
      <3>2. /\ IsFiniteSet(0..(m - 2))
            /\ Cardinality(0..(m - 2)) = IF 0 > m - 2 THEN 0 ELSE (m - 2) - 0 + 1
        BY <3>1, FS_Interval
      <3>3. (m - 2) - 0 + 1 = m - 1 /\ (0 > m - 2 => m - 1 = 0)
        BY <1>3, <1>4
      <3> QED
        BY <3>2, <3>3
    <2>4. n <= m - 1
      <3> HIDE DEF over
      <3> QED
        BY <2>2, <2>3, FS_Subset DEF n
    <2> QED
      BY <1>3, <1>4, <2>4
  <1>10. from(m - 1) <= sub.end /\ upto(m - 1) < today
    BY <1>9
  <1>11. m \in Nat /\ m >= 1 /\ m - 1 \in Nat
    BY <1>3, <1>4
  <1>12. w.start = sub.start + (m - 1) * DaysInMonth
    BY <1>5
  <1> HIDE DEF from, upto
  <1> QED
    BY <1>1, <1>5, <1>6, <1>10, <1>11, <1>12

\* Months of one period do not overlap.
LEMMA MonthsApart ==
    ASSUME TypedSub(sub), Paid, today \in Int,
           NEW l \in DOMAIN UsageWindows, NEW m \in DOMAIN UsageWindows, l < m
    PROVE  UsageWindows[l].end < UsageWindows[m].start
  <1>1. PICK v : v = UsageWindows[l]
    OBVIOUS
  <1>2. PICK w : w = UsageWindows[m]
    OBVIOUS
  <1>3. /\ l \in Nat /\ l >= 1 /\ v.start = sub.start + (l - 1) * DaysInMonth
        /\ v.start \in Nat /\ v.end \in Nat /\ v.end < v.start + DaysInMonth
    BY <1>1, MonthsOver
  <1>4. m \in Nat /\ m >= 1 /\ w.start = sub.start + (m - 1) * DaysInMonth /\ w.start \in Nat
    BY <1>2, MonthsOver
  <1>5. l - 1 \in Nat /\ m - 1 \in Nat /\ l - 1 < m - 1
    BY <1>3, <1>4
  <1>6. /\ (l - 1) * DaysInMonth \in Nat /\ (m - 1) * DaysInMonth \in Nat
        /\ (l - 1) * DaysInMonth + DaysInMonth <= (m - 1) * DaysInMonth
    BY <1>5, LaterMonths
  <1>7. sub.start \in Nat /\ DaysInMonth \in Nat
    BY Calendar DEF TypedSub, Paid
  <1> QED
    BY <1>1, <1>2, <1>3, <1>4, <1>6, <1>7

UsageTyped == today \in Days /\ usage \in [Days -> 0..MaxUsage \union {NoRecord}]

LEMMA ExtraSeatsAreCounted ==
    ASSUME UsageTyped, NEW terms \in Terms, terms.seats # NoLimit,
           NEW w, w.start \in Nat, w.end \in Nat, w.start <= w.end
    PROVE  ExtraSeats(terms, w) \in Nat
  <1> DEFINE records == {d \in w.start..w.end : d \in Days /\ usage[d] # NoRecord}
             before(d) == {e \in records : e <= d}
             seen(d) == IF before(d) = {} THEN 0 ELSE usage[Max(before(d))]
             length == w.end - w.start + 1
             extra(n) == Max({n - terms.seats, 0})
             daily == [d \in w.start..w.end |-> seen(d)]
             recorded == {usage[d] : d \in records}
  <1>1. /\ terms.seats \in Nat /\ length \in Nat \ {0} /\ MaxUsage \in Nat /\ LastDay \in Nat
    BY Calendar, Bounds DEF Terms, NoLimit
  <1>2. \A n \in Int : extra(n) \in Nat
    BY <1>1, LargerOfTwo
  <1>3. \A n \in Int : length * extra(n) \in Nat
    <2> TAKE n \in Int
    <2>1. extra(n) \in Nat
      BY <1>2
    <2> HIDE DEF extra, length
    <2> QED
      BY <1>1, <2>1
  <1>4. /\ records \subseteq 0..LastDay
        /\ \A d \in records : usage[d] \in 0..MaxUsage /\ usage[d] \in Nat
    BY <1>1 DEF UsageTyped, Days
  <1>5. \A S \in SUBSET records : S # {} => Max(S) \in records
    <2> HIDE DEF records
    <2> TAKE S \in SUBSET records
    <2> HAVE S # {}
    <2>1. S \in SUBSET (0..LastDay)
      BY <1>4, Zenon
    <2>2. Max(S) \in S
      BY <1>1, <2>1, Highest
    <2> QED
      BY <2>2
  <1>6. \A d \in w.start..w.end : seen(d) \in Nat
    <2> TAKE d \in w.start..w.end
    <2>1. before(d) \in SUBSET records
      OBVIOUS
    <2> HIDE DEF before
    <2>2. before(d) # {} => Max(before(d)) \in records
      BY <1>5, <2>1
    <2> HIDE DEF records
    <2> QED
      BY <1>1, <1>4, <2>2
  <1>7. SumFunction(daily) \in Int
    <2>1. DOMAIN daily = w.start..w.end /\ \A d \in w.start..w.end : daily[d] \in Int
      BY <1>6
    <2> HIDE DEF daily
    <2>2. SumFunction(daily) = SumFunctionOnSet(daily, w.start..w.end)
      BY <2>1, Zenon DEF SumFunction
    <2>3. IsFiniteSet(w.start..w.end)
      BY FS_Interval
    <2> QED
      BY <2>1, <2>2, <2>3, SumsAreNumbers
  <1>8. Max({SumFunction(daily) - length * terms.seats, 0}) \in Nat
    <2> DEFINE total == SumFunction(daily)
               included == length * terms.seats
    <2>1. total \in Int
      BY <1>7
    <2>2. included \in Int
      <3> HIDE DEF length
      <3> QED
        BY <1>1
    <2> HIDE DEF total, included
    <2>3. Max({total - included, 0}) \in Nat
      BY <2>1, <2>2, LargerOfTwo
    <2> QED
      BY <2>3 DEF total, included
  <1>9. ASSUME records # {}
        PROVE  usage[Max(records)] \in Int
    <2> DEFINE last == Max(records)
    <2>1. last \in records
      BY <1>5, <1>9
    <2> HIDE DEF last
    <2>2. usage[last] \in Nat
      BY <1>4, <2>1
    <2> QED
      BY <2>2 DEF last
  <1>10. ASSUME records # {}
         PROVE  Max(recorded) \in Int
    <2>1. recorded \in SUBSET (0..MaxUsage)
      BY <1>4
    <2>2. recorded # {}
      BY <1>10
    <2> HIDE DEF records, recorded
    <2> DEFINE most == Max(recorded)
    <2>3. most \in recorded
      BY <1>1, <2>1, <2>2, Highest
    <2> HIDE DEF most
    <2>4. most \in Int
      BY <2>1, <2>3
    <2> QED
      BY <2>4 DEF most
  <1>11. \/ ExtraSeats(terms, w) = 0
         \/ /\ records # {}
            /\ ExtraSeats(terms, w) = CASE terms.method = "average_daily" ->
                                               Max({SumFunction(daily) - length * terms.seats, 0})
                                         [] terms.method = "end_of_period" ->
                                               length * extra(usage[Max(records)])
                                         [] OTHER -> length * extra(Max(recorded))
    BY Zenon DEF ExtraSeats
  <1>12. CASE ExtraSeats(terms, w) = 0
    BY <1>12
  <1>13. CASE ExtraSeats(terms, w) # 0
    <2>0. records # {}
      BY <1>11, <1>13
    <2>1. length * extra(usage[Max(records)]) \in Nat /\ length * extra(Max(recorded)) \in Nat
      <3> HIDE DEF records, length, extra, recorded
      <3> QED
        BY <1>3, <1>9, <1>10, <2>0
    <2> HIDE DEF records, length, extra, daily, recorded
    <2>2. \/ ExtraSeats(terms, w) = Max({SumFunction(daily) - length * terms.seats, 0})
          \/ ExtraSeats(terms, w) = length * extra(usage[Max(records)])
          \/ ExtraSeats(terms, w) = length * extra(Max(recorded))
      BY <1>11, <1>13, Zenon
    <2> QED
      BY <1>8, <2>1, <2>2, Zenon
  <1> QED
    BY <1>12, <1>13
-----------------------------------------------------------------------------
(* The bills of usage *)

\* The elements of a set of numbers, by how many come up to them.
LEMMA Ranks ==
    ASSUME NEW n \in Nat, NEW K \in SUBSET (1..n)
    PROVE  /\ Cardinality(K) \in Nat
           /\ \A i \in 1..Cardinality(K) : \E k \in K : Cardinality({j \in K : j <= k}) = i
  <1> DEFINE upto(k) == {j \in K : j <= k}
             m == Cardinality(K)
             rank == [k \in K |-> Cardinality(upto(k))]
  <1>1. IsFiniteSet(K) /\ m \in Nat
    <2>1. IsFiniteSet(1..n)
      BY FS_Interval
    <2>2. IsFiniteSet(K)
      BY <2>1, FS_Subset
    <2> QED
      BY <2>2, FS_CardinalityType
  <1>2. ASSUME NEW k \in K
        PROVE  IsFiniteSet(upto(k)) /\ Cardinality(upto(k)) \in 1..m
    <2>1. upto(k) \in SUBSET K /\ k \in upto(k)
      OBVIOUS
    <2>2. IsFiniteSet(upto(k)) /\ Cardinality(upto(k)) <= m
      BY <1>1, <2>1, FS_Subset
    <2>3. Cardinality(upto(k)) \in Nat /\ Cardinality(upto(k)) # 0
      BY <2>1, <2>2, FS_CardinalityType, FS_EmptySet
    <2> HIDE DEF upto, m
    <2> QED
      BY <1>1, <2>2, <2>3
  <1>3. ASSUME NEW j \in K, NEW k \in K, j < k
        PROVE  Cardinality(upto(j)) # Cardinality(upto(k))
    <2>1. upto(j) \in SUBSET upto(k)
      <3>1. \A i \in K : i <= j => i <= k
        BY <1>3
      <3> QED
        BY <3>1
    <2>2. k \in upto(k) /\ k \notin upto(j)
      BY <1>3
    <2>3. upto(j) # upto(k)
      BY <2>2
    <2> HIDE DEF upto
    <2> QED
      BY <1>2, <2>1, <2>3, FS_Subset
  <1> HIDE DEF upto, m
  <1>4. rank \in [K -> 1..m]
    BY <1>2
  <1>5. rank \in Injection(K, 1..m)
    <2>1. \A j, k \in K : j # k => rank[j] # rank[k]
      BY <1>3
    <2> HIDE DEF rank
    <2> QED
      BY <1>4, <2>1 DEF Injection, IsInjective
  <1>6. IsFiniteSet(1..m) /\ Cardinality(1..m) = m
    BY <1>1, FS_Interval
  <1>7. rank \in Surjection(K, 1..m)
    BY <1>5, <1>6, FS_Injection DEF m
  <1>8. \A i \in 1..m : \E k \in K : rank[k] = i
    BY <1>7 DEF Surjection
  <1> QED
    BY <1>1, <1>8 DEF upto, m

LEMMA ExtendedInOrder ==
    ASSUME NEW s, IsSeq(s), NEW n \in Nat, NEW r, Listed(r, n)
    PROVE  /\ Len(s) \in Nat /\ DOMAIN s = 1..Len(s)
           /\ DOMAIN (s \o r) = 1..(Len(s) + n)
           /\ \A i \in DOMAIN s : (s \o r)[i] = s[i]
           /\ \A k \in 1..n : (s \o r)[Len(s) + k] = r[k]
  <1>1. PICK S : s \in Seq(S)
    BY DEF IsSeq
  <1> DEFINE R == {r[k] : k \in 1..n}
             T == S \union R
  <1>2. r \in [1..n -> R]
    BY DEF R, Listed
  <1> HIDE DEF R
  <1>3. s \in Seq(T) /\ r \in Seq(T) /\ Len(r) = n
    BY <1>1, <1>2
  <1> HIDE DEF T
  <1>5. /\ s \o r \in Seq(T) /\ Len(s \o r) = Len(s) + n
        /\ \A i \in 1..(Len(s) + n) : (s \o r)[i] = IF i <= Len(s) THEN s[i] ELSE r[i - Len(s)]
    BY <1>3, ConcatProperties
  <1>6. DOMAIN s = 1..Len(s) /\ Len(s) \in Nat /\ DOMAIN (s \o r) = 1..(Len(s) + n)
    BY <1>3, <1>5
  <1>7. \A k \in 1..n : (s \o r)[Len(s) + k] = r[k]
    <2> TAKE k \in 1..n
    <2> DEFINE i == Len(s) + k
    <2>1. i \in 1..(Len(s) + n) /\ ~(i <= Len(s)) /\ i - Len(s) = k
      BY <1>6
    <2> HIDE DEF i
    <2>2. (s \o r)[i] = r[k]
      BY <1>5, <2>1
    <2> QED
      BY <2>2 DEF i
  <1> QED
    BY <1>5, <1>6, <1>7

Apart(inv, other) == inv.end < other.start \/ other.end < inv.start

IsBilled(b, w) == \E i \in DOMAIN b.invoices :
    /\ b.invoices[i].kind = "usage"
    /\ b.invoices[i].start = w.start /\ b.invoices[i].end = w.end

\* `c' is `b' with bills of months that had none.
Bills(b, c) ==
    /\ c.sub = b.sub /\ c.addons = b.addons /\ c.payments = b.payments
    /\ c.operator = b.operator
    /\ DOMAIN b.invoices \subseteq DOMAIN c.invoices
    /\ \A i \in DOMAIN b.invoices : c.invoices[i] = b.invoices[i]
    /\ \A i \in DOMAIN c.invoices \ DOMAIN b.invoices :
          /\ TypedRow(c.invoices[i])
          /\ c.invoices[i].kind = "usage" /\ c.invoices[i].status = "issued"
          /\ \E m \in DOMAIN UsageWindows :
                /\ c.invoices[i].start = UsageWindows[m].start
                /\ c.invoices[i].end = UsageWindows[m].end
                /\ ~IsBilled(b, UsageWindows[m])
    /\ \A i, j \in DOMAIN c.invoices \ DOMAIN b.invoices :
          i # j => Apart(c.invoices[i], c.invoices[j])

LEMMA BillTyped ==
    ASSUME UsageTyped, NEW terms \in Terms, terms.seats # NoLimit,
           NEW w, w.start \in Nat, w.end \in Nat, w.start <= w.end,
           NEW bill, bill = NewInvoice("usage", w.start, w.end, today,
                                Rounded(ExtraSeats(terms, w) * terms.rate, w.end - w.start + 1))
    PROVE  /\ TypedRow(bill)
           /\ bill.kind = "usage" /\ bill.status = "issued"
           /\ bill.start = w.start /\ bill.end = w.end
  <1> DEFINE extra == ExtraSeats(terms, w)
             length == w.end - w.start + 1
             price == extra * terms.rate
             amount == Rounded(price, length)
  <1>1. extra \in Nat /\ terms.rate \in Nat /\ length \in Nat \ {0}
    BY ExtraSeatsAreCounted DEF Terms
  <1> HIDE DEF extra, length
  <1>2. price \in Nat
    BY <1>1
  <1> HIDE DEF price
  <1>3. amount \in Nat
    BY <1>1, <1>2, RoundedIsANumber
  <1>4. bill = NewInvoice("usage", w.start, w.end, today, amount)
    BY DEF amount, price, extra, length
  <1> HIDE DEF amount
  <1>5. today \in Nat
    BY Calendar DEF UsageTyped, Days
  <1>6. /\ DOMAIN bill = {"kind", "start", "end", "due", "amount", "status", "terms", "cycle", "units"}
        /\ bill.kind = "usage" /\ bill.start = w.start /\ bill.end = w.end /\ bill.due = today
        /\ bill.amount = amount /\ bill.status = "issued" /\ bill.terms = NoTerms
        /\ bill.cycle = "monthly" /\ bill.units = NoUnits
    BY <1>4 DEF NewInvoice
  <1>7. NoUnits \in Units
    BY Bounds DEF NoUnits, Units
  <1>8. Row(bill)
    BY <1>6 DEF Row, InvoiceKinds, Open
  <1>9. Invoice(bill)
    BY <1>3, <1>5, <1>6, <1>7 DEF Invoice, InvoiceKinds, Open, Cycles
  <1> QED
    BY <1>6, <1>8, <1>9 DEF TypedRow

LEMMA UsageBills ==
    ASSUME NEW b, Typed(b), b.sub = sub, Paid, UsageTyped
    PROVE  Shape(UsageBilled(b)) /\ Bills(b, UsageBilled(b))
  <1> DEFINE windows == UsageWindows
             known(w) == \E i \in DOMAIN b.invoices :
                 /\ b.invoices[i].kind = "usage"
                 /\ b.invoices[i].start = w.start /\ b.invoices[i].end = w.end
             owed == {m \in DOMAIN windows :
                         ~known(windows[m]) /\ ExtraSeats(sub.terms, windows[m]) # 0}
             at(n) == CHOOSE m \in owed : Cardinality({k \in owed : k <= m}) = n
             bill(w) == NewInvoice("usage", w.start, w.end, today,
                            Rounded(ExtraSeats(sub.terms, w) * sub.terms.rate, w.end - w.start + 1))
             count == Cardinality(owed)
             bills == [n \in 1..count |-> bill(windows[at(n)])]
  <1>0. Shape(b) /\ TypedSub(sub) /\ today \in Int
    BY Calendar DEF Typed, UsageTyped, Days
  <1>1. \/ UsageBilled(b) = b
        \/ sub.terms.seats # NoLimit /\ UsageBilled(b) = WithInvoices(b, bills)
    BY DEF UsageBilled, WithInvoices
  <1>2. CASE UsageBilled(b) = b
    <2>1. Bills(b, b)
      BY DEF Bills
    <2> QED
      BY <1>0, <1>2, <2>1
  <1>3. CASE sub.terms.seats # NoLimit /\ UsageBilled(b) = WithInvoices(b, bills)
    <2>1. /\ count \in Nat
          /\ \A n \in 1..count : /\ at(n) \in owed
                                 /\ Cardinality({k \in owed : k <= at(n)}) = n
      <3>1. PICK n \in Nat : DOMAIN windows = 1..n
        BY UsageWindowsCounted
      <3>2. owed \in SUBSET (1..n)
        BY <3>1
      <3> HIDE DEF owed
      <3>3. /\ Cardinality(owed) \in Nat
            /\ \A i \in 1..Cardinality(owed) :
                  \E m \in owed : Cardinality({k \in owed : k <= m}) = i
        BY <3>1, <3>2, Ranks
      <3> QED
        BY <3>3
    <2>2. \A k, n \in 1..count : k # n => at(k) # at(n)
      BY <2>1
    <2>3. \A m \in owed : m \in DOMAIN windows /\ ~IsBilled(b, windows[m])
      BY DEF IsBilled
    <2> HIDE DEF owed, at, count
    <2>4. ASSUME NEW n \in 1..count
          PROVE  /\ TypedRow(bills[n]) /\ bills[n].kind = "usage" /\ bills[n].status = "issued"
                 /\ bills[n].start = windows[at(n)].start /\ bills[n].end = windows[at(n)].end
      <3>1. PICK w : w = windows[at(n)]
        OBVIOUS
      <3>2. w.start \in Nat /\ w.end \in Nat /\ w.start <= w.end
        BY <1>0, <2>1, <2>3, <3>1, MonthsOver
      <3>3. bills[n] = bill(w)
        BY <3>1
      <3>4. sub.terms \in Terms
        BY <1>0 DEF TypedSub, Paid
      <3> HIDE DEF bills, windows
      <3> QED
        BY <1>3, <3>1, <3>2, <3>3, <3>4, BillTyped
    <2>5. Listed(bills, count)
      BY DEF Listed
    <2> DEFINE c == WithInvoices(b, bills)
    <2> HIDE DEF bills
    <2>6. /\ Shape(c)
          /\ c.sub = b.sub /\ c.addons = b.addons /\ c.payments = b.payments
          /\ DOMAIN b.invoices \subseteq DOMAIN c.invoices
          /\ \A i \in DOMAIN b.invoices : c.invoices[i] = b.invoices[i]
      <3>1. \A k \in 1..count : Row(bills[k])
        BY <2>4 DEF TypedRow
      <3> QED
        BY <1>0, <2>1, <2>5, <3>1, InvoicesExtended
    <2>7. c.operator = b.operator /\ c.invoices = b.invoices \o bills
      BY <1>0 DEF WithInvoices, Shape
    <2> HIDE DEF c
    <2>8. PICK len \in Nat : /\ DOMAIN b.invoices = 1..len /\ DOMAIN c.invoices = 1..(len + count)
                             /\ \A k \in 1..count : c.invoices[len + k] = bills[k]
      <3>1. IsSeq(b.invoices)
        BY <1>0 DEF Shape
      <3> QED
        BY <2>1, <2>5, <2>7, <3>1, ExtendedInOrder
    <2>9. ASSUME NEW i \in DOMAIN c.invoices \ DOMAIN b.invoices
          PROVE  i - len \in 1..count /\ c.invoices[i] = bills[i - len] /\ i \in Nat
      <3>1. i \in Nat /\ i - len \in 1..count /\ len + (i - len) = i
        BY <2>1, <2>8
      <3> QED
        BY <2>8, <3>1
    <2>10. ASSUME NEW i \in DOMAIN c.invoices \ DOMAIN b.invoices
           PROVE  /\ TypedRow(c.invoices[i])
                  /\ c.invoices[i].kind = "usage" /\ c.invoices[i].status = "issued"
                  /\ \E m \in DOMAIN windows :
                        /\ c.invoices[i].start = windows[m].start
                        /\ c.invoices[i].end = windows[m].end
                        /\ ~IsBilled(b, windows[m])
      <3>1. i - len \in 1..count /\ c.invoices[i] = bills[i - len]
        BY <2>9
      <3>2. at(i - len) \in DOMAIN windows /\ ~IsBilled(b, windows[at(i - len)])
        BY <2>1, <2>3, <3>1
      <3> HIDE DEF windows
      <3> QED
        BY <2>4, <3>1, <3>2
    <2>11. ASSUME NEW i \in DOMAIN c.invoices \ DOMAIN b.invoices,
                  NEW j \in DOMAIN c.invoices \ DOMAIN b.invoices, i # j
           PROVE  Apart(c.invoices[i], c.invoices[j])
      <3>1. PICK k \in 1..count : k = i - len
        BY <2>9
      <3>2. PICK n \in 1..count : n = j - len
        BY <2>9
      <3>3. k # n /\ c.invoices[i] = bills[k] /\ c.invoices[j] = bills[n]
        BY <2>9, <2>11, <3>1, <3>2
      <3>4. PICK l \in DOMAIN windows : l = at(k)
        BY <2>1, <2>3
      <3>5. PICK m \in DOMAIN windows : m = at(n)
        BY <2>1, <2>3
      <3>6. l # m
        BY <2>2, <3>3, <3>4, <3>5
      <3>7. l \in Nat /\ m \in Nat
        BY <1>0, MonthsOver
      <3>8. l < m => windows[l].end < windows[m].start
        BY <1>0, MonthsApart
      <3>9. m < l => windows[m].end < windows[l].start
        BY <1>0, MonthsApart
      <3> HIDE DEF windows
      <3>10. /\ bills[k].start = windows[l].start /\ bills[k].end = windows[l].end
             /\ bills[n].start = windows[m].start /\ bills[n].end = windows[m].end
        BY <2>4, <3>4, <3>5
      <3> QED
        BY <3>3, <3>6, <3>7, <3>8, <3>9, <3>10 DEF Apart
    <2>12. Bills(b, c)
      BY <2>6, <2>7, <2>10, <2>11 DEF Bills
    <2> QED
      BY <1>3, <2>6, <2>12 DEF c
  <1> QED
    BY <1>1, <1>2, <1>3

LEMMA UsageBilledCarries ==
    ASSUME NEW b, Typed(b), NEW c, Shape(c), Bills(b, c)
    PROVE  Carries(b, c) /\ Firm(b, c)
  <1>1. \A i \in DOMAIN c.invoices : TypedRow(c.invoices[i])
    BY DEF Typed, Bills
  <1>2. \A k \in DOMAIN c.payments : TypedPayment(c.payments[k], DOMAIN c.invoices)
    BY DEF Typed, Bills, TypedPayment
  <1>3. Typed(c)
    BY <1>1, <1>2 DEF Typed, Bills
  <1> QED
    BY <1>3 DEF Carries, Firm, Bills

LEMMA OverdueCarries ==
    ASSUME NEW b, Typed(b), NEW c, c = BecomeOverdue(b)
    PROVE  Carries(b, c) /\ Firm(b, c) /\ c.sub = b.sub
  <1> DEFINE late(inv) == [inv EXCEPT !.status = "overdue"]
             new(i) == IF b.invoices[i].status = "issued" /\ b.invoices[i].due < today
                       THEN late(b.invoices[i]) ELSE b.invoices[i]
  <1>0. Shape(b)
    BY DEF Typed
  <1>1. /\ c.operator = b.operator
        /\ c.sub = b.sub /\ c.addons = b.addons /\ c.payments = b.payments
        /\ c.invoices = [i \in DOMAIN b.invoices |-> new(i)]
    BY <1>0 DEF Shape, BecomeOverdue
  <1>2. ASSUME NEW i \in DOMAIN b.invoices
        PROVE  LET r == late(b.invoices[i]) IN
               /\ TypedRow(r) /\ r.status = "overdue"
               /\ r.kind = b.invoices[i].kind /\ r.amount = b.invoices[i].amount
    <2>1. TypedRow(b.invoices[i])
      BY DEF Typed
    <2> DEFINE inv == b.invoices[i]
    <2> HIDE DEF inv
    <2>2. TypedRow(inv) => TypedRow(late(inv)) /\ late(inv).status = "overdue"
                           /\ late(inv).kind = inv.kind /\ late(inv).amount = inv.amount
      BY DEF TypedRow, Row, Invoice, Open
    <2> QED
      BY <2>1, <2>2 DEF inv
  <1> HIDE DEF late
  <1>3. DOMAIN c.invoices = DOMAIN b.invoices /\ \A i \in DOMAIN b.invoices : c.invoices[i] = new(i)
    BY <1>1
  <1>4. \A i \in DOMAIN c.invoices : TypedRow(c.invoices[i])
    BY <1>2, <1>3 DEF Typed
  <1>5. Shape(c)
    BY <1>0, OverdueQuietly DEF Quiet
  <1>6. Typed(c)
    BY <1>1, <1>3, <1>4, <1>5 DEF Typed
  <1> QED
    BY <1>1, <1>2, <1>3, <1>6 DEF Carries, Firm
-----------------------------------------------------------------------------
(* Renewals and the daily job *)

\* A change of what renews is asked for, or dropped.
LEMMA ChangeCarries ==
    ASSUME NEW b, Typed(b), NEW change,
           change = NoChange \/ (change.terms \in Terms /\ change.cycle \in Cycles),
           NEW c, c = [b EXCEPT !.sub.scheduled = change]
    PROVE  /\ Carries(b, c) /\ Firm(b, c)
           /\ c.invoices = b.invoices /\ SamePlan(b.sub, c.sub)
  <1>0. Shape(b) /\ TypedSub(b.sub)
    BY DEF Typed
  <1>1. /\ c.sub = [b.sub EXCEPT !.scheduled = change] /\ c.addons = b.addons
        /\ c.invoices = b.invoices /\ c.payments = b.payments /\ c.operator = b.operator
    BY <1>0 DEF Shape
  <1>2. SamePlan(b.sub, c.sub) /\ c.sub.scheduled = change
    BY <1>0, <1>1 DEF Shape, SamePlan
  <1>3. TypedSub(c.sub)
    BY <1>0, <1>2 DEF TypedSub, SamePlan
  <1>4. Shape(c)
    BY <1>0, ChangeDropped DEF Quiet
  <1> QED
    BY <1>1, <1>2, <1>3, <1>4, RowsCarried DEF Typed

LEMMA RenewalInvoiceTyped ==
    ASSUME NEW b, Typed(b), TypedSub(sub), Paid, b.sub.end = sub.end,
           NEW inv, inv = RenewalInvoice(b)
    PROVE  /\ TypedRow(inv) /\ inv.kind = "renewal" /\ inv.status = "issued"
           /\ inv.start = sub.end + 1
  <1> DEFINE start == sub.end + 1
             units == RenewalUnits(b)
             end == PeriodEnd(start, Renewing.cycle)
             amount == RenewalAmount(Renewing.terms, Renewing.cycle, units)
  <1>0. Shape(b) /\ sub.end \in Nat
    BY DEF Typed, TypedSub, Paid
  <1>1. /\ Row(inv) /\ inv.kind = "renewal" /\ inv.status = "issued"
        /\ inv.start = b.sub.end + 1 /\ inv.start <= inv.end /\ inv.units = units
        /\ inv.amount = RenewalAmount(inv.terms, inv.cycle, units)
    BY <1>0, RenewalInvoiceFits
  <1>2. inv = [NewInvoice("renewal", start, end, start, amount)
               EXCEPT !.terms = Renewing.terms, !.cycle = Renewing.cycle, !.units = units]
    BY DEF RenewalInvoice
  <1>3. units \in Units
    BY RenewalUnitsTyped DEF Typed
  <1>4. Renewing.terms \in Terms /\ Renewing.cycle \in Cycles
    BY DEF Renewing, TypedSub, Paid
  <1>5. start \in Nat /\ start = inv.start
    BY <1>0, <1>1
  <1> HIDE DEF units, end, amount, start
  <1>6. inv.terms = Renewing.terms /\ inv.cycle = Renewing.cycle /\ inv.due = start
    BY <1>2 DEF NewInvoice
  <1>7. inv.amount \in Nat
    BY <1>1, <1>3, <1>4, <1>6, RenewalAmountIsANumber
  <1>8. inv.end \in Nat
    <2>1. inv.end \in Int
      BY <1>1 DEF Row
    <2> QED
      BY <1>1, <1>5, <2>1
  <1>9. Invoice(inv)
    BY <1>1, <1>3, <1>4, <1>5, <1>6, <1>7, <1>8 DEF Invoice, InvoiceKinds, Open
  <1>10. TypedRow(inv)
    BY <1>1, <1>4, <1>6, <1>9 DEF TypedRow
  <1> QED
    BY <1>0, <1>1, <1>10

\* What the job does about the renewal: nothing but drop a change, start one that is paid, or
\* issue the next.
Renews(b, c) ==
    \/ c = b
    \/ \E asked : /\ Carries(b, asked) /\ Firm(b, asked)
                  /\ asked.invoices = b.invoices /\ SamePlan(b.sub, asked.sub)
                  /\ \/ c = asked
                     \/ \E inv : /\ RenewalsFrom(b, b.sub.end + 1) = {}
                                 /\ TypedRow(inv) /\ inv.kind = "renewal"
                                 /\ inv.status = "issued" /\ inv.start = b.sub.end + 1
                                 /\ c = Issued(asked, inv)
    \/ \E j \in DOMAIN b.invoices : /\ b.invoices[j].kind = "renewal"
                                    /\ b.invoices[j].status = "paid"
                                    /\ c = Activated(b, b.invoices[j])

LEMMA RenewedRenews ==
    ASSUME NEW b, Typed(b), b.sub = sub, Paid
    PROVE  Renews(b, Renewed(b))
  <1> DEFINE start == sub.end + 1
             paid == {i \in RenewalsFrom(b, start) : b.invoices[i].status = "paid"}
             kept == [b EXCEPT !.sub.scheduled = IF Fits(@.terms, TRUE) THEN @ ELSE NoChange]
             asked == IF sub.scheduled = NoChange THEN b ELSE kept
  <1>0. Shape(b) /\ TypedSub(sub)
    BY DEF Typed
  <1>1. \/ Renewed(b) = b
        \/ paid # {} /\ Renewed(b) = Activated(b, b.invoices[Min(paid)])
        \/ Renewed(b) = asked
        \/ RenewalsFrom(b, start) = {} /\ Renewed(b) = Issued(asked, RenewalInvoice(asked))
    BY DEF Renewed
  <1>2. /\ Carries(b, asked) /\ Firm(b, asked)
        /\ asked.invoices = b.invoices /\ SamePlan(b.sub, asked.sub)
    <2>1. CASE sub.scheduled = NoChange
      BY <2>1, CarriesItself DEF SamePlan
    <2>2. CASE sub.scheduled # NoChange
      <3> DEFINE change == IF Fits(b.sub.scheduled.terms, TRUE) THEN b.sub.scheduled ELSE NoChange
      <3>1. asked = [b EXCEPT !.sub.scheduled = change]
        BY <1>0, <2>2 DEF Shape
      <3>2. change = NoChange \/ (change.terms \in Terms /\ change.cycle \in Cycles)
        BY <1>0 DEF TypedSub
      <3> HIDE DEF change, asked
      <3> QED
        BY <3>1, <3>2, ChangeCarries
    <2> QED
      BY <2>1, <2>2
  <1> HIDE DEF asked
  <1>3. CASE Renewed(b) = b \/ Renewed(b) = asked
    BY <1>2, <1>3 DEF Renews
  <1>4. CASE paid # {} /\ Renewed(b) = Activated(b, b.invoices[Min(paid)])
    <2>1. paid \subseteq DOMAIN b.invoices
      BY DEF RenewalsFrom
    <2>2. DOMAIN b.invoices \subseteq Nat
      BY <1>0, Appended DEF Shape
    <2> DEFINE j == Min(paid)
    <2>3. j \in paid
      <3> HIDE DEF paid
      <3> QED
        BY <1>4, <2>1, <2>2, FirstOfRows
    <2>4. /\ j \in DOMAIN b.invoices /\ b.invoices[j].status = "paid"
          /\ b.invoices[j].kind = "renewal"
      BY <2>3 DEF RenewalsFrom
    <2>5. Renewed(b) = Activated(b, b.invoices[j])
      BY <1>4
    <2> HIDE DEF j
    <2> QED
      BY <2>4, <2>5 DEF Renews
  <1>5. CASE RenewalsFrom(b, start) = {} /\ Renewed(b) = Issued(asked, RenewalInvoice(asked))
    <2>1. Typed(asked) /\ asked.sub.end = sub.end
      BY <1>2 DEF Carries, SamePlan
    <2>2. PICK inv : inv = RenewalInvoice(asked)
      OBVIOUS
    <2>3. /\ TypedRow(inv) /\ inv.kind = "renewal" /\ inv.status = "issued"
          /\ inv.start = sub.end + 1
      BY <1>0, <2>1, <2>2, RenewalInvoiceTyped
    <2>4. RenewalsFrom(b, b.sub.end + 1) = {} /\ inv.start = b.sub.end + 1
      BY <1>5, <2>3
    <2> QED
      BY <1>2, <1>5, <2>2, <2>3, <2>4 DEF Renews
  <1> HIDE DEF paid
  <1> QED
    BY <1>1, <1>3, <1>4, <1>5

LEMMA RenewedCarries ==
    ASSUME NEW b, Typed(b), NEW c, Renews(b, c)
    PROVE  Carries(b, c) /\ Firm(b, c)
  <1>1. CASE c = b
    BY <1>1, CarriesItself
  <1>2. ASSUME NEW asked, Carries(b, asked), Firm(b, asked), NEW inv, TypedRow(inv),
               inv.kind = "renewal", inv.status = "issued", c = Issued(asked, inv)
        PROVE  Carries(b, c) /\ Firm(b, c)
    <2>1. Typed(asked) /\ inv.status # "paid" /\ inv.kind # "addon"
      BY <1>2 DEF Carries
    <2>2. Carries(asked, c) /\ Firm(asked, c)
      BY <1>2, <2>1, IssuedCarries
    <2> QED
      BY <1>2, <2>2, CarriesOn, FirmOn
  <1>3. ASSUME NEW j \in DOMAIN b.invoices, b.invoices[j].kind = "renewal",
               c = Activated(b, b.invoices[j])
        PROVE  Carries(b, c) /\ Firm(b, c)
    <2>1. TypedRow(b.invoices[j]) /\ b.invoices[j].kind # "addon"
      BY <1>3 DEF Typed
    <2> QED
      BY <1>3, <2>1, ActivatedCarries
  <1> QED
    BY <1>1, <1>2, <1>3 DEF Renews

\* The job's three parts, one after the other.
JobsDone(b, billed, renewed, books) ==
    /\ IF Paid THEN billed = UsageBilled(b) ELSE billed = b
    /\ IF Paid THEN renewed = Renewed(billed) ELSE renewed = billed
    /\ books = BecomeOverdue(renewed)

LEMMA JobsCarry ==
    ASSUME NEW b, Typed(b), b.sub = sub, UsageTyped, NEW billed, NEW renewed, NEW books,
           JobsDone(b, billed, renewed, books)
    PROVE  Carries(b, books) /\ Firm(b, books)
  <1>1. Carries(b, billed) /\ Firm(b, billed) /\ billed.sub = sub
    <2>1. CASE Paid
      <3>1. Shape(billed) /\ Bills(b, billed)
        BY <2>1, UsageBills DEF JobsDone
      <3> QED
        BY <3>1, UsageBilledCarries DEF Bills
    <2>2. CASE ~Paid
      BY <2>2, CarriesItself DEF JobsDone
    <2> QED
      BY <2>1, <2>2
  <1>2. Typed(billed)
    BY <1>1 DEF Carries
  <1>3. Carries(billed, renewed) /\ Firm(billed, renewed)
    <2>1. CASE Paid
      <3>1. Renews(billed, renewed)
        BY <1>1, <1>2, <2>1, RenewedRenews DEF JobsDone
      <3> QED
        BY <1>2, <3>1, RenewedCarries
    <2>2. CASE ~Paid
      BY <1>2, <2>2, CarriesItself DEF JobsDone
    <2> QED
      BY <2>1, <2>2
  <1>4. Typed(renewed)
    BY <1>3 DEF Carries
  <1>5. Carries(renewed, books) /\ Firm(renewed, books)
    BY <1>4, OverdueCarries DEF JobsDone
  <1>6. Carries(b, renewed) /\ Firm(b, renewed)
    BY <1>1, <1>3, CarriesOn, FirmOn
  <1> QED
    BY <1>5, <1>6, CarriesOn, FirmOn
-----------------------------------------------------------------------------
(* No invoice is overpaid, and what is paid is paid in full *)

RightOn(b, i) ==
    /\ PaidOn(b, i) <= b.invoices[i].amount
    /\ b.invoices[i].status = "paid" => PaidOn(b, i) = b.invoices[i].amount
Right(b) == \A i \in DOMAIN b.invoices : RightOn(b, i)

LEMMA CarriesRight ==
    ASSUME NEW b, Typed(b), Right(b), NEW c, Carries(b, c)
    PROVE  Right(c)
  <1>1. Typed(c) /\ c.payments = b.payments /\ IsSeq(b.payments)
    BY DEF Carries, Typed, Shape
  <1>2. \A i : PaidOn(c, i) = PaidOn(b, i)
    BY <1>1, PaidOnSamePayments
  <1>3. \A i : Untouched(b, i) => PaidOn(b, i) = 0
    BY <1>1, NothingPaidOn
  <1> SUFFICES ASSUME NEW i \in DOMAIN c.invoices
               PROVE  RightOn(c, i)
    BY DEF Right
  <1>4. c.invoices[i].amount \in Nat
    BY <1>1 DEF Typed, TypedRow, Invoice
  <1>5. CASE i \in DOMAIN b.invoices
    <2>1. RightOn(b, i)
      BY <1>5 DEF Right
    <2>2. c.invoices[i].status = "paid" => b.invoices[i].status = "paid"
      BY <1>5 DEF Carries
    <2>3. CASE c.invoices[i].amount = b.invoices[i].amount
      BY <1>2, <2>1, <2>2, <2>3 DEF RightOn
    <2>4. CASE Untouched(b, i) /\ c.invoices[i].status # "paid"
      BY <1>2, <1>3, <1>4, <2>4 DEF RightOn
    <2> QED
      BY <1>5, <2>3, <2>4 DEF Carries
  <1>6. CASE i \notin DOMAIN b.invoices
    <2>1. Untouched(b, i)
      BY <1>6 DEF Untouched, Typed, TypedPayment
    <2>2. PaidOn(c, i) = 0
      BY <1>2, <1>3, <2>1
    <2>3. c.invoices[i].status = "paid" => c.invoices[i].amount = 0
      BY <1>6 DEF Carries
    <2> QED
      BY <1>4, <2>2, <2>3 DEF RightOn
  <1> QED
    BY <1>5, <1>6

LEMMA PaymentTyped ==
    ASSUME NEW b, Typed(b), NEW payment, TypedPayment(payment, DOMAIN b.invoices),
           NEW c, c = WithPayment(b, payment)
    PROVE  /\ Typed(c) /\ c.sub = b.sub
           /\ c.invoices = b.invoices /\ c.payments = Append(b.payments, payment)
  <1>1. /\ Shape(c)
        /\ c.operator = b.operator /\ c.sub = b.sub /\ c.addons = b.addons
        /\ c.invoices = b.invoices
    BY PaymentAdded DEF Typed
  <1>2. c.payments = Append(b.payments, payment) /\ IsSeq(b.payments)
    BY DEF Typed, Shape, WithPayment
  <1>3. \A k \in DOMAIN c.payments : TypedPayment(c.payments[k], DOMAIN c.invoices)
    BY <1>1, <1>2, Appended DEF Typed
  <1> QED
    BY <1>1, <1>2, <1>3 DEF Typed

LEMMA StatusTyped ==
    ASSUME NEW b, Typed(b), NEW i \in DOMAIN b.invoices, NEW s \in Open \union {"paid", "void"},
           NEW c, c = WithStatus(b, i, s)
    PROVE  /\ Typed(c) /\ c.sub = b.sub /\ c.payments = b.payments
           /\ DOMAIN c.invoices = DOMAIN b.invoices
           /\ \A j \in DOMAIN b.invoices \ {i} : c.invoices[j] = b.invoices[j]
           /\ SameTerms(b.invoices[i], c.invoices[i])
           /\ c.invoices[i].amount = b.invoices[i].amount /\ c.invoices[i].status = s
  <1>1. /\ Shape(c)
        /\ c.operator = b.operator /\ c.sub = b.sub /\ c.addons = b.addons
        /\ c.payments = b.payments
        /\ DOMAIN c.invoices = DOMAIN b.invoices
        /\ \A j \in DOMAIN b.invoices \ {i} : c.invoices[j] = b.invoices[j]
        /\ SameTerms(b.invoices[i], c.invoices[i]) /\ c.invoices[i].status = s
        /\ c.invoices[i].units = b.invoices[i].units
        /\ c.invoices[i].amount = b.invoices[i].amount
    BY StatusSet DEF Typed
  <1>2. c.invoices[i].due = b.invoices[i].due
    <2>1. Shape(b) /\ Row(b.invoices[i])
      BY DEF Typed, Shape
    <2>2. c.invoices[i] = [b.invoices[i] EXCEPT !.status = s]
      BY <2>1 DEF Shape, WithStatus
    <2> QED
      BY <2>1, <2>2 DEF Row
  <1>3. TypedRow(c.invoices[i])
    <2>1. TypedRow(b.invoices[i]) /\ Row(c.invoices[i])
      BY <1>1 DEF Typed, Shape
    <2> QED
      BY <1>1, <1>2, <2>1 DEF TypedRow, Invoice, SameTerms
  <1>4. \A j \in DOMAIN c.invoices : TypedRow(c.invoices[j])
    BY <1>1, <1>3 DEF Typed
  <1>5. Typed(c)
    BY <1>1, <1>4 DEF Typed
  <1> QED
    BY <1>1, <1>5

\* A request's row is one that a request still open, or cancelled, has.
LEMMA VoidCarries ==
    ASSUME NEW b, Typed(b), NEW i \in DOMAIN b.invoices, NEW c, c = WithStatus(b, i, "void")
    PROVE  Carries(b, c) /\ Firm(b, c)
  <1>1. /\ Typed(c) /\ c.payments = b.payments
        /\ DOMAIN c.invoices = DOMAIN b.invoices
        /\ \A j \in DOMAIN b.invoices \ {i} : c.invoices[j] = b.invoices[j]
        /\ SameTerms(b.invoices[i], c.invoices[i])
        /\ c.invoices[i].amount = b.invoices[i].amount /\ c.invoices[i].status = "void"
    BY StatusTyped
  <1> QED
    BY <1>1 DEF Carries, Firm, SameTerms

Payment(i, amount, key, report) ==
    [invoice |-> i, amount |-> amount, key |-> key, report |-> report]

\* What confirm_payment makes of the books: the payment is recorded, and the invoice that it
\* completes is paid and takes effect.
Records(b, inv, payment, c) ==
    LET paid == WithPayment(b, payment)
    IN IF PaidOn(paid, payment.invoice) >= inv.amount
       THEN c = Activated(WithStatus(paid, payment.invoice, "paid"), inv)
       ELSE c = paid

LEMMA RecordedPayment ==
    ASSUME NEW inv, NEW i, NEW amount, NEW key, NEW report
    PROVE  Records(Books, inv, Payment(i, amount, key, report),
                   PaymentRecorded(inv, i, amount, key, report))
  BY Zenon DEF Records, PaymentRecorded, Payment, WithPayment, WithStatus

LEMMA PaymentRecordedTyped ==
    ASSUME NEW b, Typed(b), NEW inv, TypedRow(inv),
           NEW payment, TypedPayment(payment, DOMAIN b.invoices), NEW c, Records(b, inv, payment, c)
    PROVE  /\ Typed(c) /\ c.payments = Append(b.payments, payment)
           /\ DOMAIN b.invoices \subseteq DOMAIN c.invoices
           /\ \A i \in DOMAIN b.invoices : c.invoices[i].kind = b.invoices[i].kind
           /\ inv.kind # "addon" => Firm(b, c)
  <1> DEFINE i == payment.invoice
  <1>1. PICK paid : paid = WithPayment(b, payment)
    OBVIOUS
  <1>2. PICK done : done = WithStatus(paid, i, "paid")
    OBVIOUS
  <1>3. /\ Typed(paid) /\ paid.invoices = b.invoices
        /\ paid.payments = Append(b.payments, payment)
    BY <1>1, PaymentTyped
  <1>4. i \in DOMAIN paid.invoices
    BY <1>3 DEF TypedPayment
  <1>5. /\ Typed(done) /\ done.payments = paid.payments
        /\ DOMAIN done.invoices = DOMAIN paid.invoices
        /\ \A j \in DOMAIN paid.invoices : /\ done.invoices[j].kind = paid.invoices[j].kind
                                           /\ done.invoices[j].amount = paid.invoices[j].amount
    BY <1>2, <1>3, <1>4, StatusTyped DEF SameTerms
  <1>6. CASE c = paid
    BY <1>3, <1>6 DEF Firm
  <1>7. CASE c = Activated(done, inv)
    <2>1. Carries(done, c) /\ (inv.kind # "addon" => Firm(done, c))
      BY <1>5, <1>7, ActivatedCarries
    <2>2. Firm(b, done)
      BY <1>3, <1>5 DEF Firm
    <2>3. inv.kind # "addon" => Firm(b, c)
      BY <2>1, <2>2, FirmOn
    <2> QED
      BY <1>3, <1>5, <2>1, <2>3 DEF Carries
  <1> QED
    BY <1>1, <1>2, <1>6, <1>7 DEF Records

LEMMA PaymentRecordedRight ==
    ASSUME NEW b, Typed(b), Right(b), NEW inv, TypedRow(inv),
           NEW payment, TypedPayment(payment, DOMAIN b.invoices), NEW c, Records(b, inv, payment, c),
           inv.amount = b.invoices[payment.invoice].amount,
           b.invoices[payment.invoice].status # "paid",
           payment.amount <= inv.amount - PaidOn(b, payment.invoice)
    PROVE  Right(c)
  <1> DEFINE i == payment.invoice
  <1>1. PICK paid : paid = WithPayment(b, payment)
    OBVIOUS
  <1>2. PICK done : done = WithStatus(paid, i, "paid")
    OBVIOUS
  <1>3. /\ Typed(paid) /\ paid.invoices = b.invoices
        /\ paid.payments = Append(b.payments, payment)
    BY <1>1, PaymentTyped
  <1>4. i \in DOMAIN paid.invoices
    BY <1>3 DEF TypedPayment
  <1>5. /\ Typed(done) /\ done.payments = paid.payments
        /\ DOMAIN done.invoices = DOMAIN paid.invoices
        /\ \A j \in DOMAIN paid.invoices \ {i} : done.invoices[j] = paid.invoices[j]
        /\ done.invoices[i].amount = paid.invoices[i].amount
    BY <1>2, <1>3, <1>4, StatusTyped
  <1>6. /\ IsSeq(b.payments) /\ \A k \in DOMAIN b.payments : b.payments[k].amount \in Int
        /\ payment.amount \in Int
    BY DEF Typed, Shape, TypedPayment
  <1>7. /\ PaidOn(paid, i) = PaidOn(b, i) + payment.amount
        /\ \A j : j # i => PaidOn(paid, j) = PaidOn(b, j)
    BY <1>3, <1>6, PaidWithPayment
  <1>8. PaidOn(b, i) \in Int /\ inv.amount \in Nat
    BY <1>6, PaidOnIsANumber DEF TypedRow, Invoice
  <1>9. PaidOn(paid, i) <= inv.amount /\ PaidOn(paid, i) \in Int
    BY <1>6, <1>7, <1>8
  <1>10. \A j \in DOMAIN paid.invoices \ {i} : RightOn(paid, j)
    BY <1>3, <1>7 DEF Right, RightOn
  <1>11. Right(paid)
    BY <1>3, <1>9, <1>10 DEF Right, RightOn
  <1>12. CASE c = paid
    BY <1>11, <1>12
  <1>13. CASE PaidOn(paid, i) >= inv.amount /\ c = Activated(done, inv)
    <2>1. \A j : PaidOn(done, j) = PaidOn(paid, j)
      BY <1>5, PaidOnSamePayments
    <2>2. PaidOn(paid, i) = inv.amount
      BY <1>8, <1>9, <1>13
    <2>3. RightOn(done, i)
      BY <1>3, <1>5, <1>8, <2>1, <2>2 DEF RightOn
    <2>4. \A j \in DOMAIN done.invoices \ {i} : RightOn(done, j)
      BY <1>5, <1>10, <2>1 DEF RightOn
    <2>5. Right(done)
      BY <2>3, <2>4 DEF Right
    <2>6. Carries(done, c)
      BY <1>5, <1>13, ActivatedCarries
    <2> QED
      BY <1>5, <2>5, <2>6, CarriesRight
  <1> QED
    BY <1>1, <1>2, <1>12, <1>13 DEF Records
-----------------------------------------------------------------------------
(* Keys and reports count once *)

KeyedOnce(rows) ==
    \A j, k \in DOMAIN rows : rows[j].key = rows[k].key /\ rows[j].key # NoKey => j = k

\* Payments of reports: one of each report that was accepted.
ReportedOnce(rows, told) ==
    /\ \A k \in DOMAIN rows : rows[k].report # 0 =>
          rows[k].report \in DOMAIN told /\ told[rows[k].report].status = "accepted"
    /\ \A j, k \in DOMAIN rows : rows[j].report = rows[k].report /\ rows[j].report # 0 => j = k
    /\ \A r \in DOMAIN told : told[r].status = "accepted" =>
          \E k \in DOMAIN rows : rows[k].report = r

LEMMA PaymentKeyed ==
    ASSUME NEW rows, IsSeq(rows), KeyedOnce(rows), NEW payment,
           payment.key = NoKey \/ \A k \in DOMAIN rows : rows[k].key # payment.key
    PROVE  KeyedOnce(Append(rows, payment))
  BY Appended DEF KeyedOnce

LEMMA PaymentOfNoReport ==
    ASSUME NEW rows, IsSeq(rows), NEW told, ReportedOnce(rows, told), NEW payment,
           payment.report = 0
    PROVE  ReportedOnce(Append(rows, payment), told)
  BY Appended DEF ReportedOnce

LEMMA PaymentOfReport ==
    ASSUME NEW rows, IsSeq(rows), NEW told, ReportedOnce(rows, told), NEW payment,
           payment.report \in DOMAIN told, payment.report # 0,
           told[payment.report].status # "accepted",
           DOMAIN told[payment.report] = {"invoice", "amount", "status"},
           NEW new, new = [told EXCEPT ![payment.report].status = "accepted"]
    PROVE  ReportedOnce(Append(rows, payment), new)
  <1> DEFINE r == payment.report
             n == Len(rows) + 1
             more == Append(rows, payment)
  <1>1. /\ DOMAIN more = DOMAIN rows \union {n} /\ n \notin DOMAIN rows
        /\ \A k \in DOMAIN rows : more[k] = rows[k]
        /\ more[n] = payment
    BY Appended
  <1>2. /\ DOMAIN new = DOMAIN told /\ new[r].status = "accepted"
        /\ \A s \in DOMAIN told \ {r} : new[s] = told[s]
    OBVIOUS
  <1>3. \A k \in DOMAIN rows : rows[k].report # r
    BY DEF ReportedOnce
  <1> HIDE DEF n, more
  <1> QED
    BY <1>1, <1>2, <1>3 DEF ReportedOnce, more

LEMMA ReportTold ==
    ASSUME NEW rows, NEW told, IsSeq(told), ReportedOnce(rows, told), NEW report,
           report.status # "accepted"
    PROVE  ReportedOnce(rows, Append(told, report))
  BY Appended DEF ReportedOnce

LEMMA ReportRejected ==
    ASSUME NEW rows, NEW told, ReportedOnce(rows, told), NEW r \in DOMAIN told,
           told[r].status # "accepted", DOMAIN told[r] = {"invoice", "amount", "status"},
           NEW new, new = [told EXCEPT ![r].status = "rejected"]
    PROVE  ReportedOnce(rows, new)
  <1>1. /\ DOMAIN new = DOMAIN told /\ new[r].status = "rejected"
        /\ \A s \in DOMAIN told \ {r} : new[s] = told[s]
    OBVIOUS
  <1> QED
    BY <1>1 DEF ReportedOnce

LEMMA ReportsCounted ==
    ASSUME NEW rows, NEW told, IsSeq(told), ReportedOnce(rows, told), NEW r \in DOMAIN told
    PROVE  Cardinality({k \in DOMAIN rows : rows[k].report = r})
               = IF told[r].status = "accepted" THEN 1 ELSE 0
  <1> DEFINE K == {k \in DOMAIN rows : rows[k].report = r}
  <1>1. r # 0
    <2>1. PICK S : told \in Seq(S)
      BY DEF IsSeq
    <2> QED
      BY <2>1
  <1>2. CASE told[r].status = "accepted"
    <2>1. PICK k \in DOMAIN rows : rows[k].report = r
      BY <1>2 DEF ReportedOnce
    <2>2. K = {k}
      BY <1>1, <2>1 DEF ReportedOnce
    <2> HIDE DEF K
    <2>3. Cardinality(K) = 1
      BY <2>2, FS_Singleton
    <2> QED
      BY <1>2, <2>3 DEF K
  <1>3. CASE told[r].status # "accepted"
    <2>1. K = {}
      BY <1>1, <1>3 DEF ReportedOnce
    <2> HIDE DEF K
    <2>2. Cardinality(K) = 0
      BY <2>1, FS_EmptySet
    <2> QED
      BY <1>3, <2>2 DEF K
  <1> QED
    BY <1>2, <1>3
-----------------------------------------------------------------------------
(* The invariant of the money: what a request has loaded is what its invoice still asks for, *)
(* when nothing can change that meanwhile.                                                    *)

TaskRight(t) ==
    \/ t = Idle
    \/ /\ "overlap" \in desk
       /\ t.op \in {"confirm", "cancel"} /\ t.invoice \in DOMAIN invoices
       /\ t.amount \in Int /\ t.key \in Nat /\ TypedRow(t.inv)
       /\ t.inv.kind = invoices[t.invoice].kind
       /\ AmountsStay => /\ t.inv.amount = invoices[t.invoice].amount
                         /\ t.op = "confirm" => t.amount > 0

TasksRight ==
    /\ tasks = [p \in Procs |-> tasks[p]]
    /\ \A p \in Procs : TaskRight(tasks[p])

WorldRight ==
    /\ \E c \in Cases : desk = c.desk
    /\ UsageTyped /\ seats \in 0..MaxUsage /\ storage \in 0..MaxUsage

ReportRight(report, ids) == OnInvoices(report, ids) /\ report.amount \in Int
ReportsRight(told, ids) == IsSeq(told) /\ \A k \in DOMAIN told : ReportRight(told[k], ids)

Firmly == AmountsStay /\ "overlap" \in desk
NoAddons(b) == \A i \in DOMAIN b.invoices : b.invoices[i].kind # "addon"

MInv ==
    /\ WorldRight /\ Typed(Books) /\ TasksRight
    /\ ReportsRight(reports, DOMAIN invoices)
    /\ KeyedOnce(payments) /\ ReportedOnce(payments, reports)
    /\ AmountsStay => Right(Books)
    /\ Firmly => NoAddons(Books)

\* A step of one operator: its operations stay the same, and the requests that overlap either
\* wait or end.
Steady ==
    /\ desk' = desk
    /\ tasks' = [p \in Procs |-> tasks'[p]]
    /\ \A p \in Procs : tasks'[p] = tasks[p] \/ tasks'[p] = Idle

LEMMA BooksTyped ==
    ASSUME NEW b, Typed(b), Become(b)
    PROVE  Books' = b
  BY BooksBecome DEF Typed

LEMMA MoneyStep ==
    ASSUME MInv, WorldRight', Steady,
           NEW b, Become(b), Typed(b), DOMAIN invoices \subseteq DOMAIN b.invoices,
           \A i \in DOMAIN invoices : b.invoices[i].kind = invoices[i].kind,
           AmountsStay => Right(b), Firmly => Firm(Books, b),
           ReportsRight(reports', DOMAIN invoices),
           KeyedOnce(b.payments), ReportedOnce(b.payments, reports')
    PROVE  MInv'
  <1>1. Books' = b /\ Typed(Books')
    BY BooksTyped
  <1>2. invoices' = b.invoices /\ payments' = b.payments
    BY DEF Become
  <1>3. ReportsRight(reports, DOMAIN invoices)'
    BY <1>2 DEF ReportsRight, ReportRight, OnInvoices
  <1>4. KeyedOnce(payments)' /\ ReportedOnce(payments, reports)'
    BY <1>2
  <1>5. (AmountsStay' <=> AmountsStay) /\ (Firmly' <=> Firmly)
    BY DEF Steady, AmountsStay, Firmly
  <1>6. ASSUME Firmly
        PROVE  NoAddons(b)
    <2>1. Firm(Books, b) /\ NoAddons(Books)
      BY <1>6 DEF MInv
    <2> QED
      BY <2>1 DEF Firm, NoAddons
  <1>7. AmountsStay' => Right(Books')
    BY <1>1, <1>5
  <1>8. Firmly' => NoAddons(Books')
    BY <1>1, <1>5, <1>6
  <1>9. ASSUME NEW p \in Procs
        PROVE  TaskRight(tasks[p])'
    <2>1. CASE tasks'[p] = Idle
      BY <2>1 DEF TaskRight, Idle
    <2>2. CASE tasks'[p] # Idle
      <3>1. tasks'[p] = tasks[p] /\ TaskRight(tasks[p]) /\ tasks[p] # Idle
        BY <2>2 DEF Steady, MInv, TasksRight
      <3> DEFINE t == tasks[p]
      <3>2. /\ "overlap" \in desk
            /\ t.op \in {"confirm", "cancel"} /\ t.invoice \in DOMAIN invoices
            /\ t.amount \in Int /\ t.key \in Nat /\ TypedRow(t.inv)
            /\ t.inv.kind = invoices[t.invoice].kind
            /\ AmountsStay => /\ t.inv.amount = invoices[t.invoice].amount
                              /\ t.op = "confirm" => t.amount > 0
        BY <3>1 DEF TaskRight
      <3>3. AmountsStay => invoices'[t.invoice].amount = invoices[t.invoice].amount
        <4>1. AmountsStay => Firm(Books, b)
          BY <3>2 DEF Firmly
        <4>2. Books.invoices = invoices
          BY DEF Books
        <4> QED
          BY <1>2, <3>2, <4>1, <4>2 DEF Firm
      <3>4. t.invoice \in DOMAIN invoices' /\ invoices'[t.invoice].kind = invoices[t.invoice].kind
        BY <1>2, <3>2
      <3>5. desk' = desk
        BY DEF Steady
      <3> HIDE DEF t
      <3>6. /\ "overlap" \in desk'
            /\ t.op \in {"confirm", "cancel"} /\ t.invoice \in DOMAIN invoices'
            /\ t.amount \in Int /\ t.key \in Nat /\ TypedRow(t.inv)
            /\ t.inv.kind = invoices'[t.invoice].kind
            /\ AmountsStay' => /\ t.inv.amount = invoices'[t.invoice].amount
                               /\ t.op = "confirm" => t.amount > 0
        BY <1>5, <3>2, <3>3, <3>4, <3>5
      <3>7. tasks'[p] = t
        BY <3>1 DEF t
      <3> QED
        BY <3>6, <3>7 DEF TaskRight
    <2> QED
      BY <2>1, <2>2
  <1>10. TasksRight'
    BY <1>9 DEF Steady, TasksRight
  <1> QED
    BY <1>1, <1>3, <1>4, <1>7, <1>8, <1>10 DEF MInv

\* A step that confirms no payment.
LEMMA CarriedStep ==
    ASSUME MInv, WorldRight', Steady, reports' = reports,
           NEW b, Become(b), Carries(Books, b), Firmly => Firm(Books, b)
    PROVE  MInv'
  <1>1. Books.invoices = invoices /\ Books.payments = payments
    BY DEF Books
  <1>2. /\ Typed(b) /\ b.payments = payments /\ DOMAIN invoices \subseteq DOMAIN b.invoices
        /\ \A i \in DOMAIN invoices : b.invoices[i].kind = invoices[i].kind
    BY <1>1 DEF Carries
  <1>3. AmountsStay => Right(b)
    BY CarriesRight DEF MInv
  <1>4. /\ ReportsRight(reports', DOMAIN invoices)
        /\ KeyedOnce(b.payments) /\ ReportedOnce(b.payments, reports')
    BY <1>2 DEF MInv
  <1> QED
    BY <1>2, <1>3, <1>4, MoneyStep

\* A payment by the row that its request has loaded.
LEMMA PaidStep ==
    ASSUME MInv, WorldRight', Steady,
           NEW i \in DOMAIN invoices, NEW inv, TypedRow(inv), inv.kind = invoices[i].kind,
           NEW amount \in Int, NEW key \in Nat, NEW report \in Nat,
           Become(PaymentRecorded(inv, i, amount, key, report)),
           amount <= inv.amount - PaidOn(Books, i),
           AmountsStay => inv.amount = invoices[i].amount /\ invoices[i].status # "paid",
           key = NoKey \/ ~KeyUsed(key),
           ReportsRight(reports', DOMAIN invoices),
           ReportedOnce(Append(payments, Payment(i, amount, key, report)), reports')
    PROVE  MInv'
  <1> DEFINE payment == Payment(i, amount, key, report)
  <1>1. Books.invoices = invoices /\ Books.payments = payments
    BY DEF Books
  <1>2. PICK b : b = PaymentRecorded(inv, i, amount, key, report)
    OBVIOUS
  <1>3. Records(Books, inv, payment, b)
    BY <1>2, RecordedPayment
  <1>4. /\ payment.invoice = i /\ payment.amount = amount /\ payment.key = key
        /\ payment.report = report
    BY DEF Payment
  <1> HIDE DEF payment
  <1>5. TypedPayment(payment, DOMAIN Books.invoices) /\ Typed(Books)
    BY <1>1, <1>4 DEF TypedPayment, MInv
  <1>6. /\ Typed(b) /\ b.payments = Append(payments, payment)
        /\ DOMAIN invoices \subseteq DOMAIN b.invoices
        /\ \A j \in DOMAIN invoices : b.invoices[j].kind = invoices[j].kind
        /\ inv.kind # "addon" => Firm(Books, b)
    <2> DEFINE a == Books
    <2>1. /\ Typed(a) /\ TypedPayment(payment, DOMAIN a.invoices) /\ Records(a, inv, payment, b)
          /\ a.invoices = invoices /\ a.payments = payments
      BY <1>1, <1>3, <1>5
    <2> HIDE DEF a
    <2>2. /\ Typed(b) /\ b.payments = Append(a.payments, payment)
          /\ DOMAIN a.invoices \subseteq DOMAIN b.invoices
          /\ \A j \in DOMAIN a.invoices : b.invoices[j].kind = a.invoices[j].kind
          /\ inv.kind # "addon" => Firm(a, b)
      BY <2>1, PaymentRecordedTyped
    <2>3. inv.kind # "addon" => Firm(Books, b)
      BY <2>2 DEF a
    <2> QED
      BY <2>1, <2>2, <2>3, Zenon
  <1>7. Firmly => Firm(Books, b)
    <2>1. Firmly => inv.kind # "addon"
      BY <1>1 DEF MInv, NoAddons
    <2> QED
      BY <1>6, <2>1
  <1>8. AmountsStay => Right(b)
    <2> SUFFICES ASSUME AmountsStay
                 PROVE  Right(b)
      OBVIOUS
    <2>1. Right(Books)
      BY DEF MInv
    <2>2. /\ inv.amount = Books.invoices[payment.invoice].amount
          /\ Books.invoices[payment.invoice].status # "paid"
          /\ payment.amount <= inv.amount - PaidOn(Books, payment.invoice)
      BY <1>1, <1>4
    <2> QED
      BY <1>3, <1>5, <2>1, <2>2, PaymentRecordedRight
  <1>9. KeyedOnce(b.payments)
    <2>1. IsSeq(payments)
      BY <1>1, <1>5 DEF Typed, Shape
    <2>2. KeyedOnce(payments)
      BY DEF MInv
    <2>3. payment.key = NoKey \/ \A k \in DOMAIN payments : payments[k].key # payment.key
      BY <1>4 DEF KeyUsed
    <2> QED
      BY <1>6, <2>1, <2>2, <2>3, PaymentKeyed
  <1>10. ReportedOnce(b.payments, reports')
    BY <1>6 DEF payment
  <1>11. Become(b)
    BY <1>2
  <1> QED
    BY <1>6, <1>7, <1>8, <1>9, <1>10, <1>11, MoneyStep
-----------------------------------------------------------------------------
(* Each handler keeps it *)

LEMMA WorldKept ==
    ASSUME WorldRight, UNCHANGED world
    PROVE  WorldRight'
  BY DEF WorldRight, UsageTyped, world

LEMMA WorldTyped ==
    ASSUME WorldRight
    PROVE  /\ today \in Nat /\ desk \subseteq Operations /\ MaxUsage \in Nat
           /\ LastDay \in Nat /\ today \in 0..LastDay
  BY Calendar, Uses, Bounds DEF WorldRight, UsageTyped, Days

\* A handler's step: the world, the reports and the requests that overlap stay.
LEMMA HandlerStep ==
    ASSUME MInv, UNCHANGED <<world, reports, tasks>>,
           NEW b, Become(b), Carries(Books, b), Firmly => Firm(Books, b)
    PROVE  MInv'
  <1>1. WorldRight' /\ reports' = reports
    BY WorldKept DEF MInv
  <1>2. Steady
    BY DEF Steady, MInv, TasksRight, world
  <1> QED
    BY <1>1, <1>2, CarriedStep

LEMMA SchedulePlanRight ==
    ASSUME MInv, NEW terms \in Terms, NEW cycle \in Cycles, SchedulePlan(terms, cycle)
    PROVE  MInv'
  <1> DEFINE change == [terms |-> terms, cycle |-> cycle]
  <1>1. PICK b : b = Books
    OBVIOUS
  <1>2. PICK c : c = [b EXCEPT !.sub.scheduled = change]
    OBVIOUS
  <1>3. change.terms \in Terms /\ change.cycle \in Cycles
    OBVIOUS
  <1>4. Typed(b)
    BY <1>1 DEF MInv
  <1> HIDE DEF change
  <1>5. Carries(b, c) /\ Firm(b, c)
    BY <1>2, <1>3, <1>4, ChangeCarries
  <1>6. /\ c.operator = operator /\ c.sub = [sub EXCEPT !.scheduled = change]
        /\ c.addons = addons /\ c.invoices = invoices /\ c.payments = payments
    BY <1>1, <1>2 DEF Books
  <1>7. Become(c) /\ UNCHANGED <<world, reports, tasks>>
    BY <1>6 DEF SchedulePlan, Become, change
  <1> QED
    BY <1>1, <1>5, <1>7, HandlerStep

LEMMA PeriodIsTyped ==
    ASSUME NEW start \in Nat, NEW cycle
    PROVE  PeriodEnd(start, cycle) \in Nat /\ start <= PeriodEnd(start, cycle)
  <1>1. PeriodEnd(start, cycle) \in Int /\ start <= PeriodEnd(start, cycle)
    BY PeriodIsLong
  <1> QED
    BY <1>1

LEMMA PlanInvoiceTyped ==
    ASSUME TypedSub(sub), today \in Nat, NEW terms \in Terms, NEW cycle \in Cycles,
           NEW inv, inv = PlanInvoice(terms, cycle)
    PROVE  /\ TypedRow(inv) /\ inv.kind \in {"plan", "upgrade"} /\ inv.status = "issued"
           /\ \/ inv.kind = "upgrade" /\ Paid /\ inv.start = sub.start /\ inv.end = sub.end
              \/ inv.kind = "plan"
  <1> DEFINE difference == Max({BasePrice(terms, cycle) - BasePrice(sub.terms, cycle), 0})
             left == sub.end - today + 1
             length == sub.end - sub.start + 1
             owed == difference * left
  <1>1. BasePrice(terms, cycle) \in Nat /\ terms.setup \in Nat
    BY PriceIsANumber DEF Terms
  <1>2. PICK kind, start, end, amount :
           /\ inv = [NewInvoice(kind, start, end, today, amount)
                     EXCEPT !.terms = terms, !.cycle = cycle]
           /\ \/ /\ kind = "upgrade" /\ Paid /\ today <= sub.end
                 /\ start = sub.start /\ end = sub.end /\ amount = Rounded(owed, length)
              \/ /\ kind = "plan" /\ start = today /\ end = PeriodEnd(today, cycle)
                 /\ amount = BasePrice(terms, cycle) + (IF Paid THEN 0 ELSE terms.setup)
    <2>1. CASE Paid /\ today <= sub.end
      BY <2>1 DEF PlanInvoice
    <2>2. CASE ~(Paid /\ today <= sub.end)
      BY <2>2 DEF PlanInvoice
    <2> QED
      BY <2>1, <2>2
  <1>3. start \in Nat /\ end \in Nat /\ start <= end /\ amount \in Nat
    <2>1. CASE kind = "upgrade"
      <3>0. /\ start = sub.start /\ end = sub.end /\ amount = Rounded(owed, length)
            /\ sub.start \in Nat /\ sub.end \in Nat /\ sub.start <= sub.end
            /\ sub.terms \in Terms /\ today <= sub.end
        BY <1>2, <2>1 DEF TypedSub, Paid
      <3>1. difference \in Nat
        <4>1. BasePrice(sub.terms, cycle) \in Nat
          BY <3>0, PriceIsANumber
        <4> DEFINE more == BasePrice(terms, cycle) - BasePrice(sub.terms, cycle)
        <4>2. more \in Int
          BY <1>1, <4>1
        <4> HIDE DEF more
        <4>3. Max({more, 0}) \in Nat
          BY <4>2, LargerOfTwo
        <4> QED
          BY <4>3 DEF more
      <3>2. left \in Nat /\ length \in Nat \ {0}
        BY <3>0
      <3> HIDE DEF difference, left, length
      <3>3. owed \in Nat
        BY <3>1, <3>2
      <3> HIDE DEF owed
      <3> QED
        BY <3>0, <3>2, <3>3, RoundedIsANumber
    <2>2. CASE kind = "plan"
      BY <1>1, <1>2, <2>2, PeriodIsTyped
    <2> QED
      BY <1>2, <2>1, <2>2
  <1> HIDE DEF owed, length
  <1>4. /\ DOMAIN inv = {"kind", "start", "end", "due", "amount", "status", "terms", "cycle", "units"}
        /\ inv.kind = kind /\ inv.start = start /\ inv.end = end /\ inv.due = today
        /\ inv.amount = amount /\ inv.status = "issued" /\ inv.terms = terms
        /\ inv.cycle = cycle /\ inv.units = NoUnits
    BY <1>2 DEF NewInvoice
  <1>5. NoUnits \in Units
    BY Bounds DEF NoUnits, Units
  <1>6. Row(inv)
    BY <1>2, <1>3, <1>4 DEF Row, InvoiceKinds, Open
  <1>7. Invoice(inv)
    BY <1>2, <1>3, <1>4, <1>5 DEF Invoice, InvoiceKinds, Open
  <1> QED
    BY <1>2, <1>3, <1>4, <1>6, <1>7 DEF TypedRow

LEMMA PaidRowTyped ==
    ASSUME NEW inv, TypedRow(inv), NEW new, new = [inv EXCEPT !.status = "paid"]
    PROVE  /\ TypedRow(new) /\ SameTerms(inv, new)
           /\ new.status = "paid" /\ new.amount = inv.amount
  BY DEF TypedRow, Row, Invoice, SameTerms

LEMMA InvoicePlanRight ==
    ASSUME MInv, NEW terms \in Terms, NEW cycle \in Cycles, NEW custom,
           InvoicePlan(terms, cycle, custom)
    PROVE  MInv'
  <1>1. PICK inv : inv = PlanInvoice(terms, cycle)
    OBVIOUS
  <1>2. PICK b : b = Books
    OBVIOUS
  <1>3. PICK bought : bought = [inv EXCEPT !.status = "paid"]
    OBVIOUS
  <1>4. PICK free : free = Issued(b, bought)
    OBVIOUS
  <1>5. /\ Become(IF inv.amount = 0 THEN Activated(free, inv) ELSE Issued(b, inv))
        /\ UNCHANGED <<world, reports, tasks>>
    BY <1>1, <1>2, <1>3, <1>4 DEF InvoicePlan
  <1>6. Typed(b) /\ TypedSub(sub) /\ today \in Nat
    BY <1>2, WorldTyped DEF MInv, Typed, Books
  <1>7. /\ TypedRow(inv) /\ inv.kind \in {"plan", "upgrade"} /\ inv.status = "issued"
    BY <1>1, <1>6, PlanInvoiceTyped
  <1>8. /\ TypedRow(bought) /\ bought.kind # "addon" /\ bought.amount = inv.amount
    BY <1>3, <1>7, PaidRowTyped DEF SameTerms
  <1>9. Carries(b, Issued(b, inv)) /\ Firm(b, Issued(b, inv))
    BY <1>6, <1>7, IssuedCarries
  <1>10. ASSUME inv.amount = 0
         PROVE  Carries(b, Activated(free, inv)) /\ Firm(b, Activated(free, inv))
    <2>1. Carries(b, free) /\ Firm(b, free)
      BY <1>4, <1>6, <1>8, <1>10, IssuedCarries
    <2>2. Typed(free) /\ inv.kind # "addon"
      BY <1>7, <2>1 DEF Carries
    <2>3. Carries(free, Activated(free, inv)) /\ Firm(free, Activated(free, inv))
      BY <1>7, <2>2, ActivatedCarries
    <2> QED
      BY <2>1, <2>3, CarriesOn, FirmOn
  <1>11. CASE inv.amount = 0
    <2>1. Become(Activated(free, inv))
      BY <1>5, <1>11
    <2> QED
      BY <1>2, <1>5, <1>10, <1>11, <2>1, HandlerStep
  <1>12. CASE inv.amount # 0
    <2>1. Become(Issued(b, inv))
      BY <1>5, <1>12
    <2> QED
      BY <1>2, <1>5, <1>9, <2>1, HandlerStep
  <1> QED
    BY <1>11, <1>12

LEMMA RequestAddonRight ==
    ASSUME MInv, NEW m \in Modules, NEW quantity \in 1..MaxUnits, RequestAddon(m, quantity)
    PROVE  MInv'
  <1> DEFINE old == IF InForce(addons[m]) THEN addons[m].quantity ELSE 0
             price == AddonPrices[m] * (quantity - old) * MonthsOf(sub.cycle)
             left == sub.end - today + 1
             length == sub.end - sub.start + 1
             owed == price * left
             amount == Rounded(owed, length)
             units == [NoUnits EXCEPT ![m] = quantity]
             inv == AddonInvoice(m, quantity, old)
  <1>1. PICK b : b = Books
    OBVIOUS
  <1>2. /\ Become(Issued(b, inv)) /\ UNCHANGED <<world, reports, tasks>>
        /\ "addon" \in desk /\ Paid /\ today <= sub.end /\ quantity > old
    BY <1>1 DEF RequestAddon
  <1>3. /\ Typed(b) /\ today \in Nat /\ addons[m] \in Addon
        /\ sub.start \in Nat /\ sub.end \in Nat /\ sub.start <= sub.end
    BY <1>1, <1>2, WorldTyped DEF MInv, Typed, TypedSub, Books, Paid
  <1>4. amount \in Nat
    <2>1. quantity - old \in Nat /\ AddonPrices[m] \in Nat /\ MonthsOf(sub.cycle) \in Nat
      BY <1>2, <1>3, Amounts, MonthsAreCounted DEF Addon
    <2>2. AddonPrices[m] * (quantity - old) \in Nat
      <3> DEFINE more == quantity - old
      <3>1. more \in Nat
        BY <2>1
      <3> HIDE DEF more, old
      <3>2. AddonPrices[m] * more \in Nat
        BY <2>1, <3>1
      <3> QED
        BY <3>2 DEF more
    <2>3. price \in Nat
      <3> DEFINE each == AddonPrices[m] * (quantity - old)
      <3>1. each \in Nat
        BY <2>2
      <3> HIDE DEF each, old
      <3>2. each * MonthsOf(sub.cycle) \in Nat
        BY <2>1, <3>1
      <3> QED
        BY <3>2 DEF each
    <2>4. left \in Nat /\ length \in Nat \ {0}
      BY <1>2, <1>3
    <2> HIDE DEF price, left, length
    <2>5. owed \in Nat
      BY <2>3, <2>4
    <2> HIDE DEF owed
    <2> QED
      BY <2>4, <2>5, RoundedIsANumber
  <1>5. inv = [NewInvoice("addon", today, sub.end, today, amount) EXCEPT !.units = units]
    BY DEF AddonInvoice
  <1>6. units \in Units
    <2>1. NoUnits \in Units /\ quantity \in 0..MaxUnits
      BY Bounds DEF NoUnits, Units
    <2> QED
      BY <2>1 DEF Units
  <1> HIDE DEF amount, units, inv
  <1>7. /\ DOMAIN inv = {"kind", "start", "end", "due", "amount", "status", "terms", "cycle", "units"}
        /\ inv.kind = "addon" /\ inv.start = today /\ inv.end = sub.end /\ inv.due = today
        /\ inv.amount = amount /\ inv.status = "issued" /\ inv.terms = NoTerms
        /\ inv.cycle = "monthly" /\ inv.units = units
    BY <1>5 DEF NewInvoice
  <1>8. Row(inv)
    BY <1>7 DEF Row, InvoiceKinds, Open
  <1>9. Invoice(inv)
    BY <1>3, <1>4, <1>6, <1>7 DEF Invoice, InvoiceKinds, Open, Cycles
  <1>10. TypedRow(inv) /\ inv.status # "paid"
    BY <1>2, <1>7, <1>8, <1>9 DEF TypedRow
  <1>11. Carries(b, Issued(b, inv))
    BY <1>3, <1>10, IssuedCarries
  <1>12. ~Firmly
    BY <1>2 DEF Firmly, AmountsStay
  <1> QED
    BY <1>1, <1>2, <1>11, <1>12, HandlerStep

LEMMA ManualInvoiceRight ==
    ASSUME MInv, NEW amount \in Parts, ManualInvoice(amount)
    PROVE  MInv'
  <1>1. PICK inv : inv = NewInvoice("manual", today, today, today, amount)
    OBVIOUS
  <1>2. PICK b : b = Books
    OBVIOUS
  <1>3. Become(Issued(b, inv)) /\ UNCHANGED <<world, reports, tasks>>
    BY <1>1, <1>2 DEF ManualInvoice
  <1>4. Typed(b) /\ today \in Nat /\ amount \in Nat
    BY <1>2, WorldTyped, Amounts DEF MInv
  <1>5. /\ DOMAIN inv = {"kind", "start", "end", "due", "amount", "status", "terms", "cycle", "units"}
        /\ inv.kind = "manual" /\ inv.start = today /\ inv.end = today /\ inv.due = today
        /\ inv.amount = amount /\ inv.status = "issued" /\ inv.terms = NoTerms
        /\ inv.cycle = "monthly" /\ inv.units = NoUnits
    BY <1>1 DEF NewInvoice
  <1>6. NoUnits \in Units
    BY Bounds DEF NoUnits, Units
  <1>7. Row(inv)
    BY <1>5 DEF Row, InvoiceKinds, Open
  <1>8. Invoice(inv)
    BY <1>4, <1>5, <1>6 DEF Invoice, InvoiceKinds, Open, Cycles
  <1>9. TypedRow(inv)
    BY <1>4, <1>5, <1>7, <1>8 DEF TypedRow
  <1>10. Carries(b, Issued(b, inv)) /\ Firm(b, Issued(b, inv))
    BY <1>4, <1>5, <1>9, IssuedCarries
  <1> QED
    BY <1>2, <1>3, <1>10, HandlerStep

LEMMA ScheduleAddonRenewalRight ==
    ASSUME MInv, NEW m \in Modules, NEW units, ScheduleAddonRenewal(m, units)
    PROVE  MInv'
  <1> DEFINE keep == IF units = addons[m].quantity THEN AsBefore ELSE units
  <1>1. PICK b : b = Books
    OBVIOUS
  <1>2. PICK renewals : renewals = UpcomingRenewals(b)
    OBVIOUS
  <1>3. PICK c : c = [b EXCEPT !.addons[m].renews = keep]
    OBVIOUS
  <1>4. /\ Become(Repriced(c, renewals)) /\ UNCHANGED <<world, reports, tasks>>
        /\ "renewal_units" \in desk
        /\ units \in 0..addons[m].quantity \union {AsBefore}
        /\ \A i \in renewals : invoices[i].status \in Open /\ Untouched(b, i)
    BY <1>1, <1>2, <1>3 DEF ScheduleAddonRenewal
  <1>5. Typed(b) /\ Shape(b) /\ b.invoices = invoices /\ b.addons = addons
    BY <1>1 DEF MInv, Typed, Books
  <1>6. keep \in 0..MaxUnits \union {AsBefore}
    <2>1. addons[m].quantity \in 0..MaxUnits
      BY <1>5 DEF Typed, Addon
    <2> QED
      BY <1>4, <2>1, Bounds
  <1> HIDE DEF keep
  <1>7. /\ c.sub = b.sub /\ c.invoices = b.invoices /\ c.payments = b.payments
        /\ c.operator = b.operator
        /\ c.addons = [b.addons EXCEPT ![m] = [b.addons[m] EXCEPT !.renews = keep]]
        /\ c = [operator |-> c.operator, sub |-> c.sub, addons |-> c.addons,
                invoices |-> c.invoices, payments |-> c.payments]
    BY <1>3, <1>5 DEF Shape
  <1>8. ASSUME NEW n \in Modules
        PROVE  /\ c.addons[n] \in Addon
               /\ DOMAIN c.addons[n] = {"active", "quantity", "through", "renews"}
    <2>1. b.addons[n] \in Addon
      BY <1>5 DEF Typed
    <2>2. c.addons[n] = b.addons[n] \/ c.addons[n] = [b.addons[n] EXCEPT !.renews = keep]
      BY <1>5, <1>7 DEF Shape
    <2> QED
      BY <1>6, <2>1, <2>2 DEF Addon
  <1>9. Shape(c)
    BY <1>5, <1>7, <1>8 DEF Shape
  <1>10. Carries(b, c)
    BY <1>5, <1>7, <1>8, <1>9, RowsCarried DEF Typed
  <1>11. \A i \in renewals \intersect DOMAIN c.invoices :
            /\ c.invoices[i].kind = "renewal" /\ c.invoices[i].status \in Open
            /\ Untouched(c, i)
    BY <1>2, <1>4, <1>5, <1>7 DEF UpcomingRenewals, Untouched
  <1>12. Carries(c, Repriced(c, renewals))
    BY <1>10, <1>11, RepricedCarries DEF Carries
  <1>13. Carries(b, Repriced(c, renewals))
    BY <1>10, <1>12, CarriesOn
  <1>14. ~Firmly
    BY <1>4 DEF Firmly, AmountsStay
  <1> QED
    BY <1>1, <1>4, <1>13, <1>14, HandlerStep

LEMMA CancelInvoiceRight ==
    ASSUME MInv, NEW i \in DOMAIN invoices, CancelInvoice(i)
    PROVE  MInv'
  <1>1. PICK b : b = Books
    OBVIOUS
  <1>2. PICK c : c = WithStatus(b, i, "void")
    OBVIOUS
  <1>3. Typed(b) /\ i \in DOMAIN b.invoices
    BY <1>1 DEF MInv, Books
  <1>4. Carries(b, c) /\ Firm(b, c)
    BY <1>2, <1>3, VoidCarries
  <1>5. /\ c.operator = operator /\ c.sub = sub /\ c.addons = addons
        /\ c.invoices = [invoices EXCEPT ![i].status = "void"] /\ c.payments = payments
    BY <1>1, <1>2 DEF Books, WithStatus
  <1>6. Become(c) /\ UNCHANGED <<world, reports, tasks>>
    BY <1>5 DEF CancelInvoice, Become
  <1> QED
    BY <1>1, <1>4, <1>6, HandlerStep

LEMMA StatusRight ==
    ASSUME MInv, Hold \/ ReleaseHold \/ Suspend \/ ActivateOperator
    PROVE  MInv'
  <1>1. PICK status \in {"trial", "active", "hold", "suspended"} :
           operator' = status /\ UNCHANGED <<world, billing, reports, tasks>>
    BY DEF Hold, ReleaseHold, Suspend, ActivateOperator
  <1>2. PICK b : b = Books
    OBVIOUS
  <1>3. PICK c : c = [b EXCEPT !.operator = status]
    OBVIOUS
  <1>4. Typed(b) /\ Shape(b)
    BY <1>2 DEF MInv, Typed
  <1>5. /\ c.operator = status /\ c.sub = b.sub /\ c.addons = b.addons
        /\ c.invoices = b.invoices /\ c.payments = b.payments
        /\ c = [operator |-> c.operator, sub |-> c.sub, addons |-> c.addons,
                invoices |-> c.invoices, payments |-> c.payments]
    BY <1>3, <1>4 DEF Shape
  <1>6. Shape(c)
    BY <1>4, <1>5 DEF Shape
  <1>7. Carries(b, c) /\ Firm(b, c)
    BY <1>4, <1>5, <1>6, RowsCarried DEF Typed
  <1>8. Become(c)
    BY <1>1, <1>2, <1>5 DEF Become, Books, billing
  <1> QED
    BY <1>1, <1>2, <1>7, <1>8, HandlerStep

LEMMA RecordedIsTyped ==
    ASSUME WorldRight
    PROVE  Recorded \in [Days -> 0..MaxUsage \union {NoRecord}]
  <1> DEFINE most == Max({usage[today], seats})
  <1>1. /\ usage \in [Days -> 0..MaxUsage \union {NoRecord}] /\ today \in Days
        /\ seats \in 0..MaxUsage
    BY DEF WorldRight, UsageTyped
  <1>2. usage[today] \in Int /\ seats \in Int /\ usage[today] <= MaxUsage
    BY <1>1, Bounds DEF NoRecord
  <1>3. most = IF usage[today] >= seats THEN usage[today] ELSE seats
    BY <1>2, LargerOfTwo
  <1>4. most \in 0..MaxUsage
    BY <1>1, <1>2, <1>3, Bounds
  <1>5. Recorded = [usage EXCEPT ![today] = most]
    BY DEF Recorded
  <1> HIDE DEF most
  <1> QED
    BY <1>1, <1>4, <1>5

\* Steps that leave the account, the reports and the requests alone.
LEMMA WorldStep ==
    ASSUME MInv, WorldRight', desk' = desk, UNCHANGED <<account, reports, tasks>>
    PROVE  MInv'
  <1>1. Become(Books)
    BY DEF Become, Books, account
  <1>2. Carries(Books, Books) /\ Firm(Books, Books)
    BY CarriesItself DEF MInv
  <1>3. Steady
    BY DEF Steady, MInv, TasksRight
  <1> QED
    BY <1>1, <1>2, <1>3, CarriedStep

LEMMA WorldSteps ==
    ASSUME MInv, \/ SeatsGrow \/ SeatsShrink \/ StorageGrows \/ StorageShrinks
                 \/ RecordUsage \/ AdvanceDay \/ UNCHANGED vars
    PROVE  MInv'
  <1>0. WorldRight /\ MaxUsage \in Nat /\ today \in Nat /\ LastDay \in Nat
    BY WorldTyped DEF MInv
  <1>1. desk' = desk /\ UNCHANGED <<account, reports, tasks>>
    BY DEF SeatsGrow, SeatsShrink, StorageGrows, StorageShrinks, RecordUsage, AdvanceDay, vars, world
  <1>2. seats' \in 0..MaxUsage /\ storage' \in 0..MaxUsage
    BY <1>0 DEF SeatsGrow, SeatsShrink, StorageGrows, StorageShrinks, RecordUsage, AdvanceDay,
                vars, world, WorldRight
  <1>3. usage' \in [Days -> 0..MaxUsage \union {NoRecord}]
    <2>1. usage' = usage \/ usage' = Recorded
      BY DEF SeatsGrow, SeatsShrink, StorageGrows, StorageShrinks, RecordUsage, AdvanceDay,
             vars, world
    <2> QED
      BY <1>0, <2>1, RecordedIsTyped DEF WorldRight, UsageTyped
  <1>4. today' \in Days
    <2>1. CASE AdvanceDay
      <3>1. today < Horizon(desk) /\ today' = today + 1 /\ Horizon(desk) \in Days
        BY <1>0, <2>1, Uses DEF AdvanceDay, WorldRight
      <3> DEFINE last == Horizon(desk)
      <3> HIDE DEF last
      <3>2. last \in 0..LastDay /\ today < last
        BY <3>1 DEF last, Days
      <3> QED
        BY <1>0, <3>1, <3>2 DEF Days
    <2>2. CASE ~AdvanceDay
      <3>1. today' = today
        BY <2>2 DEF SeatsGrow, SeatsShrink, StorageGrows, StorageShrinks, RecordUsage, vars, world
      <3> QED
        BY <1>0, <3>1 DEF WorldRight, UsageTyped
    <2> QED
      BY <2>1, <2>2
  <1>5. WorldRight'
    BY <1>0, <1>1, <1>2, <1>3, <1>4 DEF WorldRight, UsageTyped
  <1> QED
    BY <1>1, <1>5, WorldStep

LEMMA RunJobsRight ==
    ASSUME MInv, RunJobs
    PROVE  MInv'
  <1>1. PICK b : b = Books
    OBVIOUS
  <1>2. PICK billed, renewed, books : JobsDone(b, billed, renewed, books) /\ Become(books)
    BY <1>1 DEF RunJobs, JobsDone
  <1>3. Typed(b) /\ b.sub = sub /\ UsageTyped /\ WorldRight
    BY <1>1 DEF MInv, WorldRight, Books
  <1>4. Carries(b, books) /\ Firm(b, books)
    BY <1>2, <1>3, JobsCarry
  <1>5. /\ usage' = Recorded \/ usage' = usage
        /\ UNCHANGED <<desk, today, seats, storage, reports, tasks>>
    BY DEF RunJobs
  <1>6. usage' \in [Days -> 0..MaxUsage \union {NoRecord}]
    BY <1>3, <1>5, RecordedIsTyped DEF UsageTyped
  <1>7. WorldRight'
    BY <1>3, <1>5, <1>6 DEF WorldRight, UsageTyped
  <1>8. Steady /\ reports' = reports
    BY <1>5 DEF Steady, MInv, TasksRight
  <1> QED
    BY <1>1, <1>2, <1>4, <1>7, <1>8, CarriedStep
-----------------------------------------------------------------------------
(* Payments, and the requests that overlap *)

LEMMA SumsTyped ==
    ASSUME MInv, NEW i \in DOMAIN invoices
    PROVE  /\ Sums(i) \subseteq Int
           /\ AmountsStay => \A amount \in Sums(i) : amount > 0
           /\ TypedRow(invoices[i])
           /\ PaidOn(Books, i) \in Int /\ invoices[i].amount \in Nat
  <1>1. PICK b : b = Books
    OBVIOUS
  <1>2. Typed(b) /\ b.invoices = invoices
    BY <1>1 DEF MInv, Books
  <1>3. /\ TypedRow(invoices[i]) /\ IsSeq(b.payments)
        /\ \A k \in DOMAIN b.payments : b.payments[k].amount \in Int
    BY <1>2 DEF Typed, Shape, TypedPayment
  <1>4. PaidOn(b, i) \in Int /\ invoices[i].amount \in Nat
    BY <1>3, PaidOnIsANumber DEF TypedRow, Invoice
  <1>5. Sums(i) = Parts \union ({invoices[i].amount - PaidOn(b, i)} \ {0})
    BY <1>1 DEF Sums
  <1>6. Parts \subseteq Nat \ {0}
    BY Amounts
  <1>7. AmountsStay => PaidOn(b, i) <= invoices[i].amount
    BY <1>1, <1>2 DEF MInv, Right, RightOn
  <1>8. ASSUME NEW amount \in Sums(i)
        PROVE  amount \in Int /\ (AmountsStay => amount > 0)
    <2>1. CASE amount \in Parts
      BY <1>6, <2>1
    <2>2. CASE amount = invoices[i].amount - PaidOn(b, i) /\ amount # 0
      BY <1>4, <1>7, <2>2
    <2> QED
      BY <1>5, <2>1, <2>2
  <1> QED
    BY <1>1, <1>3, <1>4, <1>8

LEMMA KeysTyped ==
    ASSUME MInv
    PROVE  Keys \subseteq Nat /\ OverlappingKeys \subseteq Nat /\ IsSeq(payments)
  <1>1. IsSeq(payments)
    BY DEF MInv, Typed, Shape, Books
  <1>2. PICK S : payments \in Seq(S)
    BY <1>1 DEF IsSeq
  <1>3. Len(payments) \in Nat
    BY <1>2
  <1> QED
    BY <1>1, <1>3 DEF Keys, OverlappingKeys, NextKey, NoKey

LEMMA OpenIsNotPaid == "paid" \notin Open
  BY DEF Open

LEMMA ConfirmPaymentRight ==
    ASSUME MInv, NEW i \in DOMAIN invoices, NEW amount \in Sums(i), NEW key \in Keys,
           ConfirmPayment(i, amount, key)
    PROVE  MInv'
  <1>1. amount \in Int /\ TypedRow(invoices[i])
    BY SumsTyped
  <1>2. key \in Nat
    BY KeysTyped
  <1>3. /\ ~KeyUsed(key) /\ MayPay(invoices[i], i, amount)
        /\ Become(PaymentRecorded(invoices[i], i, amount, key, 0))
        /\ UNCHANGED <<world, reports, tasks>>
    BY DEF ConfirmPayment
  <1>4. /\ invoices[i].status # "paid" /\ amount <= invoices[i].amount - PaidOn(Books, i)
    BY <1>3, OpenIsNotPaid DEF MayPay
  <1>5. WorldRight' /\ reports' = reports
    BY <1>3, WorldKept DEF MInv
  <1>6. Steady
    BY <1>3 DEF Steady, MInv, TasksRight, world
  <1>7. ReportsRight(reports', DOMAIN invoices)
    BY <1>5 DEF MInv
  <1>8. ReportedOnce(Append(payments, Payment(i, amount, key, 0)), reports')
    <2>1. Payment(i, amount, key, 0).report = 0
      BY DEF Payment
    <2>2. IsSeq(payments) /\ ReportedOnce(payments, reports')
      BY <1>5, KeysTyped DEF MInv
    <2> QED
      BY <2>1, <2>2, PaymentOfNoReport
  <1>9. 0 \in Nat
    OBVIOUS
  <1> QED
    BY <1>1, <1>2, <1>3, <1>4, <1>5, <1>6, <1>7, <1>8, <1>9, PaidStep

\* Steps of the reports alone.
LEMMA ReportStep ==
    ASSUME MInv, UNCHANGED <<world, account, tasks>>,
           ReportsRight(reports', DOMAIN invoices), ReportedOnce(payments, reports')
    PROVE  MInv'
  <1>1. Become(Books) /\ Books.invoices = invoices /\ Books.payments = payments
    BY DEF Become, Books, account
  <1>2. Carries(Books, Books) /\ Firm(Books, Books)
    BY CarriesItself DEF MInv
  <1>3. Steady /\ WorldRight'
    BY WorldKept DEF Steady, MInv, TasksRight, world
  <1>4. PICK b : b = Books
    OBVIOUS
  <1>5. /\ Become(b) /\ Typed(b) /\ DOMAIN invoices \subseteq DOMAIN b.invoices
        /\ \A i \in DOMAIN invoices : b.invoices[i].kind = invoices[i].kind
        /\ AmountsStay => Right(b)
        /\ Firmly => Firm(Books, b)
        /\ KeyedOnce(b.payments) /\ ReportedOnce(b.payments, reports')
    BY <1>1, <1>2, <1>4 DEF MInv
  <1> QED
    BY <1>3, <1>5, MoneyStep

LEMMA ReportPaymentRight ==
    ASSUME MInv, NEW i \in DOMAIN invoices, NEW amount \in Sums(i), ReportPayment(i, amount)
    PROVE  MInv'
  <1> DEFINE report == [invoice |-> i, amount |-> amount, status |-> "pending"]
  <1>1. reports' = Append(reports, report) /\ UNCHANGED <<world, account, tasks>>
    BY DEF ReportPayment
  <1>2. /\ report.invoice = i /\ report.amount \in Int /\ report.status = "pending"
        /\ DOMAIN report = {"invoice", "amount", "status"}
    BY SumsTyped
  <1> HIDE DEF report
  <1>3. ReportsRight(reports, DOMAIN invoices) /\ ReportedOnce(payments, reports)
    BY DEF MInv
  <1>4. ReportRight(report, DOMAIN invoices)
    BY <1>2 DEF ReportRight, OnInvoices
  <1>5. ReportsRight(reports', DOMAIN invoices)
    <2>1. IsSeq(reports)
      BY <1>3 DEF ReportsRight
    <2>2. IsSeq(reports')
      BY <1>1, <2>1, Appended
    <2>3. \A k \in DOMAIN reports' : ReportRight(reports'[k], DOMAIN invoices)
      BY <1>1, <1>3, <1>4, <2>1, Appended DEF ReportsRight
    <2> QED
      BY <2>2, <2>3 DEF ReportsRight
  <1>6. ReportedOnce(payments, reports')
    BY <1>1, <1>2, <1>3, ReportTold DEF ReportsRight
  <1> QED
    BY <1>1, <1>5, <1>6, ReportStep

LEMMA ReportChanged ==
    ASSUME NEW told, NEW ids, ReportsRight(told, ids), NEW r \in DOMAIN told,
           NEW s \in {"accepted", "rejected"}, NEW new, new = [told EXCEPT ![r].status = s]
    PROVE  ReportsRight(new, ids)
  <1>1. IsSeq(told) /\ \A k \in DOMAIN told : ReportRight(told[k], ids)
    BY DEF ReportsRight
  <1>2. IsSeq(new) /\ DOMAIN new = DOMAIN told
    <2>1. new = [k \in DOMAIN told |-> new[k]]
      OBVIOUS
    <2> QED
      BY <1>1, <2>1, Mapped
  <1>3. ReportRight(new[r], ids)
    BY <1>1 DEF ReportRight, OnInvoices
  <1>4. \A k \in DOMAIN told \ {r} : new[k] = told[k]
    OBVIOUS
  <1> QED
    BY <1>1, <1>2, <1>3, <1>4 DEF ReportsRight

LEMMA RejectReportRight ==
    ASSUME MInv, NEW k \in DOMAIN reports, RejectReport(k)
    PROVE  MInv'
  <1>1. /\ reports[k].status = "pending" /\ reports' = [reports EXCEPT ![k].status = "rejected"]
        /\ UNCHANGED <<world, account, tasks>>
    BY DEF RejectReport
  <1>2. ReportsRight(reports, DOMAIN invoices) /\ ReportedOnce(payments, reports)
    BY DEF MInv
  <1>3. DOMAIN reports[k] = {"invoice", "amount", "status"}
    BY <1>2 DEF ReportsRight, ReportRight, OnInvoices
  <1>4. ReportsRight(reports', DOMAIN invoices)
    BY <1>1, <1>2, ReportChanged
  <1>5. ReportedOnce(payments, reports')
    BY <1>1, <1>2, <1>3, ReportRejected
  <1> QED
    BY <1>1, <1>4, <1>5, ReportStep

LEMMA AcceptReportRight ==
    ASSUME MInv, NEW k \in DOMAIN reports, AcceptReport(k)
    PROVE  MInv'
  <1> DEFINE i == reports[k].invoice
             amount == reports[k].amount
             payment == Payment(i, amount, NoKey, k)
  <1>1. /\ reports[k].status = "pending" /\ MayPay(invoices[i], i, amount)
        /\ Become(PaymentRecorded(invoices[i], i, amount, NoKey, k))
        /\ reports' = [reports EXCEPT ![k].status = "accepted"]
        /\ UNCHANGED <<world, tasks>>
    BY DEF AcceptReport
  <1>2. ReportsRight(reports, DOMAIN invoices) /\ ReportedOnce(payments, reports)
    BY DEF MInv
  <1>3. /\ i \in DOMAIN invoices /\ amount \in Int
        /\ DOMAIN reports[k] = {"invoice", "amount", "status"}
    BY <1>2 DEF ReportsRight, ReportRight, OnInvoices
  <1>4. k \in Nat /\ k # 0
    <2>1. PICK S : reports \in Seq(S)
      BY <1>2 DEF ReportsRight, IsSeq
    <2> QED
      BY <2>1
  <1>5. ReportsRight(reports', DOMAIN invoices)
    BY <1>1, <1>2, ReportChanged
  <1>6. ReportedOnce(Append(payments, payment), reports')
    <2>1. payment.report = k
      BY DEF Payment
    <2> HIDE DEF payment
    <2>2. IsSeq(payments)
      BY KeysTyped
    <2> QED
      BY <1>1, <1>2, <1>3, <1>4, <2>1, <2>2, PaymentOfReport
  <1>7. invoices[i].status # "paid" /\ amount <= invoices[i].amount - PaidOn(Books, i)
    BY <1>1, OpenIsNotPaid DEF MayPay
  <1>8. WorldRight'
    BY <1>1, WorldKept DEF MInv
  <1>9. Steady
    BY <1>1 DEF Steady, MInv, TasksRight, world
  <1>10. TypedRow(invoices[i])
    BY <1>3, SumsTyped
  <1>11. NoKey \in Nat
    BY DEF NoKey
  <1> HIDE DEF i, amount
  <1> QED
    BY <1>1, <1>3, <1>4, <1>5, <1>6, <1>7, <1>8, <1>9, <1>10, <1>11, PaidStep

\* A step that begins a request, or ends it, and changes nothing else.
LEMMA TaskStep ==
    ASSUME MInv, UNCHANGED <<world, account, reports>>, NEW p \in Procs, NEW t,
           tasks' = [tasks EXCEPT ![p] = t], TaskRight(t)
    PROVE  MInv'
  <1>1. Books' = Books
    BY DEF Books, account
  <1>2. /\ UNCHANGED <<desk, today, usage, seats, storage, sub, operator, addons, invoices>>
        /\ payments' = payments /\ reports' = reports
    BY DEF world, account
  <1>3. \A u : TaskRight(u) => TaskRight(u)'
    BY <1>2 DEF TaskRight, AmountsStay
  <1>4. tasks = [q \in Procs |-> tasks[q]] /\ \A q \in Procs : TaskRight(tasks[q])
    BY DEF MInv, TasksRight
  <1>5. tasks' = [q \in Procs |-> tasks'[q]]
    BY <1>4
  <1>6. ASSUME NEW q \in Procs
        PROVE  TaskRight(tasks'[q]) 
    <2>1. CASE q = p
      <3>1. tasks'[q] = t
        BY <1>4, <2>1
      <3> QED
        BY <3>1
    <2>2. CASE q # p
      <3>1. tasks'[q] = tasks[q]
        BY <1>4, <2>2
      <3> QED
        BY <1>4, <3>1
    <2> QED
      BY <2>1, <2>2
  <1>7. TasksRight'
    BY <1>3, <1>5, <1>6 DEF TasksRight
  <1>8. WorldRight'
    BY WorldKept DEF MInv
  <1>9. (AmountsStay' <=> AmountsStay) /\ (Firmly' <=> Firmly)
    BY <1>2 DEF AmountsStay, Firmly
  <1>10. /\ Typed(Books') /\ (AmountsStay' => Right(Books')) /\ (Firmly' => NoAddons(Books'))
    BY <1>1, <1>9 DEF MInv
  <1>11. /\ ReportsRight(reports, DOMAIN invoices)' /\ KeyedOnce(payments)'
         /\ ReportedOnce(payments, reports)'
    BY <1>2 DEF MInv
  <1> QED
    BY <1>7, <1>8, <1>10, <1>11 DEF MInv

LEMMA TaskIsRight ==
    ASSUME MInv, "overlap" \in desk, NEW i \in DOMAIN invoices, NEW op \in {"confirm", "cancel"},
           NEW amount \in Int, NEW key \in Nat, AmountsStay /\ op = "confirm" => amount > 0
    PROVE  TaskRight(Task(op, i, amount, key))
  <1> DEFINE t == Task(op, i, amount, key)
  <1>1. /\ t.op = op /\ t.invoice = i /\ t.inv = invoices[i]
        /\ t.amount = amount /\ t.key = key
    BY DEF Task
  <1>2. TypedRow(invoices[i])
    BY SumsTyped
  <1> HIDE DEF t
  <1>3. /\ "overlap" \in desk
        /\ t.op \in {"confirm", "cancel"} /\ t.invoice \in DOMAIN invoices
        /\ t.amount \in Int /\ t.key \in Nat /\ TypedRow(t.inv)
        /\ t.inv.kind = invoices[t.invoice].kind
        /\ AmountsStay => /\ t.inv.amount = invoices[t.invoice].amount
                          /\ t.op = "confirm" => t.amount > 0
    BY <1>1, <1>2
  <1>4. TaskRight(t)
    BY <1>3 DEF TaskRight
  <1> QED
    BY <1>4 DEF t

LEMMA LoadRight ==
    ASSUME MInv, NEW p \in Procs, NEW i \in DOMAIN invoices,
           \/ CancelLoad(p, i)
           \/ \E amount \in Sums(i), key \in OverlappingKeys : ConfirmLoad(p, i, amount, key)
    PROVE  MInv'
  <1>1. CASE CancelLoad(p, i)
    <2>1. /\ "overlap" \in desk /\ UNCHANGED <<world, account, reports>>
          /\ tasks' = [tasks EXCEPT ![p] = Task("cancel", i, 0, NoKey)]
      BY <1>1 DEF CancelLoad
    <2>2. NoKey \in Nat /\ 0 \in Int /\ "cancel" # "confirm"
      BY DEF NoKey
    <2>3. TaskRight(Task("cancel", i, 0, NoKey))
      BY <2>1, <2>2, TaskIsRight
    <2> QED
      BY <2>1, <2>3, TaskStep
  <1>2. CASE \E amount \in Sums(i), key \in OverlappingKeys : ConfirmLoad(p, i, amount, key)
    <2>1. PICK amount \in Sums(i), key \in OverlappingKeys : ConfirmLoad(p, i, amount, key)
      BY <1>2
    <2>2. /\ "overlap" \in desk /\ UNCHANGED <<world, account, reports>>
          /\ tasks' = [tasks EXCEPT ![p] = Task("confirm", i, amount, key)]
      BY <2>1 DEF ConfirmLoad
    <2>3. amount \in Int /\ key \in Nat /\ (AmountsStay => amount > 0)
      BY SumsTyped, KeysTyped
    <2>4. TaskRight(Task("confirm", i, amount, key))
      BY <2>2, <2>3, TaskIsRight
    <2> QED
      BY <2>2, <2>4, TaskStep
  <1> QED
    BY <1>1, <1>2

LEMMA FailRight ==
    ASSUME MInv, NEW p \in Procs, Fail(p)
    PROVE  MInv'
  <1>1. TaskRight(Idle)
    BY DEF TaskRight
  <1> QED
    BY <1>1, TaskStep DEF Fail

LEMMA EndedSteady ==
    ASSUME MInv, NEW p \in Procs, desk' = desk, tasks' = [tasks EXCEPT ![p] = Idle]
    PROVE  Steady
  BY DEF Steady, MInv, TasksRight

LEMMA ConfirmCommitRight ==
    ASSUME MInv, NEW p \in Procs, ConfirmCommit(p)
    PROVE  MInv'
  <1>1. PICK t : t = tasks[p]
    OBVIOUS
  <1>2. /\ t.op = "confirm" /\ ~KeyUsed(t.key)
        /\ t.inv.status \in Open /\ t.amount <= t.inv.amount - PaidOn(Books, t.invoice)
        /\ Become(PaymentRecorded(t.inv, t.invoice, t.amount, t.key, 0))
        /\ tasks' = [tasks EXCEPT ![p] = Idle]
        /\ UNCHANGED <<world, reports>>
    BY <1>1 DEF ConfirmCommit, MayPay
  <1>3. /\ t.invoice \in DOMAIN invoices
        /\ t.amount \in Int /\ t.key \in Nat /\ TypedRow(t.inv)
        /\ t.inv.kind = invoices[t.invoice].kind
        /\ AmountsStay => /\ t.inv.amount = invoices[t.invoice].amount
                          /\ t.amount > 0
    <2>1. TaskRight(t) /\ t # Idle
      BY <1>1, <1>2 DEF MInv, TasksRight, Idle
    <2> QED
      BY <1>2, <2>1 DEF TaskRight
  <1>4. ASSUME AmountsStay
        PROVE  invoices[t.invoice].status # "paid"
    <2>1. Right(Books) /\ Books.invoices = invoices
      BY <1>4 DEF MInv, Books
    <2>2. invoices[t.invoice].status = "paid" =>
             PaidOn(Books, t.invoice) = invoices[t.invoice].amount
      BY <1>3, <2>1 DEF Right, RightOn
    <2>3. invoices[t.invoice].amount \in Nat
      BY <1>3, SumsTyped
    <2>4. t.inv.amount = invoices[t.invoice].amount /\ t.amount > 0
      BY <1>3, <1>4
    <2>5. ASSUME invoices[t.invoice].status = "paid"
          PROVE  FALSE
      <3>1. t.amount <= invoices[t.invoice].amount - invoices[t.invoice].amount
        BY <1>2, <2>2, <2>4, <2>5
      <3> QED
        BY <1>3, <2>3, <2>4, <3>1
    <2> QED
      BY <2>5
  <1>5. WorldRight' /\ reports' = reports /\ desk' = desk
    BY <1>2, WorldKept DEF MInv, world
  <1>6. Steady
    BY <1>2, <1>5, EndedSteady
  <1>7. ReportsRight(reports', DOMAIN invoices)
    BY <1>5 DEF MInv
  <1>8. ReportedOnce(Append(payments, Payment(t.invoice, t.amount, t.key, 0)), reports')
    <2>1. Payment(t.invoice, t.amount, t.key, 0).report = 0
      BY DEF Payment
    <2>2. IsSeq(payments) /\ ReportedOnce(payments, reports')
      BY <1>5, KeysTyped DEF MInv
    <2> QED
      BY <2>1, <2>2, PaymentOfNoReport
  <1>9. 0 \in Nat
    OBVIOUS
  <1> QED
    BY <1>2, <1>3, <1>4, <1>5, <1>6, <1>7, <1>8, <1>9, PaidStep

LEMMA CancelCommitRight ==
    ASSUME MInv, NEW p \in Procs, CancelCommit(p)
    PROVE  MInv'
  <1>1. PICK i : i = tasks[p].invoice
    OBVIOUS
  <1>2. /\ tasks[p].op = "cancel"
        /\ invoices' = [invoices EXCEPT ![i].status = "void"]
        /\ tasks' = [tasks EXCEPT ![p] = Idle]
        /\ UNCHANGED <<world, operator, sub, addons, payments, reports>>
    BY <1>1 DEF CancelCommit
  <1>3. i \in DOMAIN invoices
    <2>1. TaskRight(tasks[p]) /\ tasks[p] # Idle
      BY <1>2 DEF MInv, TasksRight, Idle
    <2> QED
      BY <1>1, <2>1 DEF TaskRight
  <1>4. PICK b : b = Books
    OBVIOUS
  <1>5. PICK c : c = WithStatus(b, i, "void")
    OBVIOUS
  <1>6. Typed(b) /\ i \in DOMAIN b.invoices
    BY <1>3, <1>4 DEF MInv, Books
  <1>7. Carries(b, c) /\ Firm(b, c)
    BY <1>5, <1>6, VoidCarries
  <1>8. /\ c.operator = operator /\ c.sub = sub /\ c.addons = addons
        /\ c.invoices = [invoices EXCEPT ![i].status = "void"] /\ c.payments = payments
    BY <1>4, <1>5 DEF Books, WithStatus
  <1>9. Become(c)
    BY <1>2, <1>8 DEF Become
  <1>10. WorldRight' /\ reports' = reports /\ desk' = desk
    BY <1>2, WorldKept DEF MInv, world
  <1>11. Steady
    BY <1>2, <1>10, EndedSteady
  <1> QED
    BY <1>4, <1>7, <1>9, <1>10, <1>11, CarriedStep
-----------------------------------------------------------------------------
(* It holds *)

LEMMA WorldAtFirst ==
    ASSUME Init
    PROVE  WorldRight
  <1>1. PICK c \in Cases : desk = c.desk /\ seats = c.seats
    BY DEF Init
  <1>2. today \in Days
    BY Calendar DEF Init, Days
  <1>3. usage \in [Days -> 0..MaxUsage \union {NoRecord}]
    BY DEF Init
  <1>4. seats \in 0..MaxUsage
    BY <1>1, Offers
  <1>5. storage \in 0..MaxUsage
    BY Bounds DEF Init
  <1> QED
    BY <1>1, <1>2, <1>3, <1>4, <1>5 DEF WorldRight, UsageTyped

LEMMA FirstPlanTyped ==
    ASSUME NEW c \in Cases, c.terms # NoTerms, NEW inv, inv = FirstPlan(c)
    PROVE  /\ TypedRow(inv) /\ inv.kind = "plan" /\ inv.status = "paid"
           /\ inv.start = 0 /\ inv.end = PeriodEnd(0, c.cycle) /\ inv.amount \in Nat
  <1> DEFINE last == PeriodEnd(0, c.cycle)
             amount == BasePrice(c.terms, c.cycle) + c.terms.setup
  <1>1. c.terms \in Terms /\ c.cycle \in Cycles
    BY Offers
  <1>2. last \in Nat
    BY PeriodIsTyped
  <1>3. amount \in Nat
    <2>1. c.terms.setup \in Nat
      BY <1>1 DEF Terms
    <2> QED
      BY <1>1, <2>1, PriceIsANumber
  <1> HIDE DEF last, amount
  <1>4. inv = [NewInvoice("plan", 0, last, 0, amount)
               EXCEPT !.status = "paid", !.terms = c.terms, !.cycle = c.cycle]
    BY DEF FirstPlan, last, amount
  <1>5. /\ DOMAIN inv = {"kind", "start", "end", "due", "amount", "status", "terms", "cycle", "units"}
        /\ inv.kind = "plan" /\ inv.status = "paid" /\ inv.start = 0 /\ inv.end = last
        /\ inv.due = 0 /\ inv.amount = amount /\ inv.terms = c.terms /\ inv.cycle = c.cycle
        /\ inv.units = NoUnits
    BY <1>4 DEF NewInvoice
  <1>6. NoUnits \in Units
    BY Bounds DEF NoUnits, Units
  <1>7. Row(inv)
    BY <1>2, <1>5 DEF Row, InvoiceKinds
  <1>8. Invoice(inv)
    BY <1>1, <1>2, <1>3, <1>5, <1>6 DEF Invoice, InvoiceKinds
  <1>9. TypedRow(inv)
    BY <1>1, <1>2, <1>5, <1>7, <1>8 DEF TypedRow
  <1> QED
    BY <1>3, <1>5, <1>9 DEF last

LEMMA BooksAtFirst ==
    ASSUME Init
    PROVE  /\ Typed(Books) /\ Right(Books) /\ NoAddons(Books)
           /\ KeyedOnce(payments) /\ \A k \in DOMAIN payments : payments[k].report = 0
  <1> DEFINE b == Books
  <1>1. /\ b = [operator |-> b.operator, sub |-> b.sub, addons |-> b.addons,
                invoices |-> b.invoices, payments |-> b.payments]
        /\ b.operator = operator /\ b.sub = sub /\ b.addons = addons
        /\ b.invoices = invoices /\ b.payments = payments
    BY DEF Books
  <1> HIDE DEF b
  <1>2. /\ DOMAIN addons = Modules
        /\ \A m \in Modules : /\ DOMAIN addons[m] = {"active", "quantity", "through", "renews"}
                              /\ addons[m] \in Addon
    <2>1. addons = [m \in Modules |-> NoAddon]
      BY DEF Init
    <2>2. NoAddon \in Addon /\ DOMAIN NoAddon = {"active", "quantity", "through", "renews"}
      BY Bounds DEF NoAddon, Addon
    <2> QED
      BY <2>1, <2>2
  <1>3. PICK c \in Cases :
          IF c.terms = NoTerms
          THEN /\ operator = "trial"
               /\ sub = [status |-> "trial", start |-> NoDay, end |-> NoDay,
                         terms |-> NoTerms, cycle |-> "monthly", scheduled |-> NoChange]
               /\ invoices = <<>> /\ payments = <<>>
          ELSE /\ operator = "active"
               /\ sub = [status |-> "active", start |-> 0, end |-> PeriodEnd(0, c.cycle),
                         terms |-> c.terms, cycle |-> c.cycle, scheduled |-> NoChange]
               /\ invoices = <<FirstPlan(c)>>
               /\ payments = <<[invoice |-> 1, amount |-> FirstPlan(c).amount, key |-> 1,
                                report |-> 0]>>
    BY DEF Init
  <1>4. CASE c.terms = NoTerms
    <2>1. /\ operator = "trial"
          /\ sub = [status |-> "trial", start |-> NoDay, end |-> NoDay,
                    terms |-> NoTerms, cycle |-> "monthly", scheduled |-> NoChange]
          /\ invoices = <<>> /\ payments = <<>>
      BY <1>3, <1>4
    <2>2. DOMAIN invoices = {} /\ DOMAIN payments = {}
      BY <2>1
    <2>3. IsSeq(invoices) /\ IsSeq(payments)
      BY <2>1 DEF IsSeq
    <2>4. /\ sub.start \in Int /\ sub.end \in Int /\ sub.status # "active"
          /\ sub.scheduled = NoChange
          /\ DOMAIN sub = {"status", "start", "end", "terms", "cycle", "scheduled"}
      BY <2>1 DEF NoDay
    <2>5. Shape(b)
      BY <1>1, <1>2, <2>2, <2>3, <2>4 DEF Shape
    <2>6. Typed(b) /\ Right(b) /\ NoAddons(b)
      BY <1>1, <1>2, <2>1, <2>2, <2>4, <2>5 DEF Typed, TypedSub, Right, NoAddons
    <2> QED
      BY <2>2, <2>6 DEF b, KeyedOnce
  <1>5. CASE c.terms # NoTerms
    <2> DEFINE last == PeriodEnd(0, c.cycle)
    <2>1. PICK inv : inv = FirstPlan(c)
      OBVIOUS
    <2>2. PICK payment : payment = [invoice |-> 1, amount |-> inv.amount, key |-> 1, report |-> 0]
      OBVIOUS
    <2>3. /\ operator = "active"
          /\ sub = [status |-> "active", start |-> 0, end |-> last,
                    terms |-> c.terms, cycle |-> c.cycle, scheduled |-> NoChange]
          /\ invoices = <<inv>> /\ payments = <<payment>>
      BY <1>3, <1>5, <2>1, <2>2
    <2>4. /\ TypedRow(inv) /\ inv.kind = "plan" /\ inv.status = "paid"
          /\ inv.start = 0 /\ inv.end = last /\ inv.amount \in Nat
      BY <1>5, <2>1, FirstPlanTyped
    <2>5. last \in Nat
      BY PeriodIsTyped
    <2> HIDE DEF last
    <2>6. /\ payment.invoice = 1 /\ payment.amount = inv.amount /\ payment.key = 1
          /\ payment.report = 0
      BY <2>2
    <2>7. /\ DOMAIN invoices = {1} /\ invoices[1] = inv
          /\ DOMAIN payments = {1} /\ payments[1] = payment
      BY <2>3
    <2>8. IsSeq(invoices) /\ IsSeq(payments)
      <3>1. invoices \in Seq({inv}) /\ payments \in Seq({payment})
        BY <2>3
      <3> QED
        BY <3>1 DEF IsSeq
    <2>9. /\ DOMAIN sub = {"status", "start", "end", "terms", "cycle", "scheduled"}
          /\ sub.status = "active" /\ sub.start = 0 /\ sub.end = last
          /\ sub.terms = c.terms /\ sub.cycle = c.cycle /\ sub.scheduled = NoChange
      BY <2>3
    <2>10. Shape(b)
      BY <1>1, <1>2, <2>4, <2>5, <2>7, <2>8, <2>9 DEF Shape, TypedRow
    <2>11. TypedSub(b.sub)
      <3>1. c.terms \in Terms /\ c.cycle \in Cycles
        BY <1>5, Offers
      <3> QED
        BY <1>1, <2>5, <2>9, <3>1 DEF TypedSub
    <2>12. Typed(b)
      BY <1>1, <1>2, <2>3, <2>4, <2>6, <2>7, <2>10, <2>11 DEF Typed, TypedPayment
    <2>13. PaidOn(b, 1) = inv.amount
      <3>1. PICK none : none.payments = <<>>
        <4>1. [payments |-> <<>>].payments = <<>>
          OBVIOUS
        <4> QED
          BY <4>1
      <3>2. IsSeq(none.payments) /\ DOMAIN none.payments = {}
        BY <3>1 DEF IsSeq
      <3>3. b.payments = Append(none.payments, payment)
        BY <1>1, <2>3, <3>1
      <3>4. PaidOn(b, 1) = PaidOn(none, 1) + inv.amount
        BY <2>4, <2>6, <3>2, <3>3, PaidWithPayment
      <3>5. PaidOn(none, 1) = 0
        BY <3>2, NothingPaidOn DEF Untouched
      <3> QED
        BY <2>4, <3>4, <3>5
    <2>14. Right(b) /\ NoAddons(b)
      BY <1>1, <2>4, <2>7, <2>13 DEF Right, RightOn, NoAddons
    <2>15. KeyedOnce(payments) /\ \A k \in DOMAIN payments : payments[k].report = 0
      BY <2>6, <2>7 DEF KeyedOnce
    <2> QED
      BY <2>12, <2>14, <2>15 DEF b
  <1> QED
    BY <1>4, <1>5

LEMMA MInvInit == Init => MInv
  <1> SUFFICES ASSUME Init
               PROVE  MInv
    OBVIOUS
  <1>1. WorldRight
    BY WorldAtFirst
  <1>2. /\ Typed(Books) /\ Right(Books) /\ NoAddons(Books)
        /\ KeyedOnce(payments) /\ \A k \in DOMAIN payments : payments[k].report = 0
    BY BooksAtFirst
  <1>3. reports = <<>> /\ tasks = [p \in Procs |-> Idle]
    BY DEF Init
  <1>4. IsSeq(reports) /\ DOMAIN reports = {}
    BY <1>3 DEF IsSeq
  <1>5. ReportsRight(reports, DOMAIN invoices) /\ ReportedOnce(payments, reports)
    BY <1>2, <1>4 DEF ReportsRight, ReportedOnce
  <1>6. TasksRight
    BY <1>3 DEF TasksRight, TaskRight
  <1> QED
    BY <1>1, <1>2, <1>5, <1>6 DEF MInv

LEMMA OnInvoiceRight ==
    ASSUME MInv, NEW i \in DOMAIN invoices, OnInvoice(i)
    PROVE  MInv'
  BY CancelInvoiceRight, ReportPaymentRight, ConfirmPaymentRight DEF OnInvoice

LEMMA RequestRight ==
    ASSUME MInv, NEW p \in Procs, Request(p)
    PROVE  MInv'
  BY LoadRight, ConfirmCommitRight, CancelCommitRight, FailRight DEF Request

LEMMA PlanRequestRight ==
    ASSUME MInv, \/ \E terms \in Plans, cycle \in Cycles : RequestPlan(terms, cycle)
                 \/ \E terms \in Contracts, cycle \in Cycles : RequestContract(terms, cycle)
    PROVE  MInv'
  <1>1. PICK terms \in Terms, cycle \in Cycles, custom \in BOOLEAN :
           SchedulePlan(terms, cycle) \/ InvoicePlan(terms, cycle, custom)
    BY Offers DEF RequestPlan, RequestContract
  <1> QED
    BY <1>1, SchedulePlanRight, InvoicePlanRight

LEMMA MInvNext == MInv /\ [Next]_vars => MInv'
  <1> SUFFICES ASSUME MInv, [Next]_vars
               PROVE  MInv'
    OBVIOUS
  <1>1. CASE \/ \E terms \in Plans, cycle \in Cycles : RequestPlan(terms, cycle)
             \/ \E terms \in Contracts, cycle \in Cycles : RequestContract(terms, cycle)
    BY <1>1, PlanRequestRight
  <1>2. CASE \E m \in Modules, quantity \in 1..MaxUnits : RequestAddon(m, quantity)
    BY <1>2, RequestAddonRight
  <1>3. CASE \E m \in Modules, units \in 0..MaxUnits \union {AsBefore} :
                ScheduleAddonRenewal(m, units)
    BY <1>3, ScheduleAddonRenewalRight
  <1>4. CASE \E i \in DOMAIN invoices : OnInvoice(i)
    BY <1>4, OnInvoiceRight
  <1>5. CASE \E k \in DOMAIN reports : AcceptReport(k) \/ RejectReport(k)
    BY <1>5, AcceptReportRight, RejectReportRight
  <1>6. CASE \E amount \in Parts : ManualInvoice(amount)
    BY <1>6, ManualInvoiceRight
  <1>7. CASE \E p \in Procs : Request(p)
    BY <1>7, RequestRight
  <1>8. CASE Hold \/ ReleaseHold \/ Suspend \/ ActivateOperator
    BY <1>8, StatusRight
  <1>9. CASE \/ SeatsGrow \/ SeatsShrink \/ StorageGrows \/ StorageShrinks
             \/ RecordUsage \/ AdvanceDay \/ UNCHANGED vars
    BY <1>9, WorldSteps
  <1>10. CASE RunJobs
    BY <1>10, RunJobsRight
  <1> QED
    BY <1>1, <1>2, <1>3, <1>4, <1>5, <1>6, <1>7, <1>8, <1>9, <1>10 DEF Next

LEMMA MInvAlways == Spec => []MInv
  BY MInvInit, MInvNext, PTL DEF Spec

LEMMA RowsAreTyped ==
    ASSUME MInv
    PROVE  TypeOK
  <1>1. Typed(Books) /\ WorldRight
    BY DEF MInv
  <1>2. /\ Books.operator = operator /\ Books.sub = sub /\ Books.addons = addons
        /\ Books.invoices = invoices /\ Books.payments = payments
    BY DEF Books
  <1>3. /\ operator \in {"trial", "active", "hold", "suspended"} /\ TypedSub(sub)
        /\ \A m \in Modules : addons[m] \in Addon
        /\ \A i \in DOMAIN invoices : Invoice(invoices[i])
        /\ \A k \in DOMAIN payments : payments[k].invoice \in DOMAIN invoices
    BY <1>1, <1>2 DEF Typed, TypedRow, TypedPayment
  <1>4. desk \subseteq Operations
    BY <1>1, WorldTyped
  <1>5. Paid => sub.terms \in Terms /\ sub.cycle \in Cycles /\ {sub.start, sub.end} \subseteq Nat
    BY <1>3 DEF Paid, TypedSub
  <1> QED
    BY <1>1, <1>3, <1>4, <1>5 DEF TypeOK, WorldRight, UsageTyped

LEMMA MoneyIsCounted ==
    ASSUME MInv
    PROVE  MoneyCountsOnce
  <1>1. Books.invoices = invoices
    BY DEF Books
  <1>2. ASSUME AmountsStay
        PROVE  /\ NeverOverpaid
               /\ \A i \in DOMAIN invoices :
                     invoices[i].status = "paid" => PaidOn(Books, i) = invoices[i].amount
    <2>1. Right(Books)
      BY <1>2 DEF MInv
    <2> QED
      BY <1>1, <2>1 DEF Right, RightOn, NeverOverpaid
  <1>3. \A j, k \in DOMAIN payments :
           payments[j].key = payments[k].key /\ payments[j].key # NoKey => j = k
    BY DEF MInv, KeyedOnce
  <1>4. ASSUME NEW r \in DOMAIN reports
        PROVE  Cardinality({k \in DOMAIN payments : payments[k].report = r})
                   = IF reports[r].status = "accepted" THEN 1 ELSE 0
    <2>1. IsSeq(reports) /\ ReportedOnce(payments, reports)
      BY DEF MInv, ReportsRight
    <2> QED
      BY <2>1, ReportsCounted
  <1> QED
    BY <1>2, <1>3, <1>4 DEF MoneyCountsOnce
-----------------------------------------------------------------------------
(* No day of an extra seat is billed twice: the months that are billed are months of the *)
(* plan that was bought or of renewals, and those follow one another.                    *)

SamePeriod(r, s) == r.start = s.start /\ r.end = s.end

Started(b) == {i \in DOMAIN b.invoices : /\ b.invoices[i].kind = "plan"
                                         /\ b.invoices[i].status = "paid"}
Chain(b) == Started(b) \union RenewalRows(b)
Kind(b, kind) == {i \in DOMAIN b.invoices : b.invoices[i].kind = kind}

\* The operator never let its plan lapse.
OneStart(b) == \A i, j \in Started(b) : SamePeriod(b.invoices[i], b.invoices[j])

\* `w' is a month of the period `r', its last one shortened.
MonthOf(w, r) ==
    /\ \E k \in Nat : w.start = r.start + k * DaysInMonth
    /\ w.start <= w.end /\ w.end <= r.end /\ w.end < w.start + DaysInMonth
    /\ w.end = r.end \/ w.end = w.start + DaysInMonth - 1

Ordered(b) ==
    /\ b.sub.status = "active" => \E j \in Chain(b) : SamePeriod(b.sub, b.invoices[j])
    /\ Chain(b) # {} => Started(b) # {}
    /\ \A i \in Kind(b, "upgrade") : \E j \in Chain(b) : SamePeriod(b.invoices[i], b.invoices[j])
    /\ \A i, j \in Chain(b) : \/ i = j \/ {i, j} \subseteq Started(b)
                              \/ Apart(b.invoices[i], b.invoices[j])
    /\ \A i \in RenewalRows(b) : \E j \in Chain(b) : b.invoices[i].start = b.invoices[j].end + 1
    /\ \A i \in Started(b), j \in Chain(b) : b.invoices[i].start <= b.invoices[j].start
    /\ \A i \in Kind(b, "usage") : \E j \in Chain(b) : MonthOf(b.invoices[i], b.invoices[j])
    /\ \A i, j \in Kind(b, "usage") : i = j \/ Apart(b.invoices[i], b.invoices[j])

InSequence(b) == OneStart(b) => Ordered(b)

\* The rows there were keep their period, and what is paid stays paid.
RowsStay(b, c) ==
    /\ DOMAIN b.invoices \subseteq DOMAIN c.invoices
    /\ \A i \in DOMAIN b.invoices :
          /\ c.invoices[i].kind = b.invoices[i].kind /\ SamePeriod(c.invoices[i], b.invoices[i])
          /\ b.invoices[i].status = "paid" => c.invoices[i].status = "paid"

\* No plan is begun and no renewal or bill is made; the present period is the one before, or
\* that of an upgrade or a renewal.
PeriodsStay(b, c) ==
    /\ RowsStay(b, c) /\ Started(c) \subseteq Started(b)
    /\ \A i \in DOMAIN c.invoices \ DOMAIN b.invoices :
          /\ c.invoices[i].kind \notin {"renewal", "usage"}
          /\ c.invoices[i].kind = "upgrade" =>
                b.sub.status = "active" /\ SamePeriod(c.invoices[i], b.sub)
    /\ c.sub.status = "active" =>
          \/ b.sub.status = "active" /\ SamePeriod(c.sub, b.sub)
          \/ \E j \in Kind(b, "upgrade") \union Kind(b, "renewal") : SamePeriod(c.sub, b.invoices[j])

LEMMA StartedStay ==
    ASSUME NEW b, NEW c, RowsStay(b, c)
    PROVE  /\ Started(b) \subseteq Started(c) /\ RenewalRows(b) \subseteq RenewalRows(c)
           /\ Chain(b) \subseteq Chain(c)
           /\ OneStart(c) => OneStart(b)
  BY DEF RowsStay, Started, RenewalRows, Chain, OneStart, SamePeriod

LEMMA PeriodsStayInSequence ==
    ASSUME NEW b, NEW c, PeriodsStay(b, c), InSequence(b)
    PROVE  InSequence(c)
  <1> SUFFICES ASSUME OneStart(c)
               PROVE  Ordered(c)
    BY DEF InSequence
  <1>1. RowsStay(b, c) /\ Ordered(b)
    BY StartedStay DEF PeriodsStay, InSequence
  <1>2. Started(c) = Started(b)
    BY <1>1, StartedStay DEF PeriodsStay
  <1>3. RenewalRows(c) = RenewalRows(b)
    BY <1>1 DEF PeriodsStay, RowsStay, RenewalRows
  <1>4. Chain(c) = Chain(b) /\ Chain(b) \subseteq DOMAIN b.invoices
    BY <1>2, <1>3 DEF Chain, Started, RenewalRows
  <1>5. Kind(c, "usage") = Kind(b, "usage") /\ Kind(b, "usage") \subseteq DOMAIN b.invoices
    BY <1>1 DEF PeriodsStay, RowsStay, Kind
  <1>6. \A i \in DOMAIN b.invoices : /\ c.invoices[i].start = b.invoices[i].start
                                     /\ c.invoices[i].end = b.invoices[i].end
    BY <1>1 DEF RowsStay, SamePeriod
  <1>7. \A i \in Kind(b, "upgrade") \union Kind(b, "renewal") : \E j \in Chain(b) :
           SamePeriod(b.invoices[i], b.invoices[j])
    <2>1. Kind(b, "renewal") \subseteq Chain(b)
      BY DEF Kind, Chain, RenewalRows
    <2> QED
      BY <1>1, <2>1 DEF Ordered, SamePeriod
  <1>8. b.sub.status = "active" => \E j \in Chain(b) : SamePeriod(b.sub, b.invoices[j])
    BY <1>1 DEF Ordered
  <1>9. c.sub.status = "active" => \E j \in Chain(b) : SamePeriod(c.sub, b.invoices[j])
    BY <1>7, <1>8 DEF PeriodsStay, SamePeriod
  <1>10. \A i \in Kind(c, "upgrade") : \E j \in Chain(b) : SamePeriod(c.invoices[i], b.invoices[j])
    <2> TAKE i \in Kind(c, "upgrade")
    <2>1. CASE i \in DOMAIN b.invoices
      <3>1. i \in Kind(b, "upgrade")
        BY <1>1, <2>1 DEF Kind, RowsStay
      <3> QED
        BY <1>6, <1>7, <2>1, <3>1 DEF SamePeriod
    <2>2. CASE i \notin DOMAIN b.invoices
      <3>1. b.sub.status = "active" /\ SamePeriod(c.invoices[i], b.sub)
        BY <2>2 DEF Kind, PeriodsStay
      <3> QED
        BY <1>8, <3>1 DEF SamePeriod
    <2> QED
      BY <2>1, <2>2
  <1>11. \A i, j \in Chain(b) : \/ i = j \/ {i, j} \subseteq Started(b)
                                \/ Apart(c.invoices[i], c.invoices[j])
    BY <1>1, <1>4, <1>6 DEF Ordered, Apart
  <1>12. \A i \in RenewalRows(b) : \E j \in Chain(b) : c.invoices[i].start = c.invoices[j].end + 1
    <2>1. RenewalRows(b) \subseteq Chain(b)
      BY DEF Chain
    <2> QED
      BY <1>1, <1>4, <1>6, <2>1 DEF Ordered
  <1>13. \A i \in Started(b), j \in Chain(b) : c.invoices[i].start <= c.invoices[j].start
    <2>1. Started(b) \subseteq Chain(b)
      BY DEF Chain
    <2> QED
      BY <1>1, <1>4, <1>6, <2>1 DEF Ordered
  <1>14. \A i \in Kind(b, "usage") : \E j \in Chain(b) : MonthOf(c.invoices[i], c.invoices[j])
    <2> TAKE i \in Kind(b, "usage")
    <2>1. PICK j \in Chain(b) : MonthOf(b.invoices[i], b.invoices[j])
      BY <1>1 DEF Ordered
    <2>2. /\ c.invoices[i].start = b.invoices[i].start /\ c.invoices[i].end = b.invoices[i].end
          /\ c.invoices[j].start = b.invoices[j].start /\ c.invoices[j].end = b.invoices[j].end
      BY <1>4, <1>5, <1>6
    <2>3. MonthOf(c.invoices[i], c.invoices[j])
      BY <2>1, <2>2, Zenon DEF MonthOf
    <2> QED
      BY <2>3
  <1>15. \A i, j \in Kind(b, "usage") : i = j \/ Apart(c.invoices[i], c.invoices[j])
    BY <1>1, <1>5, <1>6 DEF Ordered, Apart
  <1>16. Chain(b) # {} => Started(b) # {}
    BY <1>1 DEF Ordered
  <1>17. \A r : \A j \in Chain(b) : SamePeriod(r, b.invoices[j]) => SamePeriod(r, c.invoices[j])
    BY <1>4, <1>6 DEF SamePeriod
  <1>18. /\ c.sub.status = "active" => \E j \in Chain(b) : SamePeriod(c.sub, c.invoices[j])
         /\ \A i \in Kind(c, "upgrade") : \E j \in Chain(b) : SamePeriod(c.invoices[i], c.invoices[j])
    BY <1>9, <1>10, <1>17
  <1> QED
    BY <1>2, <1>3, <1>4, <1>5, <1>11, <1>12, <1>13, <1>14, <1>15, <1>16, <1>18 DEF Ordered

\* A plan that is paid begins; its row may be a new one.
PlanBegins(b, c, j) ==
    /\ RowsStay(b, c) /\ j \in Started(c) /\ Started(c) \subseteq Started(b) \union {j}
    /\ DOMAIN c.invoices \subseteq DOMAIN b.invoices \union {j}
    /\ SamePeriod(c.sub, c.invoices[j])

LEMMA FirstPlanInSequence ==
    ASSUME NEW b, NEW c, NEW j, PlanBegins(b, c, j), Typed(c), Ordered(b), Started(b) = {}
    PROVE  Ordered(c)
  <1>1. Chain(b) = {}
    BY DEF Ordered
  <1>2. RenewalRows(b) = {} /\ Kind(b, "upgrade") = {} /\ Kind(b, "usage") = {}
    BY <1>1 DEF Ordered, Chain
  <1>3. c.invoices[j].kind = "plan"
    BY DEF PlanBegins, Started
  <1>4. RenewalRows(c) = {} /\ Kind(c, "upgrade") = {} /\ Kind(c, "usage") = {}
    BY <1>2, <1>3 DEF PlanBegins, RowsStay, RenewalRows, Kind
  <1>5. Started(c) = {j} /\ Chain(c) = {j}
    BY <1>4 DEF PlanBegins, Chain
  <1>6. c.invoices[j].start \in Nat
    BY <1>5 DEF Started, Typed, TypedRow, Invoice
  <1>7. c.sub.status = "active" => \E k \in Chain(c) : SamePeriod(c.sub, c.invoices[k])
    BY <1>5 DEF PlanBegins
  <1>8. c.invoices[j].start <= c.invoices[j].start
    BY <1>6
  <1> QED
    BY <1>4, <1>5, <1>7, <1>8 DEF Ordered

LEMMA SamePlanInSequence ==
    ASSUME NEW b, NEW c, NEW j, PlanBegins(b, c, j), OneStart(c), Ordered(b),
           NEW s \in Started(b)
    PROVE  Ordered(c)
  <1> DEFINE row(i) == IF i = j THEN s ELSE i
  <1>0. RowsStay(b, c) /\ j \in Started(c) /\ s \in Started(c) /\ s \in DOMAIN b.invoices
    BY StartedStay DEF PlanBegins, Started
  <1>1. SamePeriod(c.invoices[j], c.invoices[s]) /\ SamePeriod(c.invoices[s], b.invoices[s])
    BY <1>0 DEF OneStart, RowsStay
  <1>2. c.invoices[j].kind = "plan"
    BY <1>0 DEF Started
  <1>3. /\ RenewalRows(c) = RenewalRows(b) /\ Kind(c, "upgrade") = Kind(b, "upgrade")
        /\ Kind(c, "usage") = Kind(b, "usage")
    BY <1>0, <1>2 DEF PlanBegins, RowsStay, RenewalRows, Kind
  <1>4. Started(c) = Started(b) \union {j} /\ Chain(c) = Chain(b) \union {j}
    BY <1>0, <1>3, StartedStay DEF PlanBegins, Chain
  <1>5. s \in Chain(b) /\ Chain(b) \subseteq DOMAIN b.invoices
    BY DEF Chain, Started, RenewalRows
  <1>6. \A i \in DOMAIN b.invoices : SamePeriod(c.invoices[i], b.invoices[i])
    BY <1>0 DEF RowsStay
  <1>7. \A i \in Chain(c) : row(i) \in Chain(b) /\ SamePeriod(c.invoices[i], b.invoices[row(i)])
    BY <1>1, <1>4, <1>5, <1>6 DEF SamePeriod
  <1>8. \A i \in Started(c) : row(i) \in Started(b)
    BY <1>4
  <1>9. \A i \in Chain(c) : row(i) \in Started(b) => i \in Started(c)
    BY <1>4
  <1>10. \A i \in Chain(b) : i \in Chain(c) /\ SamePeriod(c.invoices[i], b.invoices[i])
    BY <1>4, <1>5, <1>6
  <1>11. c.sub.status = "active" => \E k \in Chain(c) : SamePeriod(c.sub, c.invoices[k])
    BY <1>4 DEF PlanBegins
  <1>12. \A i \in Kind(b, "upgrade") : \E k \in Chain(c) : SamePeriod(c.invoices[i], c.invoices[k])
    <2> TAKE i \in Kind(b, "upgrade")
    <2>1. PICK k \in Chain(b) : SamePeriod(b.invoices[i], b.invoices[k])
      BY DEF Ordered
    <2>2. i \in DOMAIN b.invoices
      BY DEF Kind
    <2> QED
      BY <1>6, <1>10, <2>1, <2>2 DEF SamePeriod
  <1>13. \A i, k \in Chain(c) : \/ i = k \/ {i, k} \subseteq Started(c)
                                \/ Apart(c.invoices[i], c.invoices[k])
    <2> TAKE i, k \in Chain(c)
    <2>1. \/ row(i) = row(k) \/ {row(i), row(k)} \subseteq Started(b)
          \/ Apart(b.invoices[row(i)], b.invoices[row(k)])
      BY <1>7 DEF Ordered
    <2>2. CASE row(i) = row(k)
      BY <1>4, <2>2
    <2>3. CASE {row(i), row(k)} \subseteq Started(b)
      BY <1>9, <2>3
    <2>4. CASE Apart(b.invoices[row(i)], b.invoices[row(k)])
      BY <1>7, <2>4 DEF Apart, SamePeriod
    <2> QED
      BY <2>1, <2>2, <2>3, <2>4
  <1>14. \A i \in RenewalRows(b) : \E k \in Chain(c) : c.invoices[i].start = c.invoices[k].end + 1
    <2> TAKE i \in RenewalRows(b)
    <2>1. PICK k \in Chain(b) : b.invoices[i].start = b.invoices[k].end + 1
      BY DEF Ordered
    <2>2. i \in DOMAIN b.invoices
      BY DEF RenewalRows
    <2> QED
      BY <1>6, <1>10, <2>1, <2>2 DEF SamePeriod
  <1>15. \A i \in Started(c), k \in Chain(c) : c.invoices[i].start <= c.invoices[k].start
    <2> TAKE i \in Started(c), k \in Chain(c)
    <2>1. b.invoices[row(i)].start <= b.invoices[row(k)].start
      BY <1>7, <1>8 DEF Ordered
    <2>2. i \in Chain(c)
      BY DEF Chain
    <2> QED
      BY <1>7, <2>1, <2>2 DEF SamePeriod
  <1>16. \A i \in Kind(b, "usage") : \E k \in Chain(c) : MonthOf(c.invoices[i], c.invoices[k])
    <2> TAKE i \in Kind(b, "usage")
    <2>1. PICK k \in Chain(b) : MonthOf(b.invoices[i], b.invoices[k])
      BY DEF Ordered
    <2>2. i \in DOMAIN b.invoices
      BY DEF Kind
    <2>3. /\ c.invoices[i].start = b.invoices[i].start /\ c.invoices[i].end = b.invoices[i].end
          /\ c.invoices[k].start = b.invoices[k].start /\ c.invoices[k].end = b.invoices[k].end
          /\ k \in Chain(c)
      BY <1>6, <1>10, <2>2 DEF SamePeriod
    <2>4. MonthOf(c.invoices[i], c.invoices[k])
      BY <2>1, <2>3, Zenon DEF MonthOf
    <2> QED
      BY <2>3, <2>4
  <1>17. \A i, k \in Kind(b, "usage") : i = k \/ Apart(c.invoices[i], c.invoices[k])
    <2>1. Kind(b, "usage") \subseteq DOMAIN b.invoices
      BY DEF Kind
    <2> QED
      BY <1>6, <2>1 DEF Ordered, Apart, SamePeriod
  <1>18. Started(c) # {}
    BY <1>0
  <1> QED
    BY <1>3, <1>11, <1>12, <1>13, <1>14, <1>15, <1>16, <1>17, <1>18 DEF Ordered

LEMMA PlanBeginsInSequence ==
    ASSUME NEW b, NEW c, NEW j, PlanBegins(b, c, j), Typed(c), InSequence(b)
    PROVE  InSequence(c)
  <1> SUFFICES ASSUME OneStart(c)
               PROVE  Ordered(c)
    BY DEF InSequence
  <1>1. Ordered(b)
    BY StartedStay DEF PlanBegins, InSequence
  <1> QED
    BY <1>1, FirstPlanInSequence, SamePlanInSequence

\* A renewal is issued for the day after the present period, where there was none.
RenewalFollows(b, c, k) ==
    /\ RowsStay(b, c) /\ b.sub.status = "active" /\ c.sub.status = "active"
    /\ SamePeriod(c.sub, b.sub)
    /\ \A i \in DOMAIN b.invoices : c.invoices[i].status = b.invoices[i].status
    /\ DOMAIN c.invoices = DOMAIN b.invoices \union {k} /\ k \notin DOMAIN b.invoices
    /\ c.invoices[k].kind = "renewal" /\ c.invoices[k].start = b.sub.end + 1
    /\ RenewalsFrom(b, b.sub.end + 1) = {}

LEMMA NothingFollows ==
    ASSUME NEW b, Typed(b), OneStart(b), Ordered(b), b.sub.status = "active",
           RenewalsFrom(b, b.sub.end + 1) = {}
    PROVE  \A i \in Chain(b) : b.invoices[i].end <= b.sub.end
  <1> DEFINE start(i) == b.invoices[i].start
             later == {i \in RenewalRows(b) : start(i) > b.sub.end}
  <1>1. PICK s \in Chain(b) : SamePeriod(b.sub, b.invoices[s])
    BY DEF Ordered
  <1>2. Chain(b) \subseteq DOMAIN b.invoices
    BY DEF Chain, Started, RenewalRows
  <1>3. \A i \in Chain(b) : /\ b.invoices[i].start \in Nat /\ b.invoices[i].end \in Nat
                            /\ b.invoices[i].start <= b.invoices[i].end
    BY <1>2 DEF Typed, TypedRow, Invoice
  <1>4. b.sub.start = b.invoices[s].start /\ b.sub.end = b.invoices[s].end
    BY <1>1 DEF SamePeriod
  <1>5. ASSUME NEW i \in Chain(b), start(i) <= b.sub.end
        PROVE  b.invoices[i].end <= b.sub.end
    <2>1. \/ i = s \/ {i, s} \subseteq Started(b) \/ Apart(b.invoices[i], b.invoices[s])
      BY <1>1 DEF Ordered
    <2>2. CASE i = s \/ {i, s} \subseteq Started(b)
      <3>1. b.invoices[i].end = b.invoices[s].end
        BY <2>2 DEF OneStart, SamePeriod
      <3> QED
        BY <1>1, <1>3, <1>4, <3>1
    <2>3. CASE Apart(b.invoices[i], b.invoices[s])
      BY <1>1, <1>3, <1>4, <1>5, <2>3 DEF Apart
    <2> QED
      BY <2>1, <2>2, <2>3
  <1>6. later = {}
    <2> SUFFICES ASSUME later # {}
                 PROVE  FALSE
      OBVIOUS
    <2> DEFINE starts == {start(i) : i \in later}
    <2>1. later \subseteq Chain(b)
      BY DEF Chain
    <2>2. starts \subseteq Nat /\ starts # {}
      BY <1>3, <2>1
    <2>3. PICK x \in starts : \A y \in starts : x <= y
      BY <2>2, Least
    <2>4. PICK i \in later : start(i) = x
      BY <2>3
    <2>5. PICK j \in Chain(b) : start(i) = b.invoices[j].end + 1
      BY <2>4 DEF Ordered
    <2>6. start(j) <= b.invoices[j].end /\ start(j) < start(i)
      BY <1>3, <2>1, <2>4, <2>5
    <2>7. j \notin later
      <3>1. j \in later => start(i) <= start(j)
        BY <2>3, <2>4
      <3> QED
        BY <1>3, <2>5, <2>6, <2>1, <2>4, <3>1
    <2>8. start(j) <= b.sub.end
      <3>1. CASE j \in RenewalRows(b)
        BY <1>1, <1>3, <1>4, <2>7, <3>1
      <3>2. CASE j \in Started(b)
        <4>1. start(j) <= b.invoices[s].start
          BY <1>1, <3>2 DEF Ordered
        <4> QED
          BY <1>1, <1>3, <1>4, <4>1
      <3> QED
        BY <3>1, <3>2 DEF Chain
    <2>9. b.invoices[j].end <= b.sub.end
      BY <1>5, <2>8
    <2>10. start(i) > b.sub.end /\ start(i) = b.sub.end + 1
      BY <1>1, <1>3, <1>4, <2>4, <2>5, <2>9
    <2> QED
      BY <2>4, <2>10 DEF RenewalsFrom, RenewalRows
  <1> SUFFICES ASSUME NEW i \in Chain(b)
               PROVE  b.invoices[i].end <= b.sub.end
    OBVIOUS
  <1>7. CASE i \in RenewalRows(b)
    <2>1. start(i) <= b.sub.end
      BY <1>1, <1>3, <1>4, <1>6, <1>7
    <2> QED
      BY <1>5, <2>1
  <1>8. CASE i \in Started(b)
    <2>1. start(i) <= b.invoices[s].start
      BY <1>1, <1>8 DEF Ordered
    <2>2. start(i) <= b.sub.end
      BY <1>1, <1>3, <1>4, <2>1
    <2> QED
      BY <1>5, <2>2
  <1> QED
    BY <1>7, <1>8 DEF Chain

LEMMA RenewalFollowsInSequence ==
    ASSUME NEW b, NEW c, NEW k, RenewalFollows(b, c, k), Typed(b), InSequence(b)
    PROVE  InSequence(c)
  <1> SUFFICES ASSUME OneStart(c)
               PROVE  Ordered(c)
    BY DEF InSequence
  <1>1. RowsStay(b, c) /\ OneStart(b) /\ Ordered(b)
    BY StartedStay DEF RenewalFollows, InSequence
  <1>2. \A i \in DOMAIN b.invoices : /\ c.invoices[i].kind = b.invoices[i].kind
                                     /\ c.invoices[i].status = b.invoices[i].status
                                     /\ c.invoices[i].start = b.invoices[i].start
                                     /\ c.invoices[i].end = b.invoices[i].end
    BY <1>1 DEF RenewalFollows, RowsStay, SamePeriod
  <1>3. /\ DOMAIN c.invoices = DOMAIN b.invoices \union {k} /\ k \notin DOMAIN b.invoices
        /\ c.invoices[k].kind = "renewal" /\ c.invoices[k].start = b.sub.end + 1
        /\ b.sub.status = "active" /\ SamePeriod(c.sub, b.sub)
    BY DEF RenewalFollows
  <1>4. Started(c) = Started(b) /\ RenewalRows(c) = RenewalRows(b) \union {k}
    BY <1>2, <1>3 DEF Started, RenewalRows
  <1>5. /\ Kind(c, "upgrade") = Kind(b, "upgrade") /\ Kind(c, "usage") = Kind(b, "usage")
        /\ Kind(b, "upgrade") \subseteq DOMAIN b.invoices
        /\ Kind(b, "usage") \subseteq DOMAIN b.invoices
    BY <1>2, <1>3 DEF Kind
  <1>6. Chain(c) = Chain(b) \union {k} /\ Chain(b) \subseteq DOMAIN b.invoices
    BY <1>4 DEF Chain, Started, RenewalRows
  <1>7. \A i \in Chain(b) : b.invoices[i].end <= b.sub.end
    BY <1>1, <1>3, NothingFollows DEF RenewalFollows
  <1>8. \A i \in Chain(b) : /\ b.invoices[i].start \in Nat /\ b.invoices[i].end \in Nat
                            /\ b.invoices[i].start <= b.invoices[i].end
    BY <1>6 DEF Typed, TypedRow, Invoice
  <1>9. PICK s \in Chain(b) : SamePeriod(b.sub, b.invoices[s])
    BY <1>1, <1>3 DEF Ordered
  <1>10. b.sub.end = b.invoices[s].end /\ b.sub.end \in Nat
    BY <1>8, <1>9 DEF SamePeriod
  <1>11. \A r : \A i \in Chain(b) : SamePeriod(r, b.invoices[i]) => SamePeriod(r, c.invoices[i])
    BY <1>2, <1>6 DEF SamePeriod
  <1>12. \E i \in Chain(c) : SamePeriod(c.sub, c.invoices[i])
    BY <1>3, <1>6, <1>9, <1>11 DEF SamePeriod
  <1>13. Started(c) # {}
    BY <1>1, <1>4, <1>9 DEF Ordered
  <1>14. \A i \in Kind(b, "upgrade") : \E j \in Chain(c) : SamePeriod(c.invoices[i], c.invoices[j])
    BY <1>1, <1>2, <1>5, <1>6 DEF Ordered, SamePeriod
  <1>15. \A i, j \in Chain(c) : \/ i = j \/ {i, j} \subseteq Started(c)
                                \/ Apart(c.invoices[i], c.invoices[j])
    <2>1. \A i, j \in Chain(b) : \/ i = j \/ {i, j} \subseteq Started(c)
                                 \/ Apart(c.invoices[i], c.invoices[j])
      BY <1>1, <1>2, <1>4, <1>6 DEF Ordered, Apart
    <2>2. \A i \in Chain(b) : c.invoices[i].end < c.invoices[k].start
      BY <1>2, <1>3, <1>6, <1>7, <1>8, <1>10
    <2> QED
      BY <1>6, <2>1, <2>2 DEF Apart
  <1>16. \A i \in RenewalRows(c) : \E j \in Chain(c) : c.invoices[i].start = c.invoices[j].end + 1
    <2> TAKE i \in RenewalRows(c)
    <2>1. CASE i = k
      BY <1>2, <1>3, <1>6, <1>9, <1>10, <2>1
    <2>2. CASE i \in RenewalRows(b)
      <3>1. PICK j \in Chain(b) : b.invoices[i].start = b.invoices[j].end + 1
        BY <1>1, <2>2 DEF Ordered
      <3>2. i \in DOMAIN b.invoices
        BY <2>2 DEF RenewalRows
      <3> QED
        BY <1>2, <1>6, <3>1, <3>2
    <2> QED
      BY <1>4, <2>1, <2>2
  <1>17. \A i \in Started(c), j \in Chain(c) : c.invoices[i].start <= c.invoices[j].start
    <2> TAKE i \in Started(c), j \in Chain(c)
    <2>0. i \in Started(b) /\ i \in Chain(b)
      BY <1>4 DEF Chain
    <2>1. CASE j \in Chain(b)
      <3>1. b.invoices[i].start <= b.invoices[j].start
        BY <1>1, <2>0, <2>1 DEF Ordered
      <3> QED
        BY <1>2, <1>6, <2>0, <2>1, <3>1
    <2>2. CASE j = k
      BY <1>2, <1>3, <1>6, <1>7, <1>8, <1>10, <2>0, <2>2
    <2> QED
      BY <1>6, <2>1, <2>2
  <1>18. \A i \in Kind(b, "usage") : \E j \in Chain(c) : MonthOf(c.invoices[i], c.invoices[j])
    <2> TAKE i \in Kind(b, "usage")
    <2>1. PICK j \in Chain(b) : MonthOf(b.invoices[i], b.invoices[j])
      BY <1>1 DEF Ordered
    <2>2. /\ c.invoices[i].start = b.invoices[i].start /\ c.invoices[i].end = b.invoices[i].end
          /\ c.invoices[j].start = b.invoices[j].start /\ c.invoices[j].end = b.invoices[j].end
          /\ j \in Chain(c)
      BY <1>2, <1>5, <1>6
    <2>3. MonthOf(c.invoices[i], c.invoices[j])
      BY <2>1, <2>2, Zenon DEF MonthOf
    <2> QED
      BY <2>2, <2>3
  <1>19. \A i, j \in Kind(b, "usage") : i = j \/ Apart(c.invoices[i], c.invoices[j])
    BY <1>1, <1>2, <1>5 DEF Ordered, Apart
  <1> QED
    BY <1>5, <1>12, <1>13, <1>14, <1>15, <1>16, <1>17, <1>18, <1>19 DEF Ordered

\* Months of one period, or of two that do not overlap, are the same or do not overlap.
LEMMA MonthsOfPeriods ==
    ASSUME NEW r, r.start \in Nat, r.end \in Nat, NEW s, s.start \in Nat, s.end \in Nat,
           SamePeriod(r, s) \/ Apart(r, s),
           NEW v, v.start \in Nat, v.end \in Nat, MonthOf(v, r),
           NEW w, w.start \in Nat, w.end \in Nat, MonthOf(w, s)
    PROVE  SamePeriod(v, w) \/ Apart(v, w)
  <1>1. PICK k \in Nat : v.start = r.start + k * DaysInMonth
    BY DEF MonthOf
  <1>2. PICK l \in Nat : w.start = s.start + l * DaysInMonth
    BY DEF MonthOf
  <1>3. k * DaysInMonth \in Nat /\ l * DaysInMonth \in Nat /\ DaysInMonth \in Nat
    BY LaterMonths, Calendar
  <1>4. /\ v.start <= v.end /\ v.end <= r.end /\ v.end < v.start + DaysInMonth
        /\ v.end = r.end \/ v.end = v.start + DaysInMonth - 1
        /\ w.start <= w.end /\ w.end <= s.end /\ w.end < w.start + DaysInMonth
        /\ w.end = s.end \/ w.end = w.start + DaysInMonth - 1
    BY DEF MonthOf
  <1>5. r.start <= v.start /\ s.start <= w.start
    <2> DEFINE m == k * DaysInMonth
               n == l * DaysInMonth
    <2>1. v.start = r.start + m /\ w.start = s.start + n /\ m \in Nat /\ n \in Nat
      BY <1>1, <1>2, <1>3
    <2> HIDE DEF m, n
    <2> QED
      BY <2>1
  <1>6. CASE Apart(r, s)
    BY <1>4, <1>5, <1>6 DEF Apart
  <1>7. CASE SamePeriod(r, s)
    <2> DEFINE m == k * DaysInMonth
               n == l * DaysInMonth
    <2>1. /\ v.start = r.start + m /\ w.start = r.start + n /\ m \in Nat /\ n \in Nat
          /\ r.end = s.end
      BY <1>1, <1>2, <1>3, <1>7 DEF SamePeriod
    <2>2. k < l => m + DaysInMonth <= n
      BY LaterMonths
    <2>3. l < k => n + DaysInMonth <= m
      BY LaterMonths
    <2>4. k = l => m = n
      OBVIOUS
    <2> HIDE DEF m, n
    <2>5. CASE k < l
      BY <1>3, <1>4, <2>1, <2>2, <2>5 DEF Apart
    <2>6. CASE l < k
      BY <1>3, <1>4, <2>1, <2>3, <2>6 DEF Apart
    <2>7. CASE k = l
      <3>1. v.start = w.start
        BY <2>1, <2>4, <2>7
      <3>2. v.end = w.end
        BY <1>3, <1>4, <2>1, <3>1
      <3> QED
        BY <3>1, <3>2 DEF SamePeriod
    <2> QED
      BY <2>5, <2>6, <2>7
  <1> QED
    BY <1>6, <1>7

LEMMA BillsInSequence ==
    ASSUME NEW b, Typed(b), b.sub = sub, Paid, today \in Int, NEW c, Bills(b, c), InSequence(b)
    PROVE  InSequence(c)
  <1> SUFFICES ASSUME OneStart(c)
               PROVE  Ordered(c)
    BY DEF InSequence
  <1> DEFINE new == DOMAIN c.invoices \ DOMAIN b.invoices
  <1>1. /\ c.sub = b.sub /\ DOMAIN b.invoices \subseteq DOMAIN c.invoices
        /\ \A i \in DOMAIN b.invoices : c.invoices[i] = b.invoices[i]
        /\ \A i \in new : TypedRow(c.invoices[i]) /\ c.invoices[i].kind = "usage"
        /\ \A i, j \in new : i # j => Apart(c.invoices[i], c.invoices[j])
    BY DEF Bills
  <1>2. \A i \in new : \E m \in DOMAIN UsageWindows :
           /\ c.invoices[i].start = UsageWindows[m].start
           /\ c.invoices[i].end = UsageWindows[m].end
           /\ ~IsBilled(b, UsageWindows[m])
    BY DEF Bills
  <1> HIDE DEF new
  <1>3. \A i \in DOMAIN c.invoices : i \in DOMAIN b.invoices \/ i \in new
    BY DEF new
  <1>4. /\ Started(c) = Started(b) /\ RenewalRows(c) = RenewalRows(b)
        /\ Kind(c, "upgrade") = Kind(b, "upgrade")
    BY <1>1, <1>3 DEF Started, RenewalRows, Kind
  <1>5. Chain(c) = Chain(b) /\ Chain(b) \subseteq DOMAIN b.invoices /\ RenewalRows(b) \subseteq Chain(b)
        /\ Started(b) \subseteq Chain(b)
    BY <1>4 DEF Chain, Started, RenewalRows
  <1>6. OneStart(b)
    BY <1>1, <1>4, <1>5 DEF OneStart
  <1>7. Ordered(b)
    BY <1>6 DEF InSequence
  <1>8. b.sub.status = "active" /\ TypedSub(sub) /\ sub.start \in Nat /\ sub.end \in Nat
    BY DEF Paid, Typed, TypedSub
  <1>9. PICK s \in Chain(b) : SamePeriod(b.sub, b.invoices[s])
    BY <1>7, <1>8 DEF Ordered
  <1>10. ASSUME NEW i \in new
         PROVE  /\ MonthOf(c.invoices[i], b.invoices[s])
                /\ c.invoices[i].start \in Nat /\ c.invoices[i].end \in Nat
                /\ ~IsBilled(b, c.invoices[i])
    <2>1. PICK m \in DOMAIN UsageWindows : /\ c.invoices[i].start = UsageWindows[m].start
                                           /\ c.invoices[i].end = UsageWindows[m].end
                                           /\ ~IsBilled(b, UsageWindows[m])
      BY <1>2
    <2>2. PICK w : w = UsageWindows[m]
      OBVIOUS
    <2>3. /\ m \in Nat /\ m >= 1
          /\ w.start = sub.start + (m - 1) * DaysInMonth
          /\ w.start \in Nat /\ w.end \in Nat
          /\ w.start <= w.end /\ w.end <= sub.end /\ w.end < w.start + DaysInMonth
          /\ w.end = sub.end \/ w.end = w.start + DaysInMonth - 1
      BY <1>8, <2>2, MonthsOver
    <2>4. b.invoices[s].start = sub.start /\ b.invoices[s].end = sub.end
      BY <1>9 DEF SamePeriod
    <2>5. m - 1 \in Nat
      BY <2>3
    <2>6. c.invoices[i].start = w.start /\ c.invoices[i].end = w.end
      BY <2>1, <2>2
    <2>7. \E k \in Nat : c.invoices[i].start = b.invoices[s].start + k * DaysInMonth
      BY <2>3, <2>4, <2>5, <2>6
    <2>8. MonthOf(c.invoices[i], b.invoices[s])
      BY <2>3, <2>4, <2>6, <2>7 DEF MonthOf
    <2>9. ~IsBilled(b, c.invoices[i])
      BY <2>1 DEF IsBilled
    <2> QED
      BY <2>3, <2>6, <2>8, <2>9
  <1>11. \A i \in DOMAIN b.invoices : b.invoices[i].start \in Nat /\ b.invoices[i].end \in Nat
    BY DEF Typed, TypedRow, Invoice
  <1>12. ASSUME NEW i \in new, NEW j \in Kind(b, "usage")
         PROVE  Apart(c.invoices[i], c.invoices[j]) /\ Apart(c.invoices[j], c.invoices[i])
    <2>1. PICK r \in Chain(b) : MonthOf(b.invoices[j], b.invoices[r])
      BY <1>7 DEF Ordered
    <2>2. SamePeriod(b.invoices[s], b.invoices[r]) \/ Apart(b.invoices[s], b.invoices[r])
      <3>1. \/ s = r \/ {s, r} \subseteq Started(b) \/ Apart(b.invoices[s], b.invoices[r])
        BY <1>7, <1>9 DEF Ordered
      <3> QED
        BY <1>6, <3>1 DEF OneStart, SamePeriod
    <2>3. j \in DOMAIN b.invoices /\ b.invoices[j].kind = "usage" /\ c.invoices[j] = b.invoices[j]
      BY <1>1 DEF Kind
    <2>4. SamePeriod(c.invoices[i], b.invoices[j]) \/ Apart(c.invoices[i], b.invoices[j])
      <3>1. s \in DOMAIN b.invoices /\ r \in DOMAIN b.invoices
        BY <1>5, <1>9
      <3> QED
        BY <1>10, <1>11, <2>1, <2>2, <2>3, <3>1, MonthsOfPeriods
    <2>5. ~SamePeriod(c.invoices[i], b.invoices[j])
      BY <1>10, <2>3 DEF IsBilled, SamePeriod
    <2> QED
      BY <2>3, <2>4, <2>5 DEF Apart
  <1>13. \A i \in Kind(c, "usage") : i \in Kind(b, "usage") \/ i \in new
    BY <1>1, <1>3 DEF Kind
  <1>14. \A i \in Kind(b, "usage") : c.invoices[i] = b.invoices[i]
    BY <1>1 DEF Kind
  <1>15. \A i \in Kind(c, "usage") : \E j \in Chain(c) : MonthOf(c.invoices[i], c.invoices[j])
    <2> TAKE i \in Kind(c, "usage")
    <2>1. CASE i \in Kind(b, "usage")
      <3>1. PICK j \in Chain(b) : MonthOf(b.invoices[i], b.invoices[j])
        BY <1>7, <2>1 DEF Ordered
      <3>2. c.invoices[j] = b.invoices[j] /\ c.invoices[i] = b.invoices[i]
        BY <1>1, <1>5, <1>14, <2>1
      <3> QED
        BY <1>5, <3>1, <3>2
    <2>2. CASE i \in new
      <3>1. c.invoices[s] = b.invoices[s]
        BY <1>1, <1>5, <1>9
      <3> QED
        BY <1>5, <1>9, <1>10, <2>2, <3>1
    <2> QED
      BY <1>13, <2>1, <2>2
  <1>16. \A i, j \in Kind(c, "usage") : i = j \/ Apart(c.invoices[i], c.invoices[j])
    <2> TAKE i, j \in Kind(c, "usage")
    <2>1. CASE i \in Kind(b, "usage") /\ j \in Kind(b, "usage")
      BY <1>7, <1>14, <2>1 DEF Ordered
    <2>2. CASE i \in new /\ j \in new
      BY <1>1, <2>2
    <2> QED
      BY <1>12, <1>13, <2>1, <2>2
  <1>17. \A i \in Chain(b) : c.invoices[i] = b.invoices[i]
    BY <1>1, <1>5
  <1>18. \A i \in Kind(b, "upgrade") : c.invoices[i] = b.invoices[i]
    BY <1>1 DEF Kind
  <1>19. \A i \in Started(b) : i \in Chain(b)
    BY <1>5
  <1>20. \A i \in RenewalRows(b) : i \in Chain(b)
    BY <1>5
  <1>21. \A i \in Kind(c, "upgrade") : \E j \in Chain(c) : SamePeriod(c.invoices[i], c.invoices[j])
    BY <1>4, <1>5, <1>7, <1>17, <1>18 DEF Ordered
  <1>22. \A i, j \in Chain(c) : \/ i = j \/ {i, j} \subseteq Started(c)
                                \/ Apart(c.invoices[i], c.invoices[j])
    BY <1>4, <1>5, <1>7, <1>17 DEF Ordered
  <1>23. \A i \in RenewalRows(c) : \E j \in Chain(c) : c.invoices[i].start = c.invoices[j].end + 1
    BY <1>4, <1>5, <1>7, <1>17, <1>20 DEF Ordered
  <1>24. \A i \in Started(c), j \in Chain(c) : c.invoices[i].start <= c.invoices[j].start
    BY <1>4, <1>5, <1>7, <1>17, <1>19 DEF Ordered
  <1>25. /\ c.sub.status = "active" => \E j \in Chain(c) : SamePeriod(c.sub, c.invoices[j])
         /\ Chain(c) # {} => Started(c) # {}
    BY <1>1, <1>4, <1>5, <1>7, <1>9, <1>17 DEF Ordered
  <1> QED
    BY <1>15, <1>16, <1>21, <1>22, <1>23, <1>24, <1>25 DEF Ordered
-----------------------------------------------------------------------------
(* Each handler keeps the sequence *)

LEMMA RowsSameStay ==
    ASSUME NEW b, NEW c, RowsSame(b, c)
    PROVE  /\ RowsStay(b, c) /\ Started(c) = Started(b) /\ DOMAIN c.invoices = DOMAIN b.invoices
           /\ \A kind : Kind(c, kind) = Kind(b, kind)
  BY DEF RowsSame, SameTerms, RowsStay, SamePeriod, Started, Kind

LEMMA RowsSameOn ==
    ASSUME NEW b, NEW c, RowsSame(b, c), SamePeriod(c.sub, b.sub), c.sub.status = b.sub.status
    PROVE  PeriodsStay(b, c)
  BY RowsSameStay DEF PeriodsStay

LEMMA ActivatedPeriods ==
    ASSUME NEW b, Typed(b), NEW inv, TypedRow(inv), NEW c, c = Activated(b, inv)
    PROVE  /\ RowsSame(b, c)
           /\ inv.kind \in {"plan", "upgrade"} => c.sub.status = "active" /\ SamePeriod(c.sub, inv)
           /\ inv.kind \notin {"plan", "upgrade"} =>
                 c.sub = b.sub \/ (inv.kind = "renewal" /\ SamePeriod(c.sub, inv))
  <1>0. inv.kind \in InvoiceKinds
    BY DEF TypedRow, Row
  <1>1. RowsSame(b, b)
    BY DEF RowsSame, SameTerms
  <1>2. \A d : d.invoices = b.invoices => RowsSame(b, d)
    BY DEF RowsSame, SameTerms
  <1>3. CASE inv.kind \in {"usage", "manual"}
    BY <1>1, <1>3 DEF Activated
  <1>4. CASE inv.kind = "addon"
    <2>1. c = AddonActivated(b, inv)
      BY <1>4 DEF Activated
    <2> QED
      BY <1>4, <2>1, AddonActivatedCarries
  <1>5. CASE inv.kind = "renewal" /\ inv.start > today
    BY <1>1, <1>5 DEF Activated
  <1>6. CASE inv.kind = "renewal" /\ ~(inv.start > today)
    <2>1. PICK d : d = PlanActivated(b, inv)
      OBVIOUS
    <2>2. c = AddonsRenewed(d, inv)
      BY <1>6, <2>1 DEF Activated
    <2>3. /\ Carries(b, d) /\ d.invoices = b.invoices
          /\ d.sub.start = inv.start /\ d.sub.end = inv.end
      BY <1>6, <2>1, PlanActivatedCarries
    <2>4. Typed(d)
      BY <2>3 DEF Carries
    <2>5. c.invoices = d.invoices /\ c.sub = d.sub
      BY <2>2, <2>4, AddonsRenewedCarries
    <2> QED
      BY <1>2, <1>6, <2>3, <2>5 DEF SamePeriod
  <1>7. CASE inv.kind \in {"plan", "upgrade"}
    <2>1. c = PlanActivated(b, inv)
      BY <1>7 DEF Activated
    <2>2. /\ c.invoices = b.invoices /\ c.sub.status = "active"
          /\ c.sub.start = inv.start /\ c.sub.end = inv.end
      BY <1>7, <2>1, PlanActivatedCarries
    <2> QED
      BY <1>2, <1>7, <2>2 DEF SamePeriod
  <1> QED
    BY <1>0, <1>3, <1>4, <1>5, <1>6, <1>7 DEF InvoiceKinds

\* A row that takes no effect yet, or an upgrade of the present period that costs nothing.
LEMMA IssuedPeriods ==
    ASSUME NEW b, Shape(b), NEW inv, Row(inv), NEW c, c = Issued(b, inv)
    PROVE  /\ RowsStay(b, c) /\ c.sub = b.sub
           /\ \A i \in DOMAIN b.invoices : c.invoices[i] = b.invoices[i]
           /\ \E k : /\ k \notin DOMAIN b.invoices /\ c.invoices[k] = inv
                     /\ DOMAIN c.invoices = DOMAIN b.invoices \union {k}
  <1>1. Adds(b, inv, c)
    BY IssuedRow
  <1> QED
    BY <1>1 DEF Adds, RowsStay, SamePeriod

LEMMA IssuedInSequence ==
    ASSUME NEW b, Shape(b), NEW inv, Row(inv), NEW c, c = Issued(b, inv),
           inv.kind \notin {"renewal", "usage"}, ~(inv.kind = "plan" /\ inv.status = "paid"),
           inv.kind = "upgrade" => b.sub.status = "active" /\ SamePeriod(inv, b.sub)
    PROVE  PeriodsStay(b, c)
  <1>1. /\ RowsStay(b, c) /\ c.sub = b.sub
        /\ \A i \in DOMAIN b.invoices : c.invoices[i] = b.invoices[i]
    BY IssuedPeriods
  <1>2. PICK k : /\ k \notin DOMAIN b.invoices /\ c.invoices[k] = inv
                 /\ DOMAIN c.invoices = DOMAIN b.invoices \union {k}
    BY IssuedPeriods
  <1>3. Started(c) \subseteq Started(b)
    BY <1>1, <1>2 DEF Started
  <1>4. \A i \in DOMAIN c.invoices \ DOMAIN b.invoices : c.invoices[i] = inv
    BY <1>2
  <1> QED
    BY <1>1, <1>3, <1>4 DEF PeriodsStay, SamePeriod

LEMMA FreePlanInSequence ==
    ASSUME NEW b, Typed(b), InSequence(b),
           NEW inv, TypedRow(inv), inv.kind \in {"plan", "upgrade"},
           inv.kind = "upgrade" => b.sub.status = "active" /\ SamePeriod(inv, b.sub),
           NEW bought, TypedRow(bought), SameTerms(inv, bought), bought.status = "paid",
           NEW free, free = Issued(b, bought), Typed(free),
           NEW c, c = Activated(free, inv), Typed(c)
    PROVE  InSequence(c)
  <1>0. Shape(b) /\ Row(bought)
    BY DEF Typed, TypedRow
  <1>1. /\ RowsStay(b, free) /\ free.sub = b.sub
        /\ \A i \in DOMAIN b.invoices : free.invoices[i] = b.invoices[i]
    BY <1>0, IssuedPeriods
  <1>2. PICK k : /\ k \notin DOMAIN b.invoices /\ free.invoices[k] = bought
                 /\ DOMAIN free.invoices = DOMAIN b.invoices \union {k}
    BY <1>0, IssuedPeriods
  <1>3. RowsSame(free, c) /\ c.sub.status = "active" /\ SamePeriod(c.sub, inv)
    BY ActivatedPeriods
  <1>4. /\ RowsStay(free, c) /\ Started(c) = Started(free)
        /\ DOMAIN c.invoices = DOMAIN free.invoices
    BY <1>3, RowsSameStay
  <1>5. RowsStay(b, c)
    BY <1>1, <1>4 DEF RowsStay, SamePeriod
  <1>6. bought.kind = inv.kind /\ SamePeriod(bought, inv)
    BY DEF SameTerms, SamePeriod
  <1>7. c.invoices[k].kind = inv.kind /\ SamePeriod(c.invoices[k], inv)
    BY <1>2, <1>4, <1>6 DEF RowsStay, SamePeriod
  <1>8. CASE inv.kind = "plan"
    <2>1. k \in Started(c) /\ Started(c) \subseteq Started(b) \union {k}
      BY <1>1, <1>2, <1>4, <1>6, <1>8 DEF Started
    <2>2. PlanBegins(b, c, k)
      BY <1>2, <1>3, <1>4, <1>5, <1>7, <2>1 DEF PlanBegins, SamePeriod
    <2> QED
      BY <2>2, PlanBeginsInSequence
  <1>9. CASE inv.kind = "upgrade"
    <2>1. Started(c) \subseteq Started(b)
      BY <1>1, <1>2, <1>4, <1>6, <1>9 DEF Started
    <2>2. \A i \in DOMAIN c.invoices \ DOMAIN b.invoices : i = k
      BY <1>2, <1>4
    <2>3. PeriodsStay(b, c)
      BY <1>3, <1>5, <1>7, <1>9, <2>1, <2>2 DEF PeriodsStay, SamePeriod
    <2> QED
      BY <2>3, PeriodsStayInSequence
  <1> QED
    BY <1>8, <1>9

\* The payment that completes an invoice.
LEMMA PaidInSequence ==
    ASSUME NEW b, Typed(b), InSequence(b), NEW i \in DOMAIN b.invoices,
           NEW inv, inv = b.invoices[i],
           NEW done, Settled(b, done, i), Typed(done), NEW c, c = Activated(done, inv), Typed(c)
    PROVE  InSequence(c)
  <1>1. TypedRow(inv)
    BY DEF Typed
  <1>2. /\ RowsSame(done, c)
        /\ inv.kind \in {"plan", "upgrade"} => c.sub.status = "active" /\ SamePeriod(c.sub, inv)
        /\ inv.kind \notin {"plan", "upgrade"} =>
              c.sub = done.sub \/ (inv.kind = "renewal" /\ SamePeriod(c.sub, inv))
    BY <1>1, ActivatedPeriods
  <1>3. /\ RowsStay(done, c) /\ Started(c) = Started(done)
        /\ DOMAIN c.invoices = DOMAIN done.invoices
    BY <1>2, RowsSameStay
  <1>4. /\ done.sub = b.sub /\ DOMAIN done.invoices = DOMAIN b.invoices
        /\ \A j \in DOMAIN b.invoices \ {i} : done.invoices[j] = b.invoices[j]
        /\ SameTerms(b.invoices[i], done.invoices[i]) /\ done.invoices[i].status = "paid"
    BY DEF Settled
  <1>5. RowsStay(b, done)
    BY <1>4 DEF RowsStay, SameTerms, SamePeriod
  <1>6. RowsStay(b, c)
    BY <1>3, <1>5 DEF RowsStay, SamePeriod
  <1>7. done.invoices[i].kind = inv.kind
    BY <1>4 DEF SameTerms
  <1>8. CASE inv.kind = "plan"
    <2>1. i \in Started(c) /\ Started(c) \subseteq Started(b) \union {i}
      BY <1>3, <1>4, <1>7, <1>8 DEF Started
    <2>2. SamePeriod(c.sub, c.invoices[i])
      BY <1>2, <1>6, <1>8 DEF RowsStay, SamePeriod
    <2>3. PlanBegins(b, c, i)
      BY <1>3, <1>4, <1>6, <2>1, <2>2 DEF PlanBegins
    <2> QED
      BY <2>3, PlanBeginsInSequence
  <1>9. CASE inv.kind # "plan"
    <2>1. Started(c) \subseteq Started(b)
      BY <1>3, <1>4, <1>7, <1>9 DEF Started
    <2>2. DOMAIN c.invoices = DOMAIN b.invoices
      BY <1>3, <1>4
    <2>3. inv.kind \in {"upgrade", "renewal"} => i \in Kind(b, "upgrade") \union Kind(b, "renewal")
      BY DEF Kind
    <2>4. \/ c.sub = b.sub
          \/ inv.kind \in {"upgrade", "renewal"} /\ SamePeriod(c.sub, inv)
      BY <1>2, <1>4, <1>9
    <2>5. c.sub.status = "active" =>
             \/ b.sub.status = "active" /\ SamePeriod(c.sub, b.sub)
             \/ \E j \in Kind(b, "upgrade") \union Kind(b, "renewal") :
                   SamePeriod(c.sub, b.invoices[j])
      BY <2>3, <2>4 DEF SamePeriod
    <2>6. PeriodsStay(b, c)
      BY <1>6, <2>1, <2>2, <2>5 DEF PeriodsStay
    <2> QED
      BY <2>6, PeriodsStayInSequence
  <1> QED
    BY <1>8, <1>9

LEMMA RecordsInSequence ==
    ASSUME NEW b, Typed(b), InSequence(b), NEW payment, TypedPayment(payment, DOMAIN b.invoices),
           NEW inv, inv = b.invoices[payment.invoice], NEW c, Records(b, inv, payment, c)
    PROVE  InSequence(c)
  <1> DEFINE i == payment.invoice
  <1>1. PICK paid : paid = WithPayment(b, payment)
    OBVIOUS
  <1>2. PICK done : done = WithStatus(paid, i, "paid")
    OBVIOUS
  <1>3. Typed(paid) /\ paid.sub = b.sub /\ paid.invoices = b.invoices
    BY <1>1, PaymentTyped
  <1>4. i \in DOMAIN b.invoices /\ i \in DOMAIN paid.invoices /\ TypedRow(inv)
    BY <1>3 DEF TypedPayment, Typed
  <1>5. CASE c = paid
    <2>1. RowsSame(b, c) /\ SamePeriod(c.sub, b.sub) /\ c.sub.status = b.sub.status
      BY <1>3, <1>5 DEF RowsSame, SameTerms, SamePeriod
    <2> QED
      BY <2>1, RowsSameOn, PeriodsStayInSequence
  <1>6. CASE c = Activated(done, inv)
    <2>1. Settled(b, done, i)
      BY <1>1, <1>2, <1>4, PaymentSettles DEF Typed
    <2>2. Typed(done)
      BY <1>2, <1>3, <1>4, StatusTyped
    <2>3. Typed(c)
      BY <1>4, <1>6, <2>2, ActivatedCarries DEF Carries
    <2> QED
      BY <1>4, <1>6, <2>1, <2>2, <2>3, PaidInSequence
  <1> QED
    BY <1>1, <1>2, <1>5, <1>6 DEF Records

LEMMA RenewsInSequence ==
    ASSUME NEW b, Typed(b), InSequence(b), b.sub.status = "active", NEW c, Renews(b, c)
    PROVE  InSequence(c)
  <1>1. CASE c = b
    BY <1>1
  <1>2. ASSUME NEW asked, Typed(asked), asked.invoices = b.invoices, SamePlan(b.sub, asked.sub)
        PROVE  PeriodsStay(b, asked)
    <2>1. RowsSame(b, asked)
      BY <1>2 DEF RowsSame, SameTerms
    <2> QED
      BY <1>2, <2>1, RowsSameOn DEF SamePlan, SamePeriod
  <1>3. ASSUME NEW asked, Typed(asked), asked.invoices = b.invoices, SamePlan(b.sub, asked.sub),
               NEW inv, RenewalsFrom(b, b.sub.end + 1) = {}, TypedRow(inv), inv.kind = "renewal",
               inv.start = b.sub.end + 1, c = Issued(asked, inv)
        PROVE  InSequence(c)
    <2>0. Shape(asked) /\ Row(inv)
      BY <1>3 DEF Typed, TypedRow
    <2>1. /\ RowsStay(asked, c) /\ c.sub = asked.sub
          /\ \A i \in DOMAIN asked.invoices : c.invoices[i] = asked.invoices[i]
      BY <1>3, <2>0, IssuedPeriods
    <2>2. PICK k : /\ k \notin DOMAIN asked.invoices /\ c.invoices[k] = inv
                   /\ DOMAIN c.invoices = DOMAIN asked.invoices \union {k}
      BY <1>3, <2>0, IssuedPeriods
    <2>3. RowsStay(b, c)
      BY <1>3, <2>1 DEF RowsStay
    <2>4. c.sub.status = "active" /\ SamePeriod(c.sub, b.sub)
      BY <1>3, <2>1 DEF SamePlan, SamePeriod
    <2>5. RenewalFollows(b, c, k)
      BY <1>3, <2>1, <2>2, <2>3, <2>4 DEF RenewalFollows
    <2> QED
      BY <2>5, RenewalFollowsInSequence
  <1>4. ASSUME NEW j \in DOMAIN b.invoices, b.invoices[j].kind = "renewal",
               c = Activated(b, b.invoices[j])
        PROVE  InSequence(c)
    <2>1. PICK inv : inv = b.invoices[j]
      OBVIOUS
    <2>2. TypedRow(inv) /\ inv.kind = "renewal" /\ c = Activated(b, inv)
      BY <1>4, <2>1 DEF Typed
    <2>3. RowsSame(b, c) /\ (c.sub = b.sub \/ SamePeriod(c.sub, inv))
      BY <2>2, ActivatedPeriods
    <2>4. /\ RowsStay(b, c) /\ Started(c) = Started(b) /\ DOMAIN c.invoices = DOMAIN b.invoices
      BY <2>3, RowsSameStay
    <2>5. j \in Kind(b, "upgrade") \union Kind(b, "renewal")
      BY <1>4 DEF Kind
    <2>6. \/ SamePeriod(c.sub, b.sub)
          \/ \E i \in Kind(b, "upgrade") \union Kind(b, "renewal") :
                SamePeriod(c.sub, b.invoices[i])
      BY <2>1, <2>3, <2>5 DEF SamePeriod
    <2>7. PeriodsStay(b, c)
      BY <2>4, <2>6 DEF PeriodsStay
    <2> QED
      BY <2>7, PeriodsStayInSequence
  <1>5. ASSUME NEW asked, Carries(b, asked), asked.invoices = b.invoices,
               SamePlan(b.sub, asked.sub),
               \/ c = asked
               \/ \E inv : /\ RenewalsFrom(b, b.sub.end + 1) = {}
                           /\ TypedRow(inv) /\ inv.kind = "renewal"
                           /\ inv.status = "issued" /\ inv.start = b.sub.end + 1
                           /\ c = Issued(asked, inv)
        PROVE  InSequence(c)
    <2>1. Typed(asked)
      BY <1>5 DEF Carries
    <2>2. CASE c = asked
      BY <1>2, <1>5, <2>1, <2>2, PeriodsStayInSequence
    <2> QED
      BY <1>3, <1>5, <2>1, <2>2
  <1> QED
    BY <1>1, <1>4, <1>5 DEF Renews

LEMMA OverdueInSequence ==
    ASSUME NEW b, Typed(b), InSequence(b), NEW c, c = BecomeOverdue(b)
    PROVE  InSequence(c)
  <1>0. Shape(b)
    BY DEF Typed
  <1>1. Quiet(b, c, today)
    BY <1>0, OverdueQuietly
  <1>2. DOMAIN c.invoices = DOMAIN b.invoices
    BY <1>0 DEF Shape, BecomeOverdue
  <1>3. \A i \in DOMAIN b.invoices : /\ c.invoices[i].kind = b.invoices[i].kind
                                     /\ SamePeriod(c.invoices[i], b.invoices[i])
                                     /\ c.invoices[i].status = "paid" <=> b.invoices[i].status = "paid"
    BY <1>1 DEF Quiet, SameTerms, SamePeriod
  <1>4. RowsStay(b, c) /\ Started(c) = Started(b)
    BY <1>2, <1>3 DEF RowsStay, Started
  <1>5. c.sub.status = b.sub.status /\ SamePeriod(c.sub, b.sub)
    BY <1>1 DEF Quiet, SamePlan, SamePeriod
  <1>6. PeriodsStay(b, c)
    BY <1>2, <1>4, <1>5 DEF PeriodsStay
  <1> QED
    BY <1>6, PeriodsStayInSequence

LEMMA JobsInSequence ==
    ASSUME NEW b, Typed(b), b.sub = sub, UsageTyped, InSequence(b),
           NEW billed, NEW renewed, NEW books, JobsDone(b, billed, renewed, books)
    PROVE  InSequence(books)
  <1>0. today \in Int
    BY Calendar DEF UsageTyped, Days
  <1>1. Typed(billed) /\ billed.sub = sub /\ InSequence(billed)
    <2>1. CASE Paid
      <3>1. Shape(billed) /\ Bills(b, billed)
        BY <2>1, UsageBills DEF JobsDone
      <3>2. Typed(billed) /\ billed.sub = sub
        BY <3>1, UsageBilledCarries DEF Bills, Carries
      <3> QED
        BY <1>0, <2>1, <3>1, <3>2, BillsInSequence
    <2>2. CASE ~Paid
      BY <2>2 DEF JobsDone
    <2> QED
      BY <2>1, <2>2
  <1>2. Typed(renewed) /\ InSequence(renewed)
    <2>1. CASE Paid
      <3>1. Renews(billed, renewed) /\ billed.sub.status = "active"
        BY <1>1, <2>1, RenewedRenews DEF JobsDone, Paid
      <3>2. Typed(renewed)
        BY <1>1, <3>1, RenewedCarries DEF Carries
      <3> QED
        BY <1>1, <3>1, <3>2, RenewsInSequence
    <2>2. CASE ~Paid
      BY <1>1, <2>2 DEF JobsDone
    <2> QED
      BY <2>1, <2>2
  <1> QED
    BY <1>2, OverdueInSequence DEF JobsDone

LEMMA BecomeInSequence ==
    ASSUME NEW b, Shape(b), Become(b), InSequence(b)
    PROVE  InSequence(Books)'
  <1>1. Books' = b
    BY BooksBecome
  <1> QED
    BY <1>1

LEMMA AccountInSequence ==
    ASSUME UNCHANGED account, InSequence(Books)
    PROVE  InSequence(Books)'
  <1>1. Books' = Books
    BY DEF account, Books
  <1> QED
    BY <1>1

LEMMA SchedulePlanInSequence ==
    ASSUME MInv, InSequence(Books), NEW terms \in Terms, NEW cycle \in Cycles,
           SchedulePlan(terms, cycle)
    PROVE  InSequence(Books)'
  <1> DEFINE change == [terms |-> terms, cycle |-> cycle]
  <1>1. PICK b : b = Books
    OBVIOUS
  <1>2. PICK c : c = [b EXCEPT !.sub.scheduled = change]
    OBVIOUS
  <1>3. change.terms \in Terms /\ change.cycle \in Cycles
    OBVIOUS
  <1>4. Typed(b) /\ InSequence(b)
    BY <1>1 DEF MInv
  <1> HIDE DEF change
  <1>5. Carries(b, c) /\ c.invoices = b.invoices /\ SamePlan(b.sub, c.sub)
    BY <1>2, <1>3, <1>4, ChangeCarries
  <1>6. RowsSame(b, c) /\ SamePeriod(c.sub, b.sub) /\ c.sub.status = b.sub.status
    BY <1>5 DEF RowsSame, SameTerms, SamePlan, SamePeriod
  <1>7. InSequence(c) /\ Shape(c)
    BY <1>4, <1>5, <1>6, RowsSameOn, PeriodsStayInSequence DEF Carries, Typed
  <1>8. /\ c.operator = operator /\ c.sub = [sub EXCEPT !.scheduled = change]
        /\ c.addons = addons /\ c.invoices = invoices /\ c.payments = payments
    BY <1>1, <1>2 DEF Books
  <1>9. Become(c)
    BY <1>8 DEF SchedulePlan, Become, change
  <1> QED
    BY <1>7, <1>9, BecomeInSequence

LEMMA InvoicePlanInSequence ==
    ASSUME MInv, InSequence(Books), NEW terms \in Terms, NEW cycle \in Cycles, NEW custom,
           InvoicePlan(terms, cycle, custom)
    PROVE  InSequence(Books)'
  <1>1. PICK inv : inv = PlanInvoice(terms, cycle)
    OBVIOUS
  <1>2. PICK b : b = Books
    OBVIOUS
  <1>3. PICK bought : bought = [inv EXCEPT !.status = "paid"]
    OBVIOUS
  <1>4. PICK free : free = Issued(b, bought)
    OBVIOUS
  <1>5. Become(IF inv.amount = 0 THEN Activated(free, inv) ELSE Issued(b, inv))
    BY <1>1, <1>2, <1>3, <1>4 DEF InvoicePlan
  <1>6. Typed(b) /\ InSequence(b) /\ TypedSub(sub) /\ today \in Nat /\ b.sub = sub
    BY <1>2, WorldTyped DEF MInv, Typed, Books
  <1>7. /\ TypedRow(inv) /\ inv.kind \in {"plan", "upgrade"} /\ inv.status = "issued"
        /\ \/ inv.kind = "upgrade" /\ Paid /\ inv.start = sub.start /\ inv.end = sub.end
           \/ inv.kind = "plan"
    BY <1>1, <1>6, PlanInvoiceTyped
  <1>8. inv.kind = "upgrade" => b.sub.status = "active" /\ SamePeriod(inv, b.sub)
    BY <1>6, <1>7 DEF Paid, SamePeriod
  <1>9. /\ TypedRow(bought) /\ SameTerms(inv, bought)
        /\ bought.status = "paid" /\ bought.amount = inv.amount
    BY <1>3, <1>7, PaidRowTyped
  <1>10. CASE inv.amount = 0
    <2>1. PICK c : c = Activated(free, inv)
      OBVIOUS
    <2>2. bought.kind # "addon"
      BY <1>7, <1>9 DEF SameTerms
    <2>3. Typed(free)
      BY <1>4, <1>6, <1>9, <1>10, <2>2, IssuedCarries DEF Carries
    <2>4. Typed(c)
      BY <1>7, <2>1, <2>3, ActivatedCarries DEF Carries
    <2>5. InSequence(c)
      BY <1>4, <1>6, <1>7, <1>8, <1>9, <2>1, <2>3, <2>4, FreePlanInSequence
    <2>6. Become(c) /\ Shape(c)
      BY <1>5, <1>10, <2>1, <2>4 DEF Typed
    <2> QED
      BY <2>5, <2>6, BecomeInSequence
  <1>11. CASE inv.amount # 0
    <2>1. PICK c : c = Issued(b, inv)
      OBVIOUS
    <2>2. Shape(b) /\ Row(inv)
      BY <1>6, <1>7 DEF Typed, TypedRow
    <2>3. PeriodsStay(b, c)
      BY <1>7, <1>8, <2>1, <2>2, IssuedInSequence
    <2>4. Become(c) /\ Shape(c)
      BY <1>5, <1>11, <2>1, <2>2, IssuedRow DEF Adds
    <2> QED
      BY <1>6, <2>3, <2>4, PeriodsStayInSequence, BecomeInSequence
  <1> QED
    BY <1>10, <1>11

\* A new invoice of another kind.
LEMMA OtherRowInSequence ==
    ASSUME MInv, InSequence(Books), NEW inv, Row(inv), inv.kind \in {"addon", "manual"},
           Become(Issued(Books, inv))
    PROVE  InSequence(Books)'
  <1>1. PICK b : b = Books
    OBVIOUS
  <1>2. PICK c : c = Issued(b, inv)
    OBVIOUS
  <1>3. Shape(b) /\ InSequence(b)
    BY <1>1 DEF MInv, Typed
  <1>4. PeriodsStay(b, c)
    BY <1>2, <1>3, IssuedInSequence
  <1>5. Become(c) /\ Shape(c)
    BY <1>1, <1>2, <1>3, IssuedRow DEF Adds
  <1> QED
    BY <1>3, <1>4, <1>5, PeriodsStayInSequence, BecomeInSequence

LEMMA RequestAddonInSequence ==
    ASSUME MInv, InSequence(Books), NEW m, NEW quantity, RequestAddon(m, quantity)
    PROVE  InSequence(Books)'
  <1> DEFINE old == IF InForce(addons[m]) THEN addons[m].quantity ELSE 0
             inv == AddonInvoice(m, quantity, old)
  <1>1. Become(Issued(Books, inv))
    BY DEF RequestAddon
  <1>2. Row(inv) /\ inv.kind = "addon"
    BY DEF AddonInvoice, NewInvoice, Row, InvoiceKinds, Open
  <1> HIDE DEF inv
  <1> QED
    BY <1>1, <1>2, OtherRowInSequence

LEMMA ManualInvoiceInSequence ==
    ASSUME MInv, InSequence(Books), NEW amount, ManualInvoice(amount)
    PROVE  InSequence(Books)'
  <1> DEFINE inv == NewInvoice("manual", today, today, today, amount)
  <1>1. Become(Issued(Books, inv))
    BY DEF ManualInvoice
  <1>2. Row(inv) /\ inv.kind = "manual"
    BY DEF NewInvoice, Row, InvoiceKinds, Open
  <1> HIDE DEF inv
  <1> QED
    BY <1>1, <1>2, OtherRowInSequence

LEMMA ScheduleAddonRenewalInSequence ==
    ASSUME MInv, InSequence(Books), NEW m \in Modules, NEW units, ScheduleAddonRenewal(m, units)
    PROVE  InSequence(Books)'
  <1> DEFINE keep == IF units = addons[m].quantity THEN AsBefore ELSE units
  <1>1. PICK b : b = Books
    OBVIOUS
  <1>2. PICK renewals : renewals = UpcomingRenewals(b)
    OBVIOUS
  <1>3. PICK c : c = [b EXCEPT !.addons[m].renews = keep]
    OBVIOUS
  <1>4. Become(Repriced(c, renewals))
    BY <1>1, <1>2, <1>3 DEF ScheduleAddonRenewal
  <1>5. Shape(b) /\ InSequence(b)
    BY <1>1 DEF MInv, Typed
  <1> HIDE DEF keep
  <1>6. /\ c.sub = b.sub /\ c.invoices = b.invoices /\ c.payments = b.payments
        /\ c.operator = b.operator
        /\ c.addons = [b.addons EXCEPT ![m] = [b.addons[m] EXCEPT !.renews = keep]]
        /\ c = [operator |-> c.operator, sub |-> c.sub, addons |-> c.addons,
                invoices |-> c.invoices, payments |-> c.payments]
    BY <1>3, <1>5 DEF Shape
  <1>7. \A n \in Modules : DOMAIN c.addons[n] = {"active", "quantity", "through", "renews"}
    <2> TAKE n \in Modules
    <2>1. c.addons[n] = b.addons[n] \/ c.addons[n] = [b.addons[n] EXCEPT !.renews = keep]
      BY <1>5, <1>6 DEF Shape
    <2> QED
      BY <1>5, <2>1 DEF Shape
  <1>8. Shape(c)
    BY <1>5, <1>6, <1>7 DEF Shape
  <1>9. PICK d : d = Repriced(c, renewals)
    OBVIOUS
  <1>10. Reprices(c, renewals, d)
    BY <1>8, <1>9, RepricedRows
  <1>11. RowsSame(c, d) /\ d.sub = c.sub /\ Shape(d)
    BY <1>8, <1>9, <1>10, RepricedSame DEF Reprices
  <1>12. RowsSame(b, d) /\ SamePeriod(d.sub, b.sub) /\ d.sub.status = b.sub.status
    BY <1>6, <1>11 DEF RowsSame, SamePeriod
  <1>13. InSequence(d) /\ Become(d)
    BY <1>4, <1>5, <1>9, <1>12, RowsSameOn, PeriodsStayInSequence
  <1> QED
    BY <1>11, <1>13, BecomeInSequence

LEMMA CancelInvoiceInSequence ==
    ASSUME MInv, InSequence(Books), NEW i \in DOMAIN invoices, CancelInvoice(i)
    PROVE  InSequence(Books)'
  <1>1. PICK b : b = Books
    OBVIOUS
  <1>2. PICK c : c = WithStatus(b, i, "void")
    OBVIOUS
  <1>3. /\ Shape(b) /\ InSequence(b) /\ i \in DOMAIN b.invoices
        /\ b.invoices[i].status # "paid"
    BY <1>1, OpenIsNotPaid DEF MInv, Typed, Books, CancelInvoice, MayCancel
  <1>4. /\ Shape(c) /\ c.sub = b.sub /\ DOMAIN c.invoices = DOMAIN b.invoices
        /\ \A j \in DOMAIN b.invoices \ {i} : c.invoices[j] = b.invoices[j]
        /\ SameTerms(b.invoices[i], c.invoices[i]) /\ c.invoices[i].status = "void"
    BY <1>2, <1>3, StatusSet
  <1>5. RowsStay(b, c) /\ Started(c) \subseteq Started(b)
    BY <1>3, <1>4 DEF RowsStay, SameTerms, SamePeriod, Started
  <1>6. PeriodsStay(b, c)
    BY <1>4, <1>5 DEF PeriodsStay, SamePeriod
  <1>7. /\ c.operator = operator /\ c.sub = sub /\ c.addons = addons
        /\ c.invoices = [invoices EXCEPT ![i].status = "void"] /\ c.payments = payments
    BY <1>1, <1>2 DEF Books, WithStatus
  <1>8. Become(c)
    BY <1>7 DEF CancelInvoice, Become
  <1> QED
    BY <1>3, <1>4, <1>6, <1>8, PeriodsStayInSequence, BecomeInSequence

\* A payment, recorded by staff or by a report that is accepted.
LEMMA PaymentInSequence ==
    ASSUME MInv, InSequence(Books), NEW i \in DOMAIN invoices, NEW amount \in Int,
           NEW key \in Nat, NEW report \in Nat,
           Become(PaymentRecorded(invoices[i], i, amount, key, report))
    PROVE  InSequence(Books)'
  <1>1. PICK b : b = Books
    OBVIOUS
  <1>2. PICK inv : inv = invoices[i]
    OBVIOUS
  <1>3. PICK payment : payment = Payment(i, amount, key, report)
    OBVIOUS
  <1>4. PICK c : c = PaymentRecorded(inv, i, amount, key, report)
    OBVIOUS
  <1>5. Records(b, inv, payment, c)
    BY <1>1, <1>3, <1>4, RecordedPayment
  <1>6. /\ payment.invoice = i /\ payment.amount = amount /\ payment.key = key
        /\ payment.report = report
    BY <1>3 DEF Payment
  <1>7. /\ Typed(b) /\ InSequence(b) /\ i \in DOMAIN b.invoices /\ b.invoices = invoices
    BY <1>1 DEF MInv, Books
  <1>8. TypedPayment(payment, DOMAIN b.invoices) /\ inv = b.invoices[payment.invoice]
    BY <1>2, <1>6, <1>7 DEF TypedPayment
  <1>9. TypedRow(inv)
    BY <1>2, <1>7 DEF Typed
  <1>10. Shape(c)
    BY <1>5, <1>7, <1>8, <1>9, PaymentRecordedTyped DEF Typed
  <1>11. InSequence(c)
    BY <1>5, <1>7, <1>8, RecordsInSequence
  <1>12. Become(c)
    BY <1>2, <1>4
  <1> QED
    BY <1>10, <1>11, <1>12, BecomeInSequence

LEMMA StatusInSequence ==
    ASSUME InSequence(Books), UNCHANGED billing
    PROVE  InSequence(Books)'
  <1>1. Books.invoices = invoices /\ Books.sub = sub
    BY DEF Books
  <1>2. Books'.invoices = invoices /\ Books'.sub = sub
    BY DEF Books, billing
  <1>3. PICK b : b = Books
    OBVIOUS
  <1>4. PICK c : c = Books'
    OBVIOUS
  <1>5. RowsSame(b, c) /\ SamePeriod(c.sub, b.sub) /\ c.sub.status = b.sub.status
    BY <1>1, <1>2, <1>3, <1>4 DEF RowsSame, SameTerms, SamePeriod
  <1>6. InSequence(c)
    BY <1>3, <1>5, RowsSameOn, PeriodsStayInSequence
  <1> QED
    BY <1>4, <1>6
-----------------------------------------------------------------------------
(* The sequence is an invariant *)

OInv == "overlap" \notin desk => InSequence(Books)

LEMMA FirstInSequence ==
    ASSUME Init
    PROVE  InSequence(Books)
  <1>1. PICK c \in Cases :
          IF c.terms = NoTerms
          THEN sub.status = "trial" /\ invoices = <<>>
          ELSE /\ sub.start = 0 /\ sub.end = PeriodEnd(0, c.cycle)
               /\ invoices = <<FirstPlan(c)>>
    BY DEF Init
  <1>2. PICK b : b = Books
    OBVIOUS
  <1>3. b.sub = sub /\ b.invoices = invoices
    BY <1>2 DEF Books
  <1>4. CASE c.terms = NoTerms
    <2>1. b.sub.status # "active" /\ DOMAIN b.invoices = {}
      BY <1>1, <1>3, <1>4
    <2>2. Started(b) = {} /\ RenewalRows(b) = {} /\ Kind(b, "upgrade") = {} /\ Kind(b, "usage") = {}
      BY <2>1 DEF Started, RenewalRows, Kind
    <2> QED
      BY <1>2, <2>1, <2>2 DEF InSequence, Ordered, Chain
  <1>5. CASE c.terms # NoTerms
    <2>1. PICK inv : inv = FirstPlan(c)
      OBVIOUS
    <2>2. /\ inv.kind = "plan" /\ inv.status = "paid"
          /\ inv.start = 0 /\ inv.end = PeriodEnd(0, c.cycle)
      BY <1>5, <2>1, FirstPlanTyped
    <2>3. /\ sub.start = 0 /\ sub.end = PeriodEnd(0, c.cycle) /\ invoices = <<inv>>
      BY <1>1, <1>5, <2>1
    <2>4. DOMAIN b.invoices = {1} /\ b.invoices[1] = inv /\ SamePeriod(b.sub, inv)
      BY <1>3, <2>2, <2>3 DEF SamePeriod
    <2>5. Started(b) = {1} /\ RenewalRows(b) = {} /\ Kind(b, "upgrade") = {} /\ Kind(b, "usage") = {}
      BY <2>2, <2>4 DEF Started, RenewalRows, Kind
    <2>6. Chain(b) = {1}
      BY <2>5 DEF Chain
    <2>7. b.invoices[1].start <= b.invoices[1].start
      BY <2>2, <2>4
    <2> QED
      BY <1>2, <2>4, <2>5, <2>6, <2>7 DEF InSequence, Ordered
  <1> QED
    BY <1>4, <1>5

LEMMA RequestsInSequence ==
    ASSUME MInv, InSequence(Books),
           \/ \E terms \in Plans, cycle \in Cycles : RequestPlan(terms, cycle)
           \/ \E terms \in Contracts, cycle \in Cycles : RequestContract(terms, cycle)
           \/ \E m \in Modules, quantity \in 1..MaxUnits : RequestAddon(m, quantity)
           \/ \E m \in Modules, units \in 0..MaxUnits \union {AsBefore} :
                 ScheduleAddonRenewal(m, units)
           \/ \E amount \in Parts : ManualInvoice(amount)
    PROVE  InSequence(Books)'
  <1>1. CASE \/ \E terms \in Plans, cycle \in Cycles : RequestPlan(terms, cycle)
             \/ \E terms \in Contracts, cycle \in Cycles : RequestContract(terms, cycle)
    <2>1. PICK terms \in Terms, cycle \in Cycles, custom \in BOOLEAN :
             SchedulePlan(terms, cycle) \/ InvoicePlan(terms, cycle, custom)
      BY <1>1, Offers DEF RequestPlan, RequestContract
    <2> QED
      BY <2>1, SchedulePlanInSequence, InvoicePlanInSequence
  <1>2. CASE \/ \E m \in Modules, quantity \in 1..MaxUnits : RequestAddon(m, quantity)
             \/ \E m \in Modules, units \in 0..MaxUnits \union {AsBefore} :
                   ScheduleAddonRenewal(m, units)
             \/ \E amount \in Parts : ManualInvoice(amount)
    BY <1>2, RequestAddonInSequence, ScheduleAddonRenewalInSequence, ManualInvoiceInSequence
  <1> QED
    BY <1>1, <1>2

LEMMA InvoicesInSequence ==
    ASSUME MInv, InSequence(Books),
           \/ \E i \in DOMAIN invoices : OnInvoice(i)
           \/ \E k \in DOMAIN reports : AcceptReport(k) \/ RejectReport(k)
    PROVE  InSequence(Books)'
  <1>1. ASSUME NEW i \in DOMAIN invoices, NEW amount \in Sums(i), NEW key \in Keys,
               ConfirmPayment(i, amount, key)
        PROVE  InSequence(Books)'
    <2>1. amount \in Int /\ key \in Nat /\ 0 \in Nat
      BY SumsTyped, KeysTyped
    <2>2. Become(PaymentRecorded(invoices[i], i, amount, key, 0))
      BY <1>1 DEF ConfirmPayment
    <2> QED
      BY <2>1, <2>2, PaymentInSequence
  <1>2. ASSUME NEW k \in DOMAIN reports, AcceptReport(k)
        PROVE  InSequence(Books)'
    <2>1. PICK i, amount : i = reports[k].invoice /\ amount = reports[k].amount
      OBVIOUS
    <2>2. ReportsRight(reports, DOMAIN invoices)
      BY DEF MInv
    <2>3. i \in DOMAIN invoices /\ amount \in Int
      BY <2>1, <2>2 DEF ReportsRight, ReportRight, OnInvoices
    <2>4. k \in Nat /\ NoKey \in Nat
      <3>1. PICK S : reports \in Seq(S)
        BY <2>2 DEF ReportsRight, IsSeq
      <3> QED
        BY <3>1 DEF NoKey
    <2>5. Become(PaymentRecorded(invoices[i], i, amount, NoKey, k))
      BY <1>2, <2>1 DEF AcceptReport
    <2> QED
      BY <2>3, <2>4, <2>5, PaymentInSequence
  <1>3. ASSUME NEW i \in DOMAIN invoices, NEW amount, ReportPayment(i, amount)
        PROVE  InSequence(Books)'
    BY <1>3, AccountInSequence DEF ReportPayment
  <1>4. ASSUME NEW k \in DOMAIN reports, RejectReport(k)
        PROVE  InSequence(Books)'
    BY <1>4, AccountInSequence DEF RejectReport
  <1> QED
    BY <1>1, <1>2, <1>3, <1>4, CancelInvoiceInSequence DEF OnInvoice

LEMMA RunJobsInSequence ==
    ASSUME MInv, InSequence(Books), RunJobs
    PROVE  InSequence(Books)'
  <1>1. PICK b : b = Books
    OBVIOUS
  <1>2. PICK billed, renewed, books : JobsDone(b, billed, renewed, books) /\ Become(books)
    BY <1>1 DEF RunJobs, JobsDone
  <1>3. Typed(b) /\ b.sub = sub /\ UsageTyped /\ InSequence(b)
    BY <1>1 DEF MInv, WorldRight, Books
  <1>4. Shape(books)
    BY <1>2, <1>3, JobsCarry DEF Carries, Typed
  <1>5. InSequence(books)
    BY <1>2, <1>3, JobsInSequence
  <1> QED
    BY <1>2, <1>4, <1>5, BecomeInSequence

LEMMA NoTaskOverlaps ==
    ASSUME MInv, "overlap" \notin desk, NEW p \in Procs
    PROVE  ~Request(p)
  <1>1. tasks[p] = Idle
    BY DEF MInv, TasksRight, TaskRight
  <1>2. tasks[p].op = "idle"
    BY <1>1 DEF Idle
  <1> QED
    BY <1>1, <1>2 DEF Request, CancelLoad, ConfirmLoad, ConfirmCommit, CancelCommit, Fail

LEMMA OInvInit == Init => OInv
  BY FirstInSequence DEF OInv

LEMMA OInvNext == MInv /\ OInv /\ [Next]_vars => OInv'
  <1> SUFFICES ASSUME MInv, OInv, [Next]_vars, "overlap" \notin desk'
               PROVE  InSequence(Books)'
    BY DEF OInv
  <1>0. desk' = desk
    BY DEF Next, vars, world, RequestPlan, RequestContract, SchedulePlan, InvoicePlan, RequestAddon,
           ScheduleAddonRenewal, OnInvoice, CancelInvoice, ReportPayment, ConfirmPayment,
           AcceptReport, RejectReport, ManualInvoice, Request, CancelLoad, ConfirmLoad,
           ConfirmCommit, CancelCommit, Fail, Hold, ReleaseHold, Suspend, ActivateOperator,
           SeatsGrow, SeatsShrink, StorageGrows, StorageShrinks, RecordUsage, RunJobs, AdvanceDay
  <1>1. "overlap" \notin desk /\ InSequence(Books)
    BY <1>0 DEF OInv
  <1>2. CASE \/ \E terms \in Plans, cycle \in Cycles : RequestPlan(terms, cycle)
             \/ \E terms \in Contracts, cycle \in Cycles : RequestContract(terms, cycle)
             \/ \E m \in Modules, quantity \in 1..MaxUnits : RequestAddon(m, quantity)
             \/ \E m \in Modules, units \in 0..MaxUnits \union {AsBefore} :
                   ScheduleAddonRenewal(m, units)
             \/ \E amount \in Parts : ManualInvoice(amount)
    BY <1>1, <1>2, RequestsInSequence
  <1>3. CASE \/ \E i \in DOMAIN invoices : OnInvoice(i)
             \/ \E k \in DOMAIN reports : AcceptReport(k) \/ RejectReport(k)
    BY <1>1, <1>3, InvoicesInSequence
  <1>4. CASE \E p \in Procs : Request(p)
    BY <1>1, <1>4, NoTaskOverlaps
  <1>5. CASE Hold \/ ReleaseHold \/ Suspend \/ ActivateOperator
    BY <1>1, <1>5, StatusInSequence DEF Hold, ReleaseHold, Suspend, ActivateOperator
  <1>6. CASE \/ SeatsGrow \/ SeatsShrink \/ StorageGrows \/ StorageShrinks
             \/ RecordUsage \/ AdvanceDay \/ UNCHANGED vars
    <2>1. UNCHANGED account
      BY <1>6 DEF SeatsGrow, SeatsShrink, StorageGrows, StorageShrinks, RecordUsage, AdvanceDay, vars
    <2> QED
      BY <1>1, <2>1, AccountInSequence
  <1>7. CASE RunJobs
    BY <1>1, <1>7, RunJobsInSequence
  <1> QED
    BY <1>2, <1>3, <1>4, <1>5, <1>6, <1>7 DEF Next

LEMMA OInvAlways == Spec => [](MInv /\ OInv)
  BY MInvInit, MInvNext, OInvInit, OInvNext, PTL DEF Spec

LEMMA TwoElements ==
    ASSUME NEW S, IsFiniteSet(S), Cardinality(S) <= 1, NEW x \in S, NEW y \in S
    PROVE  x = y
  <1> SUFFICES ASSUME x # y
               PROVE  FALSE
    OBVIOUS
  <1>1. IsFiniteSet({x}) /\ Cardinality({x}) = 1
    BY FS_Singleton
  <1>2. IsFiniteSet({x} \union {y}) /\ Cardinality({x} \union {y}) = 2
    <2>1. y \notin {x}
      OBVIOUS
    <2> DEFINE one == {x}
    <2>2. IsFiniteSet(one) /\ Cardinality(one) = 1 /\ y \notin one
      BY <1>1, <2>1
    <2> HIDE DEF one
    <2>3. IsFiniteSet(one \union {y}) /\ Cardinality(one \union {y}) = Cardinality(one) + 1
      BY <2>2, FS_AddElement
    <2> QED
      BY <2>2, <2>3 DEF one
  <1>3. {x} \union {y} \subseteq S
    OBVIOUS
  <1>4. Cardinality({x} \union {y}) <= Cardinality(S)
    BY <1>3, FS_Subset
  <1> QED
    BY <1>2, <1>4, FS_CardinalityType

LEMMA SeatsBilledOnce ==
    ASSUME MInv, OInv
    PROVE  ExtraSeatsBilledOnce
  <1> DEFINE begun == {inv \in PaidFor : inv.kind = "plan"}
  <1> SUFFICES ASSUME "overlap" \notin desk, Cardinality(begun) <= 1,
                      NEW i \in DOMAIN invoices, invoices[i].kind = "usage",
                      NEW j \in DOMAIN invoices, invoices[j].kind = "usage", i # j
               PROVE  \/ invoices[i].end < invoices[j].start
                      \/ invoices[j].end < invoices[i].start
    BY DEF ExtraSeatsBilledOnce
  <1>1. PICK b : b = Books
    OBVIOUS
  <1>2. b.invoices = invoices /\ IsSeq(invoices) /\ InSequence(b)
    BY <1>1 DEF Books, MInv, Typed, Shape, OInv
  <1>3. IsFiniteSet(begun)
    <2>1. PICK S : invoices \in Seq(S)
      BY <1>2 DEF IsSeq
    <2>2. IsFiniteSet(DOMAIN invoices)
      <3>1. DOMAIN invoices = 1..Len(invoices) /\ Len(invoices) \in Nat
        BY <2>1
      <3> QED
        BY <3>1, FS_Interval
    <2>3. invoices \in Surjection(DOMAIN invoices, Range(invoices))
      <3>1. invoices \in [DOMAIN invoices -> Range(invoices)]
        BY <2>1 DEF Range
      <3> QED
        BY <3>1 DEF Surjection, Range
    <2>4. IsFiniteSet(Range(invoices))
      BY <2>2, <2>3, FS_Surjection
    <2> QED
      BY <2>4, FS_Subset DEF PaidFor
  <1>4. ASSUME NEW k \in Started(b), NEW l \in Started(b)
        PROVE  SamePeriod(b.invoices[k], b.invoices[l])
    <2>1. invoices[k] \in begun /\ invoices[l] \in begun
      BY <1>2 DEF Started, PaidFor, Range
    <2> HIDE DEF begun
    <2>2. invoices[k] = invoices[l]
      BY <1>3, <2>1, TwoElements
    <2> QED
      BY <1>2, <2>2 DEF SamePeriod
  <1>5. Ordered(b)
    BY <1>2, <1>4 DEF OneStart, InSequence
  <1>6. i \in Kind(b, "usage") /\ j \in Kind(b, "usage")
    BY <1>2 DEF Kind
  <1> QED
    BY <1>2, <1>5, <1>6 DEF Ordered, Apart

\* A payment counts once and no day of an extra seat is billed twice, in every state of
\* operator_billing's handlers, of requests that overlap and of the daily job: what
\* confirm_payment has recorded on an invoice is never more than its amount, all of it once the
\* invoice is paid, by a key or a report that counts once; and the months that
\* _bill_usage_period has billed do not overlap, for an operator that never let its plan lapse.
THEOREM PaymentsAndSeatsCountOnce == Spec => []BilledOnce
  <1>1. MInv /\ OInv => BilledOnce
    BY RowsAreTyped, MoneyIsCounted, SeatsBilledOnce DEF BilledOnce
  <1> QED
    BY <1>1, OInvAlways, PTL
=============================================================================
