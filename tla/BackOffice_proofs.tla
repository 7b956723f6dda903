-------------------------- MODULE BackOffice_proofs --------------------------
(***************************************************************************)
(* Proofs about the parts of BackOffice, for any number of requests,       *)
(* workspaces, leads and members of the staff, and every bound.            *)
(***************************************************************************)
EXTENDS BackOffice, FiniteSetTheorems, SequenceTheorems, WellFoundedInduction, TLAPS

LEMMA Least ==
    ASSUME NEW S \in SUBSET Nat, S # {}
    PROVE  \E x \in S : \A y \in S : x <= y
  <1>1. PICK x \in S : \A y \in S : <<y, x>> \notin OpToRel(<, Nat)
    BY NatLessThanWellFounded, WFMin, Zenon
  <1>2. \A y \in S : ~(y < x)
    BY <1>1 DEF OpToRel
  <1> QED
    BY <1>2

(* Sums.  The element a fold takes next, and what is left. *)

Picked(S) == CHOOSE x \in S : TRUE
Rest(S) == S \ {Picked(S)}

\* Induction over finite sets, stated of a set of subsets.
LEMMA SetsByPicking ==
    ASSUME NEW S, IsFiniteSet(S), NEW F, {} \in F,
           \A T \in SUBSET S : T # {} /\ Rest(T) \in F => T \in F
    PROVE  \A T \in SUBSET S : T \in F
  <1> DEFINE Bad == {T \in SUBSET S : T \notin F}
             Counts == {Cardinality(T) : T \in Bad}
  <1>1. \A T \in SUBSET S : IsFiniteSet(T) /\ Cardinality(T) \in Nat
    BY FS_Subset, FS_CardinalityType
  <1>2. ASSUME Bad # {}
        PROVE  FALSE
    <2>1. Counts \in SUBSET Nat /\ Counts # {}
      BY <1>1, <1>2
    <2>2. PICK n \in Counts : \A m \in Counts : n <= m
      BY <2>1, Least
    <2>3. PICK T \in Bad : Cardinality(T) = n
      BY <2>2
    <2>4. T # {} /\ T \in SUBSET S
      BY <2>3
    <2>5. Picked(T) \in T
      BY <2>4 DEF Picked
    <2>6. Rest(T) \in SUBSET S /\ Cardinality(Rest(T)) = Cardinality(T) - 1
      BY <1>1, <2>4, <2>5, FS_RemoveElement DEF Rest
    <2>7. Cardinality(Rest(T)) \notin Counts
      BY <1>1, <2>1, <2>2, <2>3, <2>4, <2>6
    <2>8. Rest(T) \in F
      BY <2>6, <2>7
    <2> QED
      BY <2>3, <2>4, <2>8
  <1> QED
    BY <1>2

\* g is the fold of f over the subsets of S.
Fold(f, S, g) ==
    g = [s \in SUBSET S |-> IF s = {} THEN 0 ELSE f[Picked(s)] + g[Rest(s)]]

TheFold(f, S) == CHOOSE g : Fold(f, S, g)

LEMMA SumIsFold ==
    ASSUME NEW f, NEW S
    PROVE  SumFunctionOnSet(f, S) = TheFold(f, S)[S]
  BY Zenon DEF SumFunctionOnSet, FoldFunctionOnSet, MapThenFoldSet, TheFold, Fold, Picked, Rest


\* Folds over the subsets of at most n elements exist, of any n.
Small(S, n) == {T \in SUBSET S : Cardinality(T) <= n}
FoldTo(f, S, n, g) ==
    g = [s \in Small(S, n) |-> IF s = {} THEN 0 ELSE f[Picked(s)] + g[Rest(s)]]

LEMMA RestIsSmaller ==
    ASSUME NEW T, IsFiniteSet(T), T # {}
    PROVE  /\ Picked(T) \in T /\ IsFiniteSet(Rest(T)) /\ Rest(T) \subseteq T
           /\ Cardinality(T) \in Nat /\ Cardinality(Rest(T)) = Cardinality(T) - 1
  <1>1. Picked(T) \in T
    BY DEF Picked
  <1> QED
    BY <1>1, FS_RemoveElement, FS_CardinalityType, FS_Subset DEF Rest

LEMMA FoldExists ==
    ASSUME NEW f, NEW S, IsFiniteSet(S)
    PROVE  Fold(f, S, TheFold(f, S))
  <1> DEFINE Bad == {n \in Nat : ~\E g : FoldTo(f, S, n, g)}
  <1>0. \A T \in SUBSET S : IsFiniteSet(T) /\ Cardinality(T) \in Nat
    BY FS_Subset, FS_CardinalityType
  <1>1. FoldTo(f, S, 0, [s \in Small(S, 0) |-> 0])
    <2>1. \A s \in Small(S, 0) : s = {}
      BY <1>0, FS_EmptySet DEF Small
    <2> QED
      BY <2>1 DEF FoldTo
  <1>2. ASSUME NEW n \in Nat, NEW g, FoldTo(f, S, n, g)
        PROVE  \E h : FoldTo(f, S, n + 1, h)
    <2> DEFINE h == [s \in Small(S, n + 1) |-> IF s = {} THEN 0 ELSE f[Picked(s)] + g[Rest(s)]]
    <2>1. \A s \in Small(S, n) : s \in Small(S, n + 1)
      BY <1>0 DEF Small
    <2>2. \A s \in Small(S, n) : g[s] = IF s = {} THEN 0 ELSE f[Picked(s)] + g[Rest(s)]
      BY <1>2 DEF FoldTo
    <2>3. \A s \in Small(S, n) : h[s] = g[s]
      BY <2>1, <2>2
    <2>4. \A s \in Small(S, n + 1) : s # {} => Rest(s) \in Small(S, n)
      BY <1>0, RestIsSmaller DEF Small
    <2>5. \A s \in Small(S, n + 1) : h[s] = IF s = {} THEN 0 ELSE f[Picked(s)] + h[Rest(s)]
      BY <2>3, <2>4
    <2>6. h = [s \in Small(S, n + 1) |-> h[s]]
      OBVIOUS
    <2> HIDE DEF h
    <2> QED
      BY <2>5, <2>6 DEF FoldTo
  <1>3. Bad = {}
    <2> SUFFICES ASSUME Bad # {} PROVE FALSE
      OBVIOUS
    <2>1. PICK n \in Bad : \A m \in Bad : n <= m
      BY Least
    <2>2. n # 0
      BY <1>1
    <2>3. n - 1 \in Nat /\ n - 1 \notin Bad
      BY <2>1, <2>2
    <2>4. PICK g : FoldTo(f, S, n - 1, g)
      BY <2>3
    <2>5. \E h : FoldTo(f, S, (n - 1) + 1, h)
      BY <1>2, <2>3, <2>4
    <2>6. (n - 1) + 1 = n
      OBVIOUS
    <2> QED
      BY <2>5, <2>6
  <1>4. PICK g : FoldTo(f, S, Cardinality(S), g)
    BY <1>0, <1>3
  <1>5. Small(S, Cardinality(S)) = SUBSET S
    BY <1>0, FS_Subset DEF Small
  <1>6. Fold(f, S, g)
    BY <1>4, <1>5 DEF FoldTo, Fold
  <1> QED
    BY <1>6, Zenon DEF TheFold

LEMMA FoldUnique ==
    ASSUME NEW f, NEW S, IsFiniteSet(S), NEW g, Fold(f, S, g),
           NEW T \in SUBSET S, NEW h, Fold(f, T, h)
    PROVE  \A s \in SUBSET T : g[s] = h[s]
  <1> DEFINE F == {s \in SUBSET T : g[s] = h[s]}
  <1>1. \A s \in SUBSET S : g[s] = IF s = {} THEN 0 ELSE f[Picked(s)] + g[Rest(s)]
    BY DEF Fold
  <1>2. \A s \in SUBSET T : h[s] = IF s = {} THEN 0 ELSE f[Picked(s)] + h[Rest(s)]
    BY DEF Fold
  <1>3. {} \in F
    BY <1>1, <1>2
  <1>4. \A s \in SUBSET T : s # {} /\ Rest(s) \in F => s \in F
    BY <1>1, <1>2
  <1>5. IsFiniteSet(T)
    BY FS_Subset
  <1> HIDE DEF F
  <1>6. \A s \in SUBSET T : s \in F
    BY <1>3, <1>4, <1>5, SetsByPicking
  <1> QED
    BY <1>6 DEF F

LEMMA SumOfNone ==
    ASSUME NEW f
    PROVE  SumFunctionOnSet(f, {}) = 0
  <1>1. Fold(f, {}, TheFold(f, {}))
    BY FoldExists, FS_EmptySet
  <1> QED
    BY <1>1, SumIsFold DEF Fold

LEMMA SumByPicking ==
    ASSUME NEW f, NEW S, IsFiniteSet(S), S # {}
    PROVE  SumFunctionOnSet(f, S) = f[Picked(S)] + SumFunctionOnSet(f, Rest(S))
  <1> DEFINE g == TheFold(f, S)
             h == TheFold(f, Rest(S))
  <1>1. Rest(S) \in SUBSET S /\ IsFiniteSet(Rest(S))
    BY RestIsSmaller
  <1>2. Fold(f, S, g) /\ Fold(f, Rest(S), h)
    BY <1>1, FoldExists
  <1>3. SumFunctionOnSet(f, S) = g[S] /\ SumFunctionOnSet(f, Rest(S)) = h[Rest(S)]
    BY SumIsFold
  <1> HIDE DEF g, h
  <1>4. g[Rest(S)] = h[Rest(S)]
    BY <1>1, <1>2, FoldUnique
  <1>5. g[S] = f[Picked(S)] + g[Rest(S)]
    BY <1>2 DEF Fold
  <1> QED
    BY <1>3, <1>4, <1>5

LEMMA SumsAreNumbers ==
    ASSUME NEW f, NEW S, IsFiniteSet(S), \A x \in S : f[x] \in Int
    PROVE  /\ SumFunctionOnSet(f, S) \in Int
           /\ (\A x \in S : f[x] \in Nat) => SumFunctionOnSet(f, S) \in Nat
  <1> DEFINE F == {T \in SUBSET S : /\ SumFunctionOnSet(f, T) \in Int
                                    /\ (\A x \in T : f[x] \in Nat) => SumFunctionOnSet(f, T) \in Nat}
  <1>1. {} \in F
    BY SumOfNone
  <1>2. ASSUME NEW T \in SUBSET S, T # {}, Rest(T) \in F
        PROVE  T \in F
    <2> DEFINE rest == SumFunctionOnSet(f, Rest(T))
    <2>1. IsFiniteSet(T)
      BY FS_Subset
    <2>2. SumFunctionOnSet(f, T) = f[Picked(T)] + rest /\ Picked(T) \in T /\ Rest(T) \subseteq T
      BY <1>2, <2>1, SumByPicking, RestIsSmaller
    <2>3. rest \in Int /\ ((\A x \in T : f[x] \in Nat) => rest \in Nat)
      BY <1>2, <2>2
    <2> HIDE DEF rest
    <2> QED
      BY <2>2, <2>3
  <1> HIDE DEF F
  <1>3. S \in F
    BY <1>1, <1>2, SetsByPicking
  <1> QED
    BY <1>3 DEF F

LEMMA SumOfTheSame ==
    ASSUME NEW f, NEW g, NEW S, IsFiniteSet(S), \A x \in S : f[x] = g[x]
    PROVE  SumFunctionOnSet(f, S) = SumFunctionOnSet(g, S)
  <1> DEFINE F == {T \in SUBSET S : SumFunctionOnSet(f, T) = SumFunctionOnSet(g, T)}
  <1>1. {} \in F
    BY SumOfNone
  <1>2. ASSUME NEW T \in SUBSET S, T # {}, Rest(T) \in F
        PROVE  T \in F
    <2>1. IsFiniteSet(T)
      BY FS_Subset
    <2>2. /\ SumFunctionOnSet(f, T) = f[Picked(T)] + SumFunctionOnSet(f, Rest(T))
          /\ SumFunctionOnSet(g, T) = g[Picked(T)] + SumFunctionOnSet(g, Rest(T))
          /\ Picked(T) \in T
      BY <1>2, <2>1, SumByPicking, RestIsSmaller
    <2> QED
      BY <1>2, <2>2
  <1> HIDE DEF F
  <1>3. S \in F
    BY <1>1, <1>2, SetsByPicking
  <1> QED
    BY <1>3 DEF F

\* An element counts once, whichever is taken first.
Takes(f, T) == \A z \in T : SumFunctionOnSet(f, T) = f[z] + SumFunctionOnSet(f, T \ {z})

LEMMA SumWithout ==
    ASSUME NEW f, NEW S, IsFiniteSet(S), \A x \in S : f[x] \in Int, NEW y \in S
    PROVE  SumFunctionOnSet(f, S) = f[y] + SumFunctionOnSet(f, S \ {y})
  <1> DEFINE F == {T \in SUBSET S : \A V \in SUBSET S :
                      Cardinality(V) = Cardinality(T) => Takes(f, V)}
             Sum(T) == SumFunctionOnSet(f, T)
  <1>0. \A T \in SUBSET S : /\ IsFiniteSet(T) /\ Cardinality(T) \in Nat
                            /\ Cardinality(T) = 0 <=> T = {}
    BY FS_Subset, FS_CardinalityType, FS_EmptySet
  <1>1. {} \in F
    BY <1>0 DEF Takes
  <1>2. ASSUME NEW T \in SUBSET S, T # {}, Rest(T) \in F
        PROVE  T \in F
    <2> SUFFICES ASSUME NEW V \in SUBSET S, Cardinality(V) = Cardinality(T), NEW z \in V
                 PROVE  Sum(V) = f[z] + Sum(V \ {z})
      BY DEF Takes
    <2> DEFINE p == Picked(V)
               U == V \ {z}
               both == Rest(V) \ {z}
    <2>1. V # {} /\ IsFiniteSet(V)
      BY <1>0, <1>2
    <2>2. Sum(V) = f[p] + Sum(Rest(V)) /\ p \in V /\ Rest(V) = V \ {p}
      BY <2>1, SumByPicking, RestIsSmaller DEF Rest
    <2>3. Cardinality(Rest(V)) = Cardinality(Rest(T)) /\ Cardinality(U) = Cardinality(Rest(T))
      BY <1>0, <1>2, <2>1, RestIsSmaller, FS_RemoveElement
    <2>4. Takes(f, Rest(V)) /\ Takes(f, U)
      <3>1. Rest(V) \in SUBSET S /\ U \in SUBSET S
        BY <2>2
      <3> QED
        BY <1>2, <2>3, <3>1
    <2>5. CASE z = p
      BY <2>2, <2>5
    <2>6. CASE z # p
      <3>1. Sum(Rest(V)) = f[z] + Sum(both)
        BY <2>2, <2>4, <2>6 DEF Takes
      <3>2. p \in U /\ U \ {p} = both
        BY <2>2, <2>6
      <3>3. Sum(U) = f[p] + Sum(both)
        BY <2>4, <3>2 DEF Takes
      <3>4. Sum(both) \in Int
        <4>1. IsFiniteSet(both) /\ both \subseteq S
          BY <1>0, <2>2
        <4> QED
          BY <4>1, SumsAreNumbers
      <3>5. f[p] \in Int /\ f[z] \in Int
        BY <2>2
      <3> DEFINE n == Sum(both)
      <3> HIDE DEF n
      <3>6. Sum(V) = f[p] + (f[z] + n) /\ Sum(U) = f[p] + n
        BY <2>2, <3>1, <3>3 DEF n
      <3> QED
        BY <3>4, <3>5, <3>6 DEF n
    <2> QED
      BY <2>5, <2>6
  <1> HIDE DEF F
  <1>3. S \in F
    BY <1>1, <1>2, SetsByPicking
  <1> QED
    BY <1>3 DEF F, Takes

\* A sum one of whose terms changes.
LEMMA SumWithOneChanged ==
    ASSUME NEW f, NEW g, NEW S, IsFiniteSet(S), NEW y \in S,
           \A x \in S : f[x] \in Int /\ g[x] \in Int,
           \A x \in S \ {y} : g[x] = f[x]
    PROVE  /\ SumFunctionOnSet(f, S) \in Int
           /\ SumFunctionOnSet(g, S) = SumFunctionOnSet(f, S) - f[y] + g[y]
  <1> DEFINE others == SumFunctionOnSet(f, S \ {y})
  <1>1. IsFiniteSet(S \ {y})
    BY FS_Subset
  <1>2. others \in Int /\ others = SumFunctionOnSet(g, S \ {y})
    BY <1>1, SumsAreNumbers, SumOfTheSame
  <1>3. SumFunctionOnSet(f, S) = f[y] + others /\ SumFunctionOnSet(g, S) = g[y] + others
    BY <1>2, SumWithout
  <1>4. f[y] \in Int /\ g[y] \in Int
    OBVIOUS
  <1> HIDE DEF others
  <1> QED
    BY <1>2, <1>3, <1>4

LEMMA SumOfNothing ==
    ASSUME NEW f, NEW S, IsFiniteSet(S), \A x \in S : f[x] = 0
    PROVE  SumFunctionOnSet(f, S) = 0
  <1> DEFINE F == {T \in SUBSET S : SumFunctionOnSet(f, T) = 0}
  <1>1. {} \in F
    BY SumOfNone
  <1>2. ASSUME NEW T \in SUBSET S, T # {}, Rest(T) \in F
        PROVE  T \in F
    BY <1>2, FS_Subset, SumByPicking, RestIsSmaller
  <1> HIDE DEF F
  <1>3. S \in F
    BY <1>1, <1>2, SetsByPicking
  <1> QED
    BY <1>3 DEF F
-----------------------------------------------------------------------------
\* What provision finds: a slug that is free, all before it being taken (_slug_for).
LEMMA SlugFound ==
    ASSUME Workspaces!SlugFor # 0
    PROVE  /\ Workspaces!SlugFor \in DOMAIN Slugs
           /\ Slugs[Workspaces!SlugFor] \notin Workspaces!SlugsTaken
           /\ \A i \in 1..Workspaces!SlugFor - 1 : Slugs[i] \in Workspaces!SlugsTaken
  <1> DEFINE free == {i \in 1..Len(Slugs) : Slugs[i] \notin Workspaces!SlugsTaken}
  <1>1. Workspaces!SlugFor = IF free # {} THEN Workspaces!Min(free) ELSE 0
    BY DEF Workspaces!SlugFor, Workspaces!SelectInSeq
  <1>2. free # {} /\ free \in SUBSET Nat
    BY <1>1
  <1>3. PICK x \in free : \A y \in free : x <= y
    BY <1>2, Least
  <1> DEFINE n == Workspaces!SlugFor
  <1>4. n \in free /\ \A y \in free : n <= y
    BY <1>1, <1>2, <1>3 DEF Workspaces!Min
  <1> HIDE DEF n
  <1>5. Len(Slugs) \in Nat /\ DOMAIN Slugs = 1..Len(Slugs)
    BY NamesOfWorkspaces
  <1>6. ASSUME NEW i \in 1..n - 1 PROVE i \in 1..Len(Slugs) /\ i \notin free
    BY <1>4, <1>5
  <1> QED
    BY <1>4, <1>5, <1>6 DEF n

(* Workspaces.  The rows are typed; what a request of anybody but a platform admin is about to   *)
(* write does not end a suspension it has seen.                                                  *)

Names == {Slugs[i] : i \in DOMAIN Slugs}
Tiers == {"plan", "partner"}
WorkspaceRows == [slug: Names, status: Statuses, tier: Tiers, trial: BOOLEAN, owner: {"invited", "active"}]
Writes == [status: Statuses \union {Keep}, tier: Tiers \union {Keep}, slug: Names \union {Keep}]
Changes == {"status", "edit", "paid", "accept", "accept_trial"}
Creations == {"invite", "register", "command"}
Handlings == {"reject", "approve_load", "approve"}

OperatorRequests ==
    [op: Changes \union Creations \union Handlings \union {"none"}, on: Nat, sets: Writes,
     permitted: BOOLEAN, suspended: BOOLEAN]

\* A request changes a workspace, makes one, or has done nothing yet.
RequestOfWorkspaces(q) ==
    /\ q \in OperatorRequests
    /\ q.on \in Workspaces!Ids \union {0}
    /\ q.on # 0 <=> q.op \in Changes
    /\ q.op \in Creations \union {"approve"} => q.sets.slug \in Names
    /\ q.permitted \/ ~q.suspended \/ q.op = "accept_trial" \/ q.sets.status \in {Keep, "suspended"}

Rows == operators \in Seq(WorkspaceRows)

Asked ==
    /\ operatorRequests = [r \in Requests |-> operatorRequests[r]]
    /\ \A r \in Requests : RequestOfWorkspaces(operatorRequests[r])

LEMMA NamesAreTheSlugs == Workspaces!ToSet(Slugs) = Names
  BY DEF Workspaces!ToSet, Names

LEMMA KeepTold ==
    /\ Keep \notin Statuses /\ Keep \notin Names /\ Keep \notin Tiers
    /\ {"trial", "active", "hold", "suspended"} \subseteq Statuses
    /\ Edits \subseteq Writes
  BY ColumnsOfWorkspaces DEF Names, Tiers, Writes

LEMMA NothingWrites == Workspaces!Nothing \in Writes
  BY KeepTold DEF Writes, Workspaces!Nothing

LEMMA IdleRequest == RequestOfWorkspaces(Workspaces!Idle)
  <1>1. Workspaces!Idle \in OperatorRequests
    BY NothingWrites DEF Workspaces!Idle, OperatorRequests
  <1>2. Workspaces!Idle.on = 0 /\ Workspaces!Idle.op = "none" /\ Workspaces!Idle.suspended = FALSE
    BY DEF Workspaces!Idle
  <1> QED
    BY <1>1, <1>2 DEF RequestOfWorkspaces, Changes, Creations

LEMMA RowOf ==
    ASSUME Rows, NEW o \in Workspaces!Ids
    PROVE  operators[o] \in WorkspaceRows /\ o \in Nat \ {0}
  BY DEF Rows, Workspaces!Ids

LEMMA StatusWrites ==
    ASSUME Rows, NEW o \in Workspaces!Ids, NEW s \in Statuses
    PROVE  /\ Workspaces!SetStatus(o, s) \in Writes
           /\ Workspaces!SetStatus(o, s).status = IF s = operators[o].status THEN Keep ELSE s
  BY KeepTold DEF Workspaces!SetStatus, Workspaces!Column, Workspaces!Nothing, Writes

\* operator_edit: the columns of the form that differ from the workspace's.
LEMMA EditWrites ==
    ASSUME Rows, NEW o \in Workspaces!Ids, NEW edit \in Edits,
           NEW sets, sets = [f \in DOMAIN Workspaces!Nothing |->
               Workspaces!Column(IF edit[f] = Keep THEN operators[o][f] ELSE edit[f], operators[o][f])]
    PROVE  /\ sets \in Writes
           /\ sets.status \in {Keep, edit.status}
           /\ sets.status = "suspended" \/ operators[o].status = "suspended" =>
                  sets.status = Keep \/ (edit.status # Keep /\ edit.status # operators[o].status)
  <1>1. edit \in Writes /\ operators[o] \in WorkspaceRows
    BY RowOf, KeepTold
  <1>2. DOMAIN Workspaces!Nothing = {"status", "tier", "slug"}
    BY DEF Workspaces!Nothing
  <1>3. \A f \in {"status", "tier", "slug"} : sets[f] \in {Keep, edit[f]}
    BY <1>2 DEF Workspaces!Column
  <1>4. sets = [status |-> sets.status, tier |-> sets.tier, slug |-> sets.slug]
    BY <1>2
  <1>5. sets \in Writes
    BY <1>1, <1>3, <1>4 DEF Writes
  <1>6. sets.status = Keep \/ (edit.status # Keep /\ edit.status # operators[o].status)
    BY <1>2 DEF Workspaces!Column
  <1> QED
    BY <1>3, <1>5, <1>6

LEMMA OneAsked ==
    ASSUME Asked, NEW r \in Requests, NEW q, RequestOfWorkspaces(q),
           operatorRequests' = [operatorRequests EXCEPT ![r] = q],
           Workspaces!Ids \subseteq Workspaces!Ids'
    PROVE  Asked'
  <1>1. operatorRequests' = [s \in Requests |-> operatorRequests'[s]]
    BY DEF Asked
  <1>2. \A s \in Requests : RequestOfWorkspaces(operatorRequests'[s])
    BY DEF Asked
  <1>3. \A s \in Requests : RequestOfWorkspaces(operatorRequests[s])'
    <2> SUFFICES ASSUME NEW s \in Requests PROVE RequestOfWorkspaces(operatorRequests[s])'
      OBVIOUS
    <2> QED
      BY <1>2 DEF RequestOfWorkspaces
  <1> QED
    BY <1>1, <1>3 DEF Asked

LEMMA NoneAsked ==
    ASSUME Asked, operatorRequests' = operatorRequests, Workspaces!Ids \subseteq Workspaces!Ids'
    PROVE  Asked'
  <1>1. \A s \in Requests : RequestOfWorkspaces(operatorRequests[s])'
    BY DEF Asked, RequestOfWorkspaces
  <1> QED
    BY <1>1 DEF Asked

\* What a commit writes is a workspace, and only a suspension that was not seen is ended by it.
LEMMA WrittenRow ==
    ASSUME NEW row \in WorkspaceRows, NEW q, RequestOfWorkspaces(q)
    PROVE  /\ Workspaces!Written(row, q) \in WorkspaceRows
           /\ Workspaces!Written(row, q).slug = IF q.sets.slug = Keep THEN row.slug ELSE q.sets.slug
           /\ Workspaces!Written(row, q).status = IF q.sets.status = Keep THEN row.status ELSE q.sets.status
  <1> DEFINE columns == {"slug", "status", "tier", "trial", "owner"}
             base == [f \in DOMAIN row |->
                        IF f \in DOMAIN q.sets /\ q.sets[f] # Keep THEN q.sets[f] ELSE row[f]]
             owner == IF q.op \in {"accept", "accept_trial"} THEN "active" ELSE row.owner
             trial == row.trial \/ q.op = "accept_trial"
             new == Workspaces!Written(row, q)
  <1>1. q.sets \in Writes /\ DOMAIN q.sets = {"status", "tier", "slug"} /\ DOMAIN row = columns
    BY DEF RequestOfWorkspaces, OperatorRequests, Writes, WorkspaceRows
  <1>2. new = [base EXCEPT !.owner = owner, !.trial = trial]
    BY DEF Workspaces!Written
  <1>3. /\ base = [f \in columns |-> base[f]]
        /\ base["slug"] = IF q.sets.slug = Keep THEN row.slug ELSE q.sets.slug
        /\ base["status"] = IF q.sets.status = Keep THEN row.status ELSE q.sets.status
        /\ base["tier"] = IF q.sets.tier = Keep THEN row.tier ELSE q.sets.tier
    BY <1>1
  <1>4. owner \in {"invited", "active"} /\ trial \in BOOLEAN
    BY DEF WorkspaceRows
  <1>5. base["slug"] \in Names /\ base["status"] \in Statuses /\ base["tier"] \in Tiers
    BY <1>1, <1>3 DEF Writes, WorkspaceRows
  <1> HIDE DEF base, owner, trial, new
  <1>6. new = [slug |-> base["slug"], status |-> base["status"], tier |-> base["tier"],
               trial |-> trial, owner |-> owner]
    BY <1>2, <1>3
  <1>7. new \in WorkspaceRows /\ new.slug = base["slug"] /\ new.status = base["status"]
    BY <1>4, <1>5, <1>6 DEF WorkspaceRows
  <1> QED
    BY <1>3, <1>7 DEF new

\* What the steps amount to: a request that loads, begins or dies changes nothing but itself.
Loads(r) ==
    /\ UNCHANGED <<operators, application>>
    /\ \E q : /\ RequestOfWorkspaces(q) /\ q.op # "approve"
              /\ operatorRequests' = [operatorRequests EXCEPT ![r] = q]

Ends(r) ==
    \/ Workspaces!Commit(r) \/ Workspaces!CommitNew(r) \/ Workspaces!Provision(r)
    \/ Workspaces!ApproveCommit(r) \/ Workspaces!RejectCommit(r)

LEMMA LoadedLoads ==
    ASSUME Rows, Asked, NEW r \in Requests, NEW op \in Changes, NEW o \in Workspaces!Ids,
           NEW sets \in Writes, NEW permitted \in BOOLEAN,
           Workspaces!Loaded(r, op, o, sets, permitted),
           \/ permitted \/ operators[o].status # "suspended" \/ op = "accept_trial"
           \/ sets.status \in {Keep, "suspended"}
    PROVE  Loads(r)
  <1> DEFINE q == [op |-> op, on |-> o, sets |-> sets, permitted |-> permitted,
                   suspended |-> operators[o].status = "suspended"]
  <1>1. operatorRequests' = [operatorRequests EXCEPT ![r] = q] /\ UNCHANGED <<operators, application>>
    BY DEF Workspaces!Loaded
  <1>2. o \in Nat \ {0}
    BY RowOf
  <1>3. q \in OperatorRequests
    BY <1>2 DEF OperatorRequests
  <1>4. RequestOfWorkspaces(q) /\ q.op # "approve"
    BY <1>2, <1>3 DEF RequestOfWorkspaces, Changes, Creations
  <1> QED
    BY <1>1, <1>4 DEF Loads

LEMMA BegunRequest ==
    ASSUME NEW op \in Creations \union {"approve"}, NEW slug \in Names
    PROVE  RequestOfWorkspaces([Workspaces!Idle EXCEPT !.op = op, !.sets.slug = slug])
  <1> DEFINE idle == Workspaces!Idle
             sets == [idle.sets EXCEPT !.slug = slug]
             q == [Workspaces!Idle EXCEPT !.op = op, !.sets.slug = slug]
  <1>1. /\ idle \in OperatorRequests /\ idle.on = 0 /\ ~idle.suspended
        /\ idle.sets \in Writes
    BY IdleRequest DEF RequestOfWorkspaces, OperatorRequests, Workspaces!Idle
  <1>2. sets \in Writes /\ sets.slug = slug
    BY <1>1 DEF Writes
  <1>3. q = [[idle EXCEPT !.op = op] EXCEPT !.sets = sets]
    OBVIOUS
  <1> HIDE DEF sets, idle
  <1>4. /\ q \in OperatorRequests
        /\ q.op = op /\ q.on = 0 /\ q.sets.slug = slug /\ ~q.suspended
    BY <1>1, <1>2, <1>3 DEF OperatorRequests, Handlings
  <1> HIDE DEF q
  <1>5. RequestOfWorkspaces(q)
    BY <1>4 DEF RequestOfWorkspaces, Changes, Creations
  <1> QED
    BY <1>5 DEF q

LEMMA ApplicationLoads ==
    ASSUME NEW r \in Requests, NEW op \in {"reject", "approve_load"}, Workspaces!LoadApplication(r, op)
    PROVE  Loads(r)
  <1> DEFINE q == [Workspaces!Idle EXCEPT !.op = op]
  <1>1. /\ UNCHANGED <<operators, application>>
        /\ operatorRequests' = [operatorRequests EXCEPT ![r] = q]
    BY DEF Workspaces!LoadApplication
  <1>2. Workspaces!Idle \in OperatorRequests /\ Workspaces!Idle.on = 0 /\ ~Workspaces!Idle.suspended
    BY IdleRequest DEF RequestOfWorkspaces, Workspaces!Idle
  <1>3. q \in OperatorRequests /\ q.op = op /\ q.on = 0 /\ ~q.suspended
    BY <1>2 DEF OperatorRequests, Handlings
  <1>4. RequestOfWorkspaces(q) /\ q.op # "approve"
    BY <1>3 DEF RequestOfWorkspaces, Changes, Creations
  <1> QED
    BY <1>1, <1>4 DEF Loads

LEMMA CreationLoads ==
    ASSUME NEW r \in Requests, NEW op \in Creations, NEW slug, Workspaces!Creates(r, op, slug)
    PROVE  Loads(r)
  <1> DEFINE q == [Workspaces!Idle EXCEPT !.op = op, !.sets.slug = slug]
  <1>1. /\ UNCHANGED <<operators, application>> /\ slug \in Names
        /\ operatorRequests' = [operatorRequests EXCEPT ![r] = q]
    BY NamesAreTheSlugs DEF Workspaces!Creates
  <1>2. RequestOfWorkspaces(q)
    BY <1>1, BegunRequest
  <1>3. q.op # "approve"
    BY DEF Workspaces!Idle, Creations
  <1> QED
    BY <1>1, <1>2, <1>3 DEF Loads

LEMMA ChangeLoads ==
    ASSUME Rows, Asked, NEW r \in Requests, NEW o \in Workspaces!Ids,
           \/ Workspaces!OperatorHold(r, o) \/ Workspaces!OperatorReleaseHold(r, o)
           \/ Workspaces!OperatorSuspend(r, o) \/ Workspaces!OperatorActivate(r, o)
           \/ \E edit \in Edits, permitted \in BOOLEAN : Workspaces!OperatorEdit(r, o, edit, permitted)
           \/ Workspaces!InvoicePaid(r, o) \/ Workspaces!AcceptInvite(r, o)
    PROVE  Loads(r)
  <1> USE DEF Changes
  <1>0. {"trial", "active", "hold", "suspended"} \subseteq Statuses
    BY KeepTold
  <1>1. CASE Workspaces!OperatorHold(r, o)
    <2>1. Workspaces!SetStatus(o, "hold") \in Writes
      BY <1>0, StatusWrites
    <2> QED
      BY <1>1, <2>1, LoadedLoads DEF Workspaces!OperatorHold, Workspaces!MayHold
  <1>2. CASE Workspaces!OperatorReleaseHold(r, o)
    <2>1. Workspaces!SetStatus(o, "active") \in Writes
      BY <1>0, StatusWrites
    <2> QED
      BY <1>2, <2>1, LoadedLoads DEF Workspaces!OperatorReleaseHold
  <1>3. CASE Workspaces!OperatorSuspend(r, o)
    <2>1. Workspaces!SetStatus(o, "suspended") \in Writes
      BY <1>0, StatusWrites
    <2> QED
      BY <1>3, <2>1, LoadedLoads DEF Workspaces!OperatorSuspend
  <1>4. CASE Workspaces!OperatorActivate(r, o)
    <2>1. Workspaces!SetStatus(o, "active") \in Writes
      BY <1>0, StatusWrites
    <2> QED
      BY <1>4, <2>1, LoadedLoads DEF Workspaces!OperatorActivate
  <1>5. ASSUME NEW edit \in Edits, NEW permitted \in BOOLEAN,
               Workspaces!OperatorEdit(r, o, edit, permitted)
        PROVE  Loads(r)
    <2> DEFINE sets == [f \in DOMAIN Workspaces!Nothing |->
               Workspaces!Column(IF edit[f] = Keep THEN operators[o][f] ELSE edit[f], operators[o][f])]
    <2>1. /\ Workspaces!Loaded(r, "edit", o, sets, permitted)
          /\ LET status == IF edit.status = Keep THEN operators[o].status ELSE edit.status
             IN status # operators[o].status /\ "suspended" \in {status, operators[o].status} => permitted
      BY <1>5 DEF Workspaces!OperatorEdit
    <2>2. /\ sets \in Writes
          /\ sets.status = "suspended" \/ operators[o].status = "suspended" =>
                 sets.status = Keep \/ (edit.status # Keep /\ edit.status # operators[o].status)
      BY EditWrites
    <2> HIDE DEF sets
    <2>3. permitted \/ operators[o].status # "suspended" \/ sets.status = Keep
      BY <2>1, <2>2
    <2> QED
      BY <2>1, <2>2, <2>3, LoadedLoads
  <1>6. CASE Workspaces!InvoicePaid(r, o)
    <2> DEFINE status == IF operators[o].status = "trial" THEN "active" ELSE Keep
               tier == Workspaces!Column("plan", operators[o].tier)
               sets == [Workspaces!Nothing EXCEPT !.status = status, !.tier = tier]
    <2>1. status \in Statuses \union {Keep} /\ tier \in Tiers \union {Keep}
      BY <1>0 DEF Workspaces!Column, Tiers
    <2>2. operators[o].status # "suspended" \/ status = Keep
      OBVIOUS
    <2>3. Workspaces!Loaded(r, "paid", o, sets, FALSE)
      BY <1>6 DEF Workspaces!InvoicePaid
    <2> HIDE DEF status, tier
    <2>4. sets \in Writes /\ sets.status = status
      BY <2>1, NothingWrites DEF Writes
    <2> HIDE DEF sets
    <2> QED
      BY <2>2, <2>3, <2>4, LoadedLoads
  <1>7. CASE Workspaces!AcceptInvite(r, o) /\ Workspaces!StartsTrial(o)
    <2>1. Workspaces!SetStatus(o, "trial") \in Writes
      BY <1>0, StatusWrites
    <2> QED
      BY <1>7, <2>1, LoadedLoads DEF Workspaces!AcceptInvite
  <1>8. CASE Workspaces!AcceptInvite(r, o) /\ ~Workspaces!StartsTrial(o)
    <2>1. Workspaces!Nothing \in Writes /\ Workspaces!Nothing.status = Keep
      BY NothingWrites DEF Workspaces!Nothing
    <2> QED
      BY <1>8, <2>1, LoadedLoads DEF Workspaces!AcceptInvite
  <1> QED
    BY <1>1, <1>2, <1>3, <1>4, <1>5, <1>6, <1>7, <1>8

LEMMA StepsOfWorkspaces ==
    ASSUME Rows, Asked, Workspaces!Next
    PROVE  \/ \E r \in Requests : Loads(r) \/ Ends(r)
           \/ \E o \in Workspaces!Ids : Workspaces!OperatorAdminEdit(o)
  <1>1. ASSUME NEW r \in Requests, NEW slug,
               \/ Workspaces!OperatorNew(r, slug) \/ Workspaces!OperatorInvite(r, slug)
               \/ Workspaces!RegisterOperator(r, slug) \/ Workspaces!CreateOperator(r, slug)
        PROVE  Loads(r)
    <2>1. {"register", "invite", "command"} \subseteq Creations
      BY DEF Creations
    <2> QED
      BY <1>1, <2>1, CreationLoads DEF Workspaces!OperatorNew, Workspaces!OperatorInvite,
            Workspaces!RegisterOperator, Workspaces!CreateOperator
  <1>2. ASSUME NEW r \in Requests, Workspaces!RejectLoad(r) \/ Workspaces!ApproveLoad(r)
        PROVE  Loads(r)
    BY <1>2, ApplicationLoads DEF Workspaces!RejectLoad, Workspaces!ApproveLoad
  <1>3. ASSUME NEW r \in Requests, Workspaces!Die(r)
        PROVE  Loads(r)
    <2>1. Workspaces!Idle.op # "approve"
      BY DEF Workspaces!Idle
    <2> QED
      BY <1>3, <2>1, IdleRequest DEF Workspaces!Die, Loads
  <1>4. ASSUME NEW r \in Requests, NEW o \in Workspaces!Ids,
               \/ Workspaces!OperatorHold(r, o) \/ Workspaces!OperatorReleaseHold(r, o)
               \/ Workspaces!OperatorSuspend(r, o) \/ Workspaces!OperatorActivate(r, o)
               \/ \E edit \in Edits, permitted \in BOOLEAN : Workspaces!OperatorEdit(r, o, edit, permitted)
               \/ Workspaces!InvoicePaid(r, o) \/ Workspaces!AcceptInvite(r, o)
        PROVE  Loads(r)
    BY <1>4, ChangeLoads
  <1> QED
    BY <1>1, <1>2, <1>3, <1>4 DEF Workspaces!Next, Ends

\* One workspace is made of an application: slugs are unique; and while nobody was renamed meanwhile,
\* the slug of an approval is the first that was free, so that of two approvals the second finds its
\* slug taken.
SlugsUnique == \A o, p \in Workspaces!Ids : operators[o].slug = operators[p].slug => o = p

ApplicationTypes ==
    application \in [status: {"pending", "approved", "rejected"}, made: SUBSET Workspaces!Ids,
                     crossed: BOOLEAN, renamed: BOOLEAN]

ApprovedIsMade ==
    /\ application.status = "approved" => application.made # {}
    /\ application.made # {} => application.status = "approved" \/ application.crossed

\* A slug that provision may have found.
FirstFree(slug) ==
    \E i \in DOMAIN Slugs : slug = Slugs[i] /\ \A j \in 1..i - 1 : Slugs[j] \in Workspaces!SlugsTaken

ApprovalsAgree ==
    ~application.renamed =>
        /\ application.made = {} \/ \E o \in Workspaces!Ids : application.made = {o}
        /\ \A r \in Requests : operatorRequests[r].op = "approve" =>
              /\ FirstFree(operatorRequests[r].sets.slug)
              /\ application.made # {} => operatorRequests[r].sets.slug \in Workspaces!SlugsTaken

WorkspaceTypes == Rows /\ Asked /\ ApplicationTypes

WorkspacesInv == WorkspaceTypes /\ SlugsUnique /\ ApprovedIsMade /\ ApprovalsAgree

LEMMA WorkspacesStart == BackOfficeInit => WorkspacesInv
  <1> SUFFICES ASSUME BackOfficeInit PROVE WorkspacesInv
    OBVIOUS
  <1>1. Workspaces!Init
    BY DEF BackOfficeInit
  <1>2. Workspaces!Ids = {} /\ Rows
    BY <1>1 DEF Workspaces!Init, Workspaces!Ids, Rows
  <1>3. Asked
    BY <1>1, IdleRequest DEF Workspaces!Init, Asked
  <1>4. ApplicationTypes /\ ApprovedIsMade
    BY <1>1 DEF Workspaces!Init, ApplicationTypes, ApprovedIsMade
  <1>5. Workspaces!Idle.op # "approve" /\ application.made = {}
    BY <1>1 DEF Workspaces!Idle, Workspaces!Init
  <1>6. ApprovalsAgree
    BY <1>1, <1>5 DEF ApprovalsAgree, Workspaces!Init
  <1> QED
    BY <1>2, <1>3, <1>4, <1>6 DEF WorkspacesInv, WorkspaceTypes, SlugsUnique

LEMMA FirstFreeStays ==
    ASSUME NEW slug, FirstFree(slug), Workspaces!SlugsTaken \subseteq Workspaces!SlugsTaken'
    PROVE  FirstFree(slug)'
  BY DEF FirstFree

LEMMA TakenStays ==
    ASSUME Workspaces!Ids \subseteq Workspaces!Ids',
           \A o \in Workspaces!Ids : operators'[o].slug = operators[o].slug
    PROVE  Workspaces!SlugsTaken \subseteq Workspaces!SlugsTaken'
  BY DEF Workspaces!SlugsTaken

\* A request that loads.
LEMMA LoadsWorkspaces ==
    ASSUME WorkspacesInv, NEW r \in Requests, Loads(r)
    PROVE  WorkspacesInv'
  <1>1. PICK q : /\ RequestOfWorkspaces(q) /\ q.op # "approve"
                 /\ operatorRequests' = [operatorRequests EXCEPT ![r] = q]
    BY DEF Loads
  <1>2. UNCHANGED <<operators, application>>
    BY DEF Loads
  <1>3. Workspaces!Ids' = Workspaces!Ids /\ Workspaces!SlugsTaken' = Workspaces!SlugsTaken
    BY <1>2 DEF Workspaces!Ids, Workspaces!SlugsTaken
  <1>4. Rows' /\ ApplicationTypes' /\ SlugsUnique' /\ ApprovedIsMade'
    BY <1>2, <1>3 DEF WorkspacesInv, WorkspaceTypes, Rows, ApplicationTypes, SlugsUnique, ApprovedIsMade
  <1>5. Asked'
    BY <1>1, <1>3, OneAsked DEF WorkspacesInv, WorkspaceTypes
  <1>6. ASSUME NEW s \in Requests, operatorRequests'[s].op = "approve"
        PROVE  operatorRequests'[s] = operatorRequests[s]
    BY <1>1, <1>6 DEF WorkspacesInv, WorkspaceTypes, Asked
  <1>7. ApprovalsAgree'
    BY <1>2, <1>3, <1>6, FirstFreeStays DEF WorkspacesInv, ApprovalsAgree
  <1> QED
    BY <1>4, <1>5, <1>7 DEF WorkspacesInv, WorkspaceTypes

LEMMA AppendedWorkspace ==
    ASSUME Rows, NEW row \in WorkspaceRows, operators' = Append(operators, row)
    PROVE  /\ Rows'
           /\ Workspaces!Ids' = Workspaces!Ids \union {Len(operators) + 1}
           /\ Len(operators) + 1 \notin Workspaces!Ids
           /\ \A o \in Workspaces!Ids : operators'[o] = operators[o]
           /\ operators'[Len(operators) + 1] = row
  BY DEF Rows, Workspaces!Ids

LEMMA MadeRow ==
    ASSUME NEW op \in Creations \union {"approve"}, NEW slug \in Names
    PROVE  Workspaces!Made(op, slug) \in WorkspaceRows /\ Workspaces!Made(op, slug).slug = slug
  BY KeepTold DEF Creations, Workspaces!Made, Workspaces!Operator, WorkspaceRows, Tiers

LEMMA AppendedUnique ==
    ASSUME Rows, SlugsUnique, NEW row \in WorkspaceRows, operators' = Append(operators, row),
           row.slug \notin Workspaces!SlugsTaken
    PROVE  /\ SlugsUnique'
           /\ Workspaces!SlugsTaken \subseteq Workspaces!SlugsTaken'
           /\ row.slug \in Workspaces!SlugsTaken'
  <1>1. /\ Workspaces!Ids' = Workspaces!Ids \union {Len(operators) + 1}
        /\ \A o \in Workspaces!Ids : operators'[o] = operators[o]
        /\ operators'[Len(operators) + 1] = row
    BY AppendedWorkspace
  <1>2. \A o \in Workspaces!Ids : operators[o].slug # row.slug
    BY DEF Workspaces!SlugsTaken
  <1>3. ASSUME NEW o \in Workspaces!Ids', NEW p \in Workspaces!Ids', operators'[o].slug = operators'[p].slug
        PROVE  o = p
    <2>1. CASE o \in Workspaces!Ids /\ p \in Workspaces!Ids
      BY <1>1, <1>3, <2>1 DEF SlugsUnique
    <2>2. CASE o \notin Workspaces!Ids \/ p \notin Workspaces!Ids
      BY <1>1, <1>2, <1>3, <2>2, Zenon
    <2> QED
      BY <2>1, <2>2
  <1> QED
    BY <1>1, <1>3, TakenStays DEF Workspaces!SlugsTaken, SlugsUnique

\* A workspace is changed: its slug stays, or was free.
LEMMA WrittenUnique ==
    ASSUME Rows, SlugsUnique, NEW o \in Workspaces!Ids, NEW row \in WorkspaceRows,
           operators' = [operators EXCEPT ![o] = row],
           row.slug \notin {operators[p].slug : p \in Workspaces!Ids \ {o}}
    PROVE  /\ Rows' /\ SlugsUnique' /\ Workspaces!Ids' = Workspaces!Ids
           /\ row.slug = operators[o].slug => Workspaces!SlugsTaken \subseteq Workspaces!SlugsTaken'
  <1>1. Rows' /\ Workspaces!Ids' = Workspaces!Ids
    BY DEF Rows, Workspaces!Ids
  <1>2. operators'[o] = row /\ \A p \in Workspaces!Ids \ {o} : operators'[p] = operators[p]
    BY DEF Workspaces!Ids
  <1>3. SlugsUnique'
    BY <1>1, <1>2 DEF SlugsUnique
  <1>4. row.slug = operators[o].slug => Workspaces!SlugsTaken \subseteq Workspaces!SlugsTaken'
    BY <1>1, <1>2, TakenStays
  <1> QED
    BY <1>1, <1>3, <1>4

\* A request of the invariant, and what is left of the others when it has ended.
LEMMA EndedAsked ==
    ASSUME Asked, NEW r \in Requests,
           operatorRequests' = [operatorRequests EXCEPT ![r] = Workspaces!Idle],
           Workspaces!Ids \subseteq Workspaces!Ids'
    PROVE  /\ Asked'
           /\ \A s \in Requests : operatorRequests'[s].op = "approve" =>
                  operatorRequests'[s] = operatorRequests[s]
  <1>1. Workspaces!Idle.op # "approve"
    BY DEF Workspaces!Idle
  <1> QED
    BY <1>1, IdleRequest, OneAsked DEF Asked

LEMMA CommitWorkspaces ==
    ASSUME WorkspacesInv, NEW r \in Requests, Workspaces!Commit(r)
    PROVE  WorkspacesInv'
  <1> DEFINE q == operatorRequests[r]
             free == q.sets.slug \notin {operators[p].slug : p \in Workspaces!Ids \ {q.on}}
             renamed == application.renamed \/ (free /\ q.sets.slug # Keep /\ Workspaces!BeingApproved)
  <1>1. /\ q.on # 0
        /\ operators' = IF free THEN [operators EXCEPT ![q.on] = Workspaces!Written(operators[q.on], q)]
                        ELSE operators
        /\ operatorRequests' = [operatorRequests EXCEPT ![r] = Workspaces!Idle]
        /\ application' = [application EXCEPT !.renamed = renamed]
    BY DEF Workspaces!Commit
  <1>2. Rows /\ Asked /\ SlugsUnique /\ application \in [status: {"pending", "approved", "rejected"},
            made: SUBSET Workspaces!Ids, crossed: BOOLEAN, renamed: BOOLEAN]
    BY DEF WorkspacesInv, WorkspaceTypes, ApplicationTypes
  <1>3. RequestOfWorkspaces(q) /\ q.on \in Workspaces!Ids
    BY <1>1, <1>2 DEF Asked, RequestOfWorkspaces
  <1> DEFINE row == Workspaces!Written(operators[q.on], q)
  <1>4. /\ row \in WorkspaceRows
        /\ row.slug = IF q.sets.slug = Keep THEN operators[q.on].slug ELSE q.sets.slug
    BY <1>2, <1>3, RowOf, WrittenRow
  <1>5. renamed \in BOOLEAN
    BY <1>2
  <1> HIDE DEF row
  <1>6. \A p \in Workspaces!Ids \ {q.on} : operators[p].slug # operators[q.on].slug
    BY <1>2, <1>3 DEF SlugsUnique
  <1>7. /\ Rows' /\ SlugsUnique' /\ Workspaces!Ids' = Workspaces!Ids
        /\ ~free \/ q.sets.slug = Keep => Workspaces!SlugsTaken \subseteq Workspaces!SlugsTaken'
    <2>1. CASE free
      <3>1. row.slug \notin {operators[p].slug : p \in Workspaces!Ids \ {q.on}}
        BY <1>4, <1>6, <2>1
      <3>2. operators' = [operators EXCEPT ![q.on] = row]
        BY <1>1, <2>1 DEF row
      <3>3. /\ Rows' /\ SlugsUnique' /\ Workspaces!Ids' = Workspaces!Ids
            /\ row.slug = operators[q.on].slug => Workspaces!SlugsTaken \subseteq Workspaces!SlugsTaken'
        BY <1>2, <1>3, <1>4, <3>1, <3>2, WrittenUnique
      <3> QED
        BY <1>4, <2>1, <3>3
    <2>2. CASE ~free
      BY <1>1, <1>2, <2>2 DEF Rows, SlugsUnique, Workspaces!Ids, Workspaces!SlugsTaken
    <2> QED
      BY <2>1, <2>2
  <1> HIDE DEF free, renamed, q
  <1>8. /\ ApplicationTypes' /\ application'.status = application.status
        /\ application'.made = application.made /\ application'.crossed = application.crossed
        /\ application'.renamed = renamed
    BY <1>1, <1>2, <1>5, <1>7 DEF ApplicationTypes
  <1>9. /\ Asked'
        /\ \A s \in Requests : operatorRequests'[s].op = "approve" =>
                  operatorRequests'[s] = operatorRequests[s]
    BY <1>1, <1>2, <1>7, EndedAsked
  <1>10. ApprovedIsMade'
    BY <1>8 DEF WorkspacesInv, ApprovedIsMade
  <1>11. ASSUME ~renamed, NEW s \in Requests, operatorRequests'[s].op = "approve"
         PROVE  /\ FirstFree(operatorRequests[s].sets.slug)'
                /\ application.made # {} => operatorRequests'[s].sets.slug \in Workspaces!SlugsTaken'
    <2>1. operatorRequests'[s] = operatorRequests[s] /\ operatorRequests[s].op = "approve"
      BY <1>9, <1>11
    <2>2. ~application.renamed /\ (~free \/ q.sets.slug = Keep)
      BY <1>11, <2>1 DEF renamed, Workspaces!BeingApproved
    <2>3. /\ FirstFree(operatorRequests[s].sets.slug)
          /\ application.made # {} => operatorRequests[s].sets.slug \in Workspaces!SlugsTaken
      BY <2>1, <2>2 DEF WorkspacesInv, ApprovalsAgree
    <2> QED
      BY <1>7, <2>1, <2>2, <2>3, FirstFreeStays
  <1>12. ~renamed => ~application.renamed
    BY DEF renamed
  <1>13. ApprovalsAgree'
    BY <1>7, <1>8, <1>11, <1>12 DEF WorkspacesInv, ApprovalsAgree
  <1> QED
    BY <1>7, <1>8, <1>9, <1>10, <1>13 DEF WorkspacesInv, WorkspaceTypes

\* A workspace is appended, or its slug was taken meanwhile and nothing is.
LEMMA CreatedWorkspace ==
    ASSUME Rows, SlugsUnique, NEW row \in WorkspaceRows,
           operators' = IF row.slug \in Workspaces!SlugsTaken THEN operators ELSE Append(operators, row)
    PROVE  /\ Rows' /\ SlugsUnique'
           /\ Workspaces!Ids \subseteq Workspaces!Ids'
           /\ Workspaces!SlugsTaken \subseteq Workspaces!SlugsTaken'
           /\ row.slug \in Workspaces!SlugsTaken'
  <1>1. CASE row.slug \in Workspaces!SlugsTaken
    BY <1>1 DEF Rows, SlugsUnique, Workspaces!Ids, Workspaces!SlugsTaken
  <1>2. CASE row.slug \notin Workspaces!SlugsTaken
    <2>1. operators' = Append(operators, row)
      BY <1>2
    <2> QED
      BY <1>2, <2>1, AppendedWorkspace, AppendedUnique
  <1> QED
    BY <1>1, <1>2

LEMMA CommitNewWorkspaces ==
    ASSUME WorkspacesInv, NEW r \in Requests, Workspaces!CommitNew(r)
    PROVE  WorkspacesInv'
  <1> DEFINE q == operatorRequests[r]
             row == Workspaces!Made(q.op, q.sets.slug)
  <1>1. /\ q.op \in Creations /\ UNCHANGED application
        /\ operators' = IF q.sets.slug \in Workspaces!SlugsTaken THEN operators ELSE Append(operators, row)
        /\ operatorRequests' = [operatorRequests EXCEPT ![r] = Workspaces!Idle]
    BY DEF Workspaces!CommitNew, Creations
  <1>2. Rows /\ Asked /\ SlugsUnique
    BY DEF WorkspacesInv, WorkspaceTypes
  <1>3. row \in WorkspaceRows /\ row.slug = q.sets.slug
    <2>1. q.sets.slug \in Names
      BY <1>1, <1>2 DEF Asked, RequestOfWorkspaces
    <2> QED
      BY <1>1, <2>1, MadeRow
  <1> HIDE DEF row, q
  <1>4. /\ Rows' /\ SlugsUnique' /\ Workspaces!Ids \subseteq Workspaces!Ids'
        /\ Workspaces!SlugsTaken \subseteq Workspaces!SlugsTaken'
    BY <1>1, <1>2, <1>3, CreatedWorkspace
  <1>5. /\ Asked'
        /\ \A s \in Requests : operatorRequests'[s].op = "approve" =>
                  operatorRequests'[s] = operatorRequests[s]
    BY <1>1, <1>2, <1>4, EndedAsked
  <1>6. ApplicationTypes' /\ ApprovedIsMade'
    BY <1>1, <1>4 DEF WorkspacesInv, WorkspaceTypes, ApplicationTypes, ApprovedIsMade
  <1>7. ApprovalsAgree'
    BY <1>1, <1>4, <1>5, FirstFreeStays DEF WorkspacesInv, ApprovalsAgree
  <1> QED
    BY <1>4, <1>5, <1>6, <1>7 DEF WorkspacesInv, WorkspaceTypes

LEMMA ProvisionWorkspaces ==
    ASSUME WorkspacesInv, NEW r \in Requests, Workspaces!Provision(r)
    PROVE  WorkspacesInv'
  <1> DEFINE found == Slugs[Workspaces!SlugFor]
             q == [operatorRequests[r] EXCEPT !.op = "approve", !.sets.slug = found]
  <1>1. /\ operatorRequests[r].op = "approve_load" /\ Workspaces!SlugFor # 0
        /\ UNCHANGED <<operators, application>>
        /\ operatorRequests' = [operatorRequests EXCEPT ![r] = IF application.made # {} THEN Workspaces!Idle ELSE q]
    BY DEF Workspaces!Provision, Workspaces!EmailKnown
  <1>2. /\ found \in Names /\ FirstFree(found)
        /\ Workspaces!SlugFor \in DOMAIN Slugs
    BY <1>1, SlugFound DEF Names, FirstFree
  <1> HIDE DEF found
  <1>3. RequestOfWorkspaces(q) /\ q.sets.slug = found
    <2> DEFINE old == operatorRequests[r]
               sets == [old.sets EXCEPT !.slug = found]
    <2>1. RequestOfWorkspaces(old) /\ old.op = "approve_load"
      BY <1>1 DEF WorkspacesInv, WorkspaceTypes, Asked
    <2>2. old \in OperatorRequests /\ old.sets \in Writes /\ old.on = 0
      BY <2>1 DEF RequestOfWorkspaces, OperatorRequests, Changes
    <2>3. sets \in Writes /\ sets.slug = found /\ sets.status = old.sets.status
      BY <1>2, <2>2 DEF Writes
    <2>4. q = [[old EXCEPT !.op = "approve"] EXCEPT !.sets = sets]
      OBVIOUS
    <2> HIDE DEF sets, old, q
    <2>5. /\ q \in OperatorRequests
          /\ q.op = "approve" /\ q.on = 0 /\ q.sets = sets
          /\ q.permitted = old.permitted /\ q.suspended = old.suspended
      BY <2>2, <2>3, <2>4 DEF OperatorRequests, Handlings
    <2>6. q.permitted \/ ~q.suspended \/ q.sets.status \in {Keep, "suspended"}
      BY <2>1, <2>3, <2>5 DEF RequestOfWorkspaces
    <2> QED
      BY <1>2, <2>3, <2>5, <2>6 DEF RequestOfWorkspaces, Changes
  <1>4. /\ Workspaces!Ids' = Workspaces!Ids /\ Workspaces!SlugsTaken' = Workspaces!SlugsTaken
        /\ Rows' /\ SlugsUnique' /\ ApplicationTypes' /\ ApprovedIsMade'
    BY <1>1 DEF WorkspacesInv, WorkspaceTypes, Rows, SlugsUnique, ApplicationTypes, ApprovedIsMade,
          Workspaces!Ids, Workspaces!SlugsTaken
  <1> HIDE DEF q
  <1>5. Asked'
    BY <1>1, <1>3, <1>4, IdleRequest, OneAsked DEF WorkspacesInv, WorkspaceTypes
  <1>6. Workspaces!Idle.op # "approve"
    BY DEF Workspaces!Idle
  <1>7. \A s \in Requests : operatorRequests'[s].op = "approve" =>
            \/ operatorRequests'[s] = operatorRequests[s]
            \/ operatorRequests'[s] = q /\ application.made = {}
    BY <1>1, <1>6 DEF WorkspacesInv, WorkspaceTypes, Asked
  <1>8. ASSUME ~application.renamed, NEW s \in Requests, operatorRequests'[s].op = "approve"
        PROVE  /\ FirstFree(operatorRequests[s].sets.slug)'
               /\ application.made # {} => operatorRequests'[s].sets.slug \in Workspaces!SlugsTaken
    <2>1. CASE operatorRequests'[s] = operatorRequests[s]
      <3>1. /\ FirstFree(operatorRequests[s].sets.slug)
            /\ application.made # {} => operatorRequests[s].sets.slug \in Workspaces!SlugsTaken
        BY <1>8, <2>1 DEF WorkspacesInv, ApprovalsAgree
      <3> QED
        BY <1>4, <2>1, <3>1, FirstFreeStays
    <2>2. CASE operatorRequests'[s] = q /\ application.made = {}
      BY <1>2, <1>3, <1>4, <2>2, FirstFreeStays
    <2> QED
      BY <1>7, <1>8, <2>1, <2>2
  <1>9. ApprovalsAgree'
    BY <1>1, <1>4, <1>8 DEF WorkspacesInv, ApprovalsAgree
  <1> QED
    BY <1>4, <1>5, <1>9 DEF WorkspacesInv, WorkspaceTypes

LEMMA RejectWorkspaces ==
    ASSUME WorkspacesInv, NEW r \in Requests, Workspaces!RejectCommit(r)
    PROVE  WorkspacesInv'
  <1> DEFINE crossed == application.crossed \/ application.status # "pending"
  <1>1. /\ application' = [application EXCEPT !.status = "rejected", !.crossed = crossed]
        /\ operatorRequests' = [operatorRequests EXCEPT ![r] = Workspaces!Idle]
        /\ UNCHANGED operators
    BY DEF Workspaces!RejectCommit
  <1>2. /\ Workspaces!Ids' = Workspaces!Ids /\ Workspaces!SlugsTaken' = Workspaces!SlugsTaken
        /\ Rows' /\ SlugsUnique'
    BY <1>1 DEF WorkspacesInv, WorkspaceTypes, Rows, SlugsUnique, Workspaces!Ids, Workspaces!SlugsTaken
  <1>3. crossed \in BOOLEAN /\ (application.made # {} => crossed)
    BY DEF WorkspacesInv, WorkspaceTypes, ApplicationTypes, ApprovedIsMade
  <1> HIDE DEF crossed
  <1>4. application \in [status: {"pending", "approved", "rejected"}, made: SUBSET Workspaces!Ids,
                         crossed: BOOLEAN, renamed: BOOLEAN]
    BY DEF WorkspacesInv, WorkspaceTypes, ApplicationTypes
  <1>5. /\ ApplicationTypes' /\ application'.status = "rejected"
        /\ application'.made = application.made /\ application'.crossed = crossed
        /\ application'.renamed = application.renamed
    BY <1>1, <1>2, <1>3, <1>4 DEF ApplicationTypes
  <1>6. ApprovedIsMade'
    BY <1>3, <1>5 DEF ApprovedIsMade
  <1>7. /\ Asked'
        /\ \A s \in Requests : operatorRequests'[s].op = "approve" =>
                  operatorRequests'[s] = operatorRequests[s]
    BY <1>1, <1>2, EndedAsked DEF WorkspacesInv, WorkspaceTypes
  <1>8. ApprovalsAgree'
    BY <1>2, <1>5, <1>7, FirstFreeStays DEF WorkspacesInv, ApprovalsAgree
  <1> QED
    BY <1>2, <1>5, <1>6, <1>7, <1>8 DEF WorkspacesInv, WorkspaceTypes

LEMMA AdminEditWorkspaces ==
    ASSUME WorkspacesInv, NEW o \in Workspaces!Ids, Workspaces!OperatorAdminEdit(o)
    PROVE  WorkspacesInv'
  <1> DEFINE row == [operators[o] EXCEPT !.owner = "active"]
  <1>1. operators' = [operators EXCEPT ![o] = row] /\ UNCHANGED <<application, operatorRequests>>
    BY DEF Workspaces!OperatorAdminEdit
  <1>2. Rows /\ SlugsUnique /\ Asked
    BY DEF WorkspacesInv, WorkspaceTypes
  <1>3. row \in WorkspaceRows /\ row.slug = operators[o].slug
    BY <1>2, RowOf DEF WorkspaceRows
  <1> HIDE DEF row
  <1>4. row.slug \notin {operators[p].slug : p \in Workspaces!Ids \ {o}}
    BY <1>2, <1>3 DEF SlugsUnique
  <1>5. /\ Rows' /\ SlugsUnique' /\ Workspaces!Ids' = Workspaces!Ids
        /\ Workspaces!SlugsTaken \subseteq Workspaces!SlugsTaken'
    BY <1>1, <1>2, <1>3, <1>4, WrittenUnique
  <1>6. Asked' /\ ApplicationTypes' /\ ApprovedIsMade'
    BY <1>1, <1>2, <1>5, NoneAsked DEF WorkspacesInv, WorkspaceTypes, ApplicationTypes, ApprovedIsMade
  <1>7. ApprovalsAgree'
    BY <1>1, <1>5, FirstFreeStays DEF WorkspacesInv, ApprovalsAgree
  <1> QED
    BY <1>5, <1>6, <1>7 DEF WorkspacesInv, WorkspaceTypes

\* Of two slugs that were the first that was free, one is taken if they are not the same.
LEMMA FirstFreeAgree ==
    ASSUME NEW a, NEW b, FirstFree(a), FirstFree(b)
    PROVE  a = b \/ a \in Workspaces!SlugsTaken \/ b \in Workspaces!SlugsTaken
  <1>1. PICK i \in DOMAIN Slugs : a = Slugs[i] /\ \A k \in 1..i - 1 : Slugs[k] \in Workspaces!SlugsTaken
    BY DEF FirstFree
  <1>2. PICK j \in DOMAIN Slugs : b = Slugs[j] /\ \A k \in 1..j - 1 : Slugs[k] \in Workspaces!SlugsTaken
    BY DEF FirstFree
  <1>3. i \in Nat \ {0} /\ j \in Nat \ {0}
    BY NamesOfWorkspaces
  <1>4. i = j \/ i \in 1..j - 1 \/ j \in 1..i - 1
    BY <1>3
  <1> QED
    BY <1>1, <1>2, <1>4

LEMMA ApproveWorkspaces ==
    ASSUME WorkspacesInv, NEW r \in Requests, Workspaces!ApproveCommit(r)
    PROVE  WorkspacesInv'
  <1> DEFINE slug == operatorRequests[r].sets.slug
             row == Workspaces!Made("approve", slug)
             taken == slug \in Workspaces!SlugsTaken
             n == Len(operators) + 1
             made == application.made \union {n}
             crossed == application.crossed \/ application.status # "pending"
  <1>1. /\ operatorRequests[r].op = "approve"
        /\ operatorRequests' = [operatorRequests EXCEPT ![r] = Workspaces!Idle]
        /\ operators' = IF taken THEN operators ELSE Append(operators, row)
        /\ taken => UNCHANGED application
        /\ ~taken => application' = [application EXCEPT !.status = "approved", !.made = made, !.crossed = crossed]
    BY DEF Workspaces!ApproveCommit
  <1>2. Rows /\ Asked /\ SlugsUnique
    BY DEF WorkspacesInv, WorkspaceTypes
  <1>3. row \in WorkspaceRows /\ row.slug = slug
    BY <1>1, <1>2, MadeRow DEF Asked, RequestOfWorkspaces
  <1>4. crossed \in BOOLEAN
    BY DEF WorkspacesInv, WorkspaceTypes, ApplicationTypes
  <1>5. application \in [status: {"pending", "approved", "rejected"}, made: SUBSET Workspaces!Ids,
                         crossed: BOOLEAN, renamed: BOOLEAN]
    BY DEF WorkspacesInv, WorkspaceTypes, ApplicationTypes
  <1>6. ~taken => Workspaces!Ids' = Workspaces!Ids \union {n}
    BY <1>1, <1>2, <1>3, AppendedWorkspace
  <1> HIDE DEF row, crossed, n, slug
  <1>7. /\ Rows' /\ SlugsUnique' /\ Workspaces!Ids \subseteq Workspaces!Ids'
        /\ Workspaces!SlugsTaken \subseteq Workspaces!SlugsTaken'
        /\ slug \in Workspaces!SlugsTaken'
    BY <1>1, <1>2, <1>3, CreatedWorkspace
  <1>8. /\ Asked'
        /\ \A s \in Requests : operatorRequests'[s].op = "approve" =>
                  operatorRequests'[s] = operatorRequests[s]
    BY <1>1, <1>2, <1>7, EndedAsked
  <1>9. CASE taken
    <2>1. ApplicationTypes' /\ ApprovedIsMade'
      BY <1>1, <1>7, <1>9 DEF WorkspacesInv, WorkspaceTypes, ApplicationTypes, ApprovedIsMade
    <2>2. ApprovalsAgree'
      BY <1>1, <1>7, <1>8, <1>9, FirstFreeStays DEF WorkspacesInv, ApprovalsAgree
    <2> QED
      BY <1>7, <1>8, <2>1, <2>2 DEF WorkspacesInv, WorkspaceTypes
  <1>10. CASE ~taken
    <2>1. made \subseteq Workspaces!Ids' /\ made # {} /\ n \in Workspaces!Ids'
      BY <1>5, <1>6, <1>10
    <2> HIDE DEF made
    <2>2. /\ ApplicationTypes' /\ application'.status = "approved" /\ application'.made = made
          /\ application'.renamed = application.renamed
      BY <1>1, <1>4, <1>5, <1>10, <2>1 DEF ApplicationTypes
    <2>3. ApprovedIsMade'
      BY <2>1, <2>2 DEF ApprovedIsMade
    <2>4. ASSUME ~application.renamed PROVE made = {n} /\ FirstFree(slug)
      <3>1. FirstFree(slug) /\ (application.made # {} => taken)
        BY <1>1, <2>4 DEF WorkspacesInv, ApprovalsAgree, slug
      <3> QED
        BY <1>10, <3>1 DEF made
    <2>5. ASSUME ~application.renamed, NEW s \in Requests, operatorRequests'[s].op = "approve"
          PROVE  /\ FirstFree(operatorRequests[s].sets.slug)'
                 /\ operatorRequests'[s].sets.slug \in Workspaces!SlugsTaken'
      <3>1. operatorRequests'[s] = operatorRequests[s] /\ FirstFree(operatorRequests[s].sets.slug)
        BY <1>8, <2>5 DEF WorkspacesInv, ApprovalsAgree
      <3>2. FirstFree(operatorRequests[s].sets.slug)'
        BY <1>7, <3>1, FirstFreeStays
      <3> QED
        BY <1>7, <1>10, <2>4, <2>5, <3>1, <3>2, FirstFreeAgree
    <2>6. ApprovalsAgree'
      BY <2>1, <2>2, <2>4, <2>5 DEF ApprovalsAgree
    <2> QED
      BY <1>7, <1>8, <2>2, <2>3, <2>6 DEF WorkspacesInv, WorkspaceTypes
  <1> QED
    BY <1>9, <1>10

LEMMA WorkspacesStep == WorkspacesInv /\ [BackOfficeNext]_backOfficeVars => WorkspacesInv'
  <1> SUFFICES ASSUME WorkspacesInv, [BackOfficeNext]_backOfficeVars PROVE WorkspacesInv'
    OBVIOUS
  <1>1. Workspaces!Next \/ UNCHANGED operatorVars
    BY DEF BackOfficeNext, backOfficeVars, operatorVars
  <1>2. CASE UNCHANGED operatorVars
    <2>1. UNCHANGED <<operators, application, operatorRequests>>
      BY <1>2 DEF operatorVars
    <2>2. Workspaces!Ids' = Workspaces!Ids /\ Workspaces!SlugsTaken' = Workspaces!SlugsTaken
      BY <2>1 DEF Workspaces!Ids, Workspaces!SlugsTaken
    <2>3. Asked'
      BY <2>1, <2>2, NoneAsked DEF WorkspacesInv, WorkspaceTypes
    <2>4. Rows' /\ ApplicationTypes' /\ SlugsUnique' /\ ApprovedIsMade'
      BY <2>1, <2>2 DEF WorkspacesInv, WorkspaceTypes, Rows, ApplicationTypes, SlugsUnique, ApprovedIsMade
    <2>5. ApprovalsAgree'
      BY <2>1, <2>2, FirstFreeStays DEF WorkspacesInv, ApprovalsAgree
    <2> QED
      BY <2>3, <2>4, <2>5 DEF WorkspacesInv, WorkspaceTypes
  <1>3. CASE Workspaces!Next
    <2>1. \/ \E r \in Requests : Loads(r) \/ Ends(r)
          \/ \E o \in Workspaces!Ids : Workspaces!OperatorAdminEdit(o)
      BY <1>3, StepsOfWorkspaces DEF WorkspacesInv, WorkspaceTypes
    <2> QED
      BY <2>1, LoadsWorkspaces, CommitWorkspaces, CommitNewWorkspaces, ProvisionWorkspaces,
         ApproveWorkspaces, RejectWorkspaces, AdminEditWorkspaces DEF Ends
  <1> QED
    BY <1>1, <1>2, <1>3

LEMMA WorkspacesSound == WorkspacesInv => ApplicationMakesOne
  <1> SUFFICES ASSUME WorkspacesInv PROVE ApplicationMakesOne
    OBVIOUS
  <1>1. Workspaces!TypeOK
    <2>1. \A o \in Workspaces!Ids : operators[o] \in [slug: Workspaces!ToSet(Slugs), status: Statuses,
              tier: {"plan", "partner"}, trial: BOOLEAN, owner: {"invited", "active"}]
      BY RowOf, NamesAreTheSlugs DEF WorkspacesInv, WorkspaceTypes, WorkspaceRows, Tiers
    <2>2. /\ application.status \in {"pending", "approved", "rejected"}
          /\ application.made \subseteq Workspaces!Ids
      BY DEF WorkspacesInv, WorkspaceTypes, ApplicationTypes
    <2>3. \A r \in Requests : operatorRequests[r].on \in Workspaces!Ids \union {0}
      BY DEF WorkspacesInv, WorkspaceTypes, Asked, RequestOfWorkspaces
    <2> QED
      BY <2>1, <2>2, <2>3 DEF Workspaces!TypeOK
  <1>2. Workspaces!Cardinality(application.made) <= 1 \/ application.renamed
    <2>1. CASE ~application.renamed /\ application.made = {}
      BY <2>1, FS_EmptySet DEF Workspaces!Cardinality, Cardinality
    <2>2. ASSUME NEW o \in Workspaces!Ids, application.made = {o}
          PROVE  Workspaces!Cardinality(application.made) <= 1
      <3>1. Cardinality({o}) = 1
        BY FS_Singleton
      <3> QED
        BY <2>2, <3>1 DEF Workspaces!Cardinality, Cardinality
    <2> QED
      BY <2>1, <2>2 DEF WorkspacesInv, ApprovalsAgree
  <1> QED
    BY <1>1, <1>2 DEF ApplicationMakesOne, Workspaces!ApplicationMakesOne, WorkspacesInv, ApprovedIsMade,
        SlugsUnique

\* One workspace is made of an application of a partner, whoever handles it at once with whom, unless
\* another workspace gets a new slug meanwhile; slugs are unique (provision, marketplace_application).
THEOREM ApplicationHandledOnce == BackOfficeSpec => []ApplicationMakesOne
  <1> QED
    BY WorkspacesStart, WorkspacesStep, WorkspacesSound, PTL DEF BackOfficeSpec

LEMMA OnlyCommitsChangeStatus ==
    ASSUME WorkspacesInv, Workspaces!Next, NEW o \in Workspaces!Ids,
           operators[o].status = "suspended", operators'[o].status # "suspended"
    PROVE  \E r \in Requests :
               /\ operatorRequests[r].on = o /\ operatorRequests'[r] = Workspaces!Idle
               /\ operatorRequests[r].permitted \/ ~operatorRequests[r].suspended
                  \/ operatorRequests[r].op = "accept_trial"
  <1>1. Rows /\ Asked
    BY DEF WorkspacesInv, WorkspaceTypes
  <1>2. ASSUME NEW r \in Requests, Loads(r) \/ Workspaces!Provision(r) \/ Workspaces!RejectCommit(r)
        PROVE  FALSE
    BY <1>2 DEF Loads, Workspaces!Provision, Workspaces!RejectCommit
  <1>3. ASSUME NEW r \in Requests, Workspaces!CommitNew(r) \/ Workspaces!ApproveCommit(r)
        PROVE  FALSE
    <2>1. \/ operators' = operators
          \/ \E row : operators' = Append(operators, row)
      BY <1>3 DEF Workspaces!CommitNew, Workspaces!ApproveCommit
    <2>2. operators'[o] = operators[o]
      BY <1>1, <2>1 DEF Rows, Workspaces!Ids
    <2> QED
      BY <2>2
  <1>4. ASSUME NEW p \in Workspaces!Ids, Workspaces!OperatorAdminEdit(p) PROVE FALSE
    <2> DEFINE row == [operators[p] EXCEPT !.owner = "active"]
    <2>1. operators' = [operators EXCEPT ![p] = row]
      BY <1>4 DEF Workspaces!OperatorAdminEdit
    <2>2. row.status = operators[p].status
      BY <1>1, RowOf DEF WorkspaceRows
    <2> HIDE DEF row
    <2>3. operators'[o].status = operators[o].status
      BY <2>1, <2>2 DEF Workspaces!Ids
    <2> QED
      BY <2>3
  <1>5. PICK r \in Requests : Workspaces!Commit(r)
    BY <1>1, <1>2, <1>3, <1>4, StepsOfWorkspaces DEF Ends
  <1> DEFINE q == operatorRequests[r]
             row == Workspaces!Written(operators[q.on], q)
  <1>6. /\ q.on # 0 /\ RequestOfWorkspaces(q) /\ operatorRequests'[r] = Workspaces!Idle
        /\ operators' = operators \/ operators' = [operators EXCEPT ![q.on] = row]
    BY <1>1, <1>5 DEF Workspaces!Commit, Asked
  <1>7. q.on \in Workspaces!Ids
    BY <1>6 DEF RequestOfWorkspaces
  <1>8. row.status = IF q.sets.status = Keep THEN operators[q.on].status ELSE q.sets.status
    BY <1>1, <1>6, <1>7, RowOf, WrittenRow
  <1> HIDE DEF row
  <1>9. q.on = o /\ operators'[o] = row
    BY <1>6, <1>7 DEF Workspaces!Ids
  <1>10. q.sets.status \notin {Keep, "suspended"}
    BY <1>8, <1>9
  <1>11. q.permitted \/ ~q.suspended \/ q.op = "accept_trial"
    BY <1>6, <1>10 DEF RequestOfWorkspaces
  <1> QED
    BY <1>6, <1>9, <1>11

\* A suspension is ended by the platform's super admins, by a request that loaded the workspace before it
\* was suspended, or by an accepted invitation that starts a trial (operator_hold, operator_edit).
THEOREM SuspensionIsEndedByThoseWhoMay == BackOfficeSpec => SuspensionHolds
  <1> DEFINE Held ==
        \A o \in Workspaces!Ids :
            operators[o].status = "suspended" /\ operators'[o].status # "suspended" =>
                \E r \in Requests :
                    /\ operatorRequests[r].on = o /\ operatorRequests'[r] = Workspaces!Idle
                    /\ operatorRequests[r].permitted \/ ~operatorRequests[r].suspended
                       \/ operatorRequests[r].op = "accept_trial"
  <1>1. WorkspacesInv /\ [BackOfficeNext]_backOfficeVars => [Held]_(Workspaces!vars)
    <2> SUFFICES ASSUME WorkspacesInv, BackOfficeNext, ~UNCHANGED Workspaces!vars PROVE Held
      BY DEF backOfficeVars, operatorVars, Workspaces!vars
    <2>1. Workspaces!Next
      BY DEF BackOfficeNext, operatorVars, Workspaces!vars
    <2> QED
      BY <2>1, OnlyCommitsChangeStatus
  <1> HIDE DEF Held
  <1>2. BackOfficeSpec => [][Held]_(Workspaces!vars)
    BY <1>1, WorkspacesStart, WorkspacesStep, PTL DEF BackOfficeSpec
  <1> QED
    BY <1>2 DEF SuspensionHolds, Workspaces!SuspensionHolds, Held

(* The payroll.  While no two requests closed the salaries of a member at once, one of them is    *)
(* open at most, and none of a member who was let go; so a payslip of a run that begins later is  *)
(* of a member with whom that happened.                                                           *)

StaffRows == [status: {"active", "on_leave", "terminated"}, leftUnpaid: BOOLEAN, crossed: BOOLEAN]
SalaryRows == [pay: Pays, open: BOOLEAN]
Payslips == [staff: Staff, net: Pays, late: BOOLEAN]
PayrollRuns == [status: {"draft", "approved", "paid"}, slips: SUBSET Payslips]
RequestsOfPay == [op: {"none", "salary", "terminate", "payroll"}, of: SUBSET Staff, read: Seq(SalaryRows),
                  todo: SUBSET Staff, slips: SUBSET Payslips]

PayTypes ==
    /\ staff \in [Staff -> StaffRows]
    /\ salaries \in [Staff -> Seq(SalaryRows)]
    /\ runs \in Seq(PayrollRuns)
    /\ payRequests \in [Requests -> RequestsOfPay]

OpenSalaries(s) == {i \in DOMAIN salaries[s] : salaries[s][i].open}

\* The salaries `rows' of somebody with the row `member'.
SalariesKept(member, rows) ==
    member.crossed \/ /\ member.leftUnpaid => \A i \in DOMAIN rows : ~rows[i].open
                      /\ \A i, j \in DOMAIN rows : rows[i].open /\ rows[j].open => i = j

OneSalary == \A s \in Staff : SalariesKept(staff[s], salaries[s])

LateOnes(slips) == {p.staff : p \in {slip \in slips : slip.late}}
CrossedStaff == {s \in Staff : staff[s].crossed}

LateWereCrossed ==
    /\ \A r \in Requests : LateOnes(payRequests[r].slips) \subseteq CrossedStaff
    /\ \A n \in DOMAIN runs : LateOnes(runs[n].slips) \subseteq CrossedStaff

PayInv == PayTypes /\ OneSalary /\ LateWereCrossed

LEMMA IdlePay == Salaries!Idle \in RequestsOfPay /\ LateOnes(Salaries!Idle.slips) = {}
  BY DEF Salaries!Idle, RequestsOfPay, LateOnes

LEMMA PayStart == BackOfficeInit => PayInv
  <1> SUFFICES ASSUME BackOfficeInit PROVE PayInv
    OBVIOUS
  <1>1. Salaries!Init
    BY DEF BackOfficeInit
  <1>2. PayTypes
    BY <1>1, IdlePay DEF Salaries!Init, PayTypes, StaffRows
  <1>3. OneSalary
    BY <1>1 DEF Salaries!Init, OneSalary, SalariesKept
  <1>4. LateWereCrossed
    BY <1>1, IdlePay DEF Salaries!Init, LateWereCrossed
  <1> QED
    BY <1>2, <1>3, <1>4 DEF PayInv

\* A step of one request that leaves the salaries and runs alone.
LEMMA OnePayRequest ==
    ASSUME PayInv, NEW r \in Requests, NEW q \in RequestsOfPay, LateOnes(q.slips) \subseteq CrossedStaff,
           payRequests' = [payRequests EXCEPT ![r] = q],
           UNCHANGED <<staff, salaries, runs>>
    PROVE  PayInv'
  <1>1. PayTypes'
    BY DEF PayInv, PayTypes
  <1>2. OneSalary'
    BY DEF PayInv, OneSalary
  <1>3. CrossedStaff' = CrossedStaff
    BY DEF CrossedStaff
  <1>4. \A s \in Requests : payRequests'[s] = payRequests[s] \/ payRequests'[s] = q
    BY DEF PayInv, PayTypes
  <1>5. LateWereCrossed'
    BY <1>3, <1>4 DEF PayInv, LateWereCrossed
  <1> QED
    BY <1>1, <1>2, <1>5 DEF PayInv

LEMMA ClosedRows ==
    ASSUME PayTypes, NEW s \in Staff, NEW read
    PROVE  /\ Salaries!Closed(s, read) \in Seq(SalaryRows)
           /\ read = salaries[s] => \A i \in DOMAIN Salaries!Closed(s, read) : ~Salaries!Closed(s, read)[i].open
  <1> DEFINE rows == salaries[s]
             closed == Salaries!Closed(s, read)
  <1>1. rows \in Seq(SalaryRows)
    BY DEF PayTypes
  <1>2. closed = [i \in DOMAIN rows |->
            IF i \in DOMAIN read /\ read[i].open THEN [rows[i] EXCEPT !.open = FALSE] ELSE rows[i]]
    BY DEF Salaries!Closed
  <1>3. \A i \in DOMAIN rows : rows[i] \in SalaryRows
    BY <1>1
  <1> HIDE DEF rows, closed
  <1>4. \A i \in DOMAIN rows : closed[i] \in SalaryRows
    BY <1>2, <1>3 DEF SalaryRows
  <1>5. closed \in Seq(SalaryRows)
    BY <1>1, <1>2, <1>4
  <1>6. read = rows => \A i \in DOMAIN closed : ~closed[i].open
    BY <1>2, <1>3 DEF SalaryRows
  <1> QED
    BY <1>5, <1>6 DEF rows, closed

\* Somebody's salaries are written: `member' and `rows' become those of s.
LEMMA SalariesWritten ==
    ASSUME PayInv, NEW r \in Requests, NEW s \in Staff,
           NEW member \in StaffRows, NEW rows \in Seq(SalaryRows),
           staff[s].crossed => member.crossed, SalariesKept(member, rows),
           staff' = [staff EXCEPT ![s] = member],
           salaries' = [salaries EXCEPT ![s] = rows],
           payRequests' = [payRequests EXCEPT ![r] = Salaries!Idle],
           UNCHANGED runs
    PROVE  PayInv'
  <1>1. PayTypes'
    BY IdlePay DEF PayInv, PayTypes
  <1>2. OneSalary'
    <2> SUFFICES ASSUME NEW t \in Staff PROVE SalariesKept(staff'[t], salaries'[t])
      BY DEF OneSalary, SalariesKept
    <2> QED
      BY DEF PayInv, PayTypes, OneSalary
  <1>3. CrossedStaff \subseteq CrossedStaff'
    BY DEF CrossedStaff, PayInv, PayTypes
  <1>4. \A t \in Requests : payRequests'[t] = payRequests[t] \/ payRequests'[t] = Salaries!Idle
    BY DEF PayInv, PayTypes
  <1>5. LateWereCrossed'
    BY <1>3, <1>4, IdlePay DEF PayInv, LateWereCrossed
  <1> QED
    BY <1>1, <1>2, <1>5 DEF PayInv

LEMMA LoadPay ==
    ASSUME PayInv, NEW r \in Requests, NEW s \in Staff, NEW op \in {"salary", "terminate"},
           Salaries!Load(r, op, s)
    PROVE  PayInv'
  <1> DEFINE idle == Salaries!Idle
             of == {s}
             read == salaries[s]
             q == [Salaries!Idle EXCEPT !.op = op, !.of = {s}, !.read = salaries[s]]
  <1>1. payRequests' = [payRequests EXCEPT ![r] = q] /\ UNCHANGED <<staff, salaries, runs>>
    BY DEF Salaries!Load
  <1>2. of \in SUBSET Staff /\ read \in Seq(SalaryRows)
    BY DEF PayInv, PayTypes
  <1>3. q = [[[idle EXCEPT !.op = op] EXCEPT !.of = of] EXCEPT !.read = read]
    OBVIOUS
  <1>4. idle \in RequestsOfPay /\ LateOnes(idle.slips) = {}
    BY IdlePay
  <1> HIDE DEF idle, of, read, q
  <1>5. q \in RequestsOfPay /\ q.slips = idle.slips
    BY <1>2, <1>3, <1>4 DEF RequestsOfPay
  <1> QED
    BY <1>1, <1>4, <1>5, OnePayRequest

LEMMA SalaryCommitPay ==
    ASSUME PayInv, NEW r \in Requests, NEW pay \in Pays, NEW open \in BOOLEAN,
           Salaries!SalaryCommit(r, pay, open)
    PROVE  PayInv'
  <1> DEFINE read == payRequests[r].read
  <1>1. PICK s \in payRequests[r].of :
            /\ salaries' = [salaries EXCEPT ![s] =
                               Append(Salaries!Closed(s, read), Salaries!SalaryStructure(pay, open))]
            /\ staff' = [staff EXCEPT ![s].leftUnpaid = FALSE, ![s].crossed = Salaries!Crossed(s, read)]
            /\ payRequests' = [payRequests EXCEPT ![r] = Salaries!Idle]
            /\ UNCHANGED runs
    BY DEF Salaries!SalaryCommit
  <1>2. s \in Staff
    BY DEF PayInv, PayTypes, RequestsOfPay
  <1> DEFINE closed == Salaries!Closed(s, read)
             salary == Salaries!SalaryStructure(pay, open)
             rows == Append(closed, salary)
             crossed == Salaries!Crossed(s, read)
             member == [staff[s] EXCEPT !.leftUnpaid = FALSE, !.crossed = crossed]
  <1>3. /\ closed \in Seq(SalaryRows)
        /\ read = salaries[s] => \A i \in DOMAIN closed : ~closed[i].open
    BY <1>2, ClosedRows DEF PayInv
  <1>4. staff[s] \in StaffRows
    BY <1>2 DEF PayInv, PayTypes
  <1>5. crossed \in BOOLEAN /\ (staff[s].crossed => crossed) /\ (~crossed => read = salaries[s])
    BY <1>4 DEF Salaries!Crossed, StaffRows
  <1>6. salary \in SalaryRows
    BY DEF Salaries!SalaryStructure, SalaryRows
  <1>7. staff' = [staff EXCEPT ![s] = member]
    BY <1>1, <1>2 DEF PayInv, PayTypes
  <1>8. salaries' = [salaries EXCEPT ![s] = rows]
    BY <1>1
  <1> HIDE DEF read, closed, salary, crossed
  <1>9. /\ member \in StaffRows /\ ~member.leftUnpaid
        /\ (staff[s].crossed => member.crossed) /\ (~member.crossed => ~crossed)
    BY <1>4, <1>5 DEF StaffRows
  <1>10. rows \in Seq(SalaryRows)
    BY <1>3, <1>6
  <1>11. ~crossed => \A i, j \in DOMAIN rows : rows[i].open /\ rows[j].open => i = j
    <2> SUFFICES ASSUME ~crossed, NEW i \in DOMAIN rows, NEW j \in DOMAIN rows,
                        rows[i].open, rows[j].open
                 PROVE  i = j
      OBVIOUS
    <2>1. \A k \in DOMAIN rows : k = Len(closed) + 1 \/ (k \in DOMAIN closed /\ rows[k] = closed[k])
      BY <1>3, <1>6
    <2>2. \A k \in DOMAIN closed : ~closed[k].open
      BY <1>3, <1>5
    <2> HIDE DEF rows
    <2>3. i = Len(closed) + 1 /\ j = Len(closed) + 1
      BY <2>1, <2>2
    <2> QED
      BY <2>3
  <1>12. SalariesKept(member, rows)
    BY <1>9, <1>11 DEF SalariesKept
  <1> HIDE DEF member, rows
  <1> QED
    BY <1>1, <1>2, <1>7, <1>8, <1>9, <1>10, <1>12, SalariesWritten

LEMMA TerminateCommitPay ==
    ASSUME PayInv, NEW r \in Requests, Salaries!TerminateCommit(r)
    PROVE  PayInv'
  <1> DEFINE read == payRequests[r].read
  <1>1. PICK s \in payRequests[r].of :
            /\ salaries' = [salaries EXCEPT ![s] = Salaries!Closed(s, read)]
            /\ staff' = [staff EXCEPT ![s] = [status |-> "terminated", leftUnpaid |-> TRUE,
                                              crossed |-> Salaries!Crossed(s, read)]]
            /\ payRequests' = [payRequests EXCEPT ![r] = Salaries!Idle]
            /\ UNCHANGED runs
    BY DEF Salaries!TerminateCommit
  <1>2. s \in Staff
    BY DEF PayInv, PayTypes, RequestsOfPay
  <1> DEFINE rows == Salaries!Closed(s, read)
             crossed == Salaries!Crossed(s, read)
             member == [status |-> "terminated", leftUnpaid |-> TRUE, crossed |-> crossed]
  <1>3. /\ rows \in Seq(SalaryRows)
        /\ read = salaries[s] => \A i \in DOMAIN rows : ~rows[i].open
    BY <1>2, ClosedRows DEF PayInv
  <1>4. staff[s] \in StaffRows
    BY <1>2 DEF PayInv, PayTypes
  <1>5. crossed \in BOOLEAN /\ (staff[s].crossed => crossed) /\ (~crossed => read = salaries[s])
    BY <1>4 DEF Salaries!Crossed, StaffRows
  <1> HIDE DEF read, rows, crossed
  <1>6. /\ member \in StaffRows
        /\ (staff[s].crossed => member.crossed) /\ (~member.crossed => ~crossed)
    BY <1>5 DEF StaffRows
  <1>7. SalariesKept(member, rows)
    BY <1>3, <1>5, <1>6 DEF SalariesKept
  <1>8. salaries' = [salaries EXCEPT ![s] = rows] /\ staff' = [staff EXCEPT ![s] = member]
    BY <1>1 DEF rows, crossed
  <1> HIDE DEF member
  <1> QED
    BY <1>1, <1>2, <1>3, <1>6, <1>7, <1>8, SalariesWritten

LEMMA StaffEditPay ==
    ASSUME PayInv, NEW s \in Staff, NEW status \in {"active", "on_leave"}, Salaries!StaffEdit(s, status)
    PROVE  PayInv'
  <1> DEFINE member == [staff[s] EXCEPT !.status = status]
  <1>1. staff' = [staff EXCEPT ![s] = member] /\ UNCHANGED <<salaries, runs, payRequests>>
    BY DEF Salaries!StaffEdit
  <1>2. staff[s] \in StaffRows
    BY DEF PayInv, PayTypes
  <1>3. /\ member \in StaffRows
        /\ member.leftUnpaid = staff[s].leftUnpaid /\ member.crossed = staff[s].crossed
    BY <1>2 DEF StaffRows
  <1> HIDE DEF member
  <1>4. PayTypes'
    BY <1>1, <1>3 DEF PayInv, PayTypes
  <1>5. \A t \in Staff : staff'[t].leftUnpaid = staff[t].leftUnpaid /\ staff'[t].crossed = staff[t].crossed
    BY <1>1, <1>3 DEF PayInv, PayTypes
  <1>6. OneSalary'
    BY <1>1, <1>5 DEF PayInv, OneSalary, SalariesKept
  <1>7. CrossedStaff' = CrossedStaff
    BY <1>5 DEF CrossedStaff
  <1>8. LateWereCrossed'
    BY <1>1, <1>7 DEF PayInv, LateWereCrossed
  <1> QED
    BY <1>4, <1>6, <1>8 DEF PayInv

LEMMA PayrollBeginPay ==
    ASSUME PayInv, NEW r \in Requests, Salaries!PayrollBegin(r)
    PROVE  PayInv'
  <1> DEFINE idle == Salaries!Idle
             left == {s \in Staff : staff[s].leftUnpaid}
             active == {s \in Staff : staff[s].status = "active"}
             q == [Salaries!Idle EXCEPT !.op = "payroll", !.of = left, !.todo = active]
  <1>1. payRequests' = [payRequests EXCEPT ![r] = q] /\ UNCHANGED <<staff, salaries, runs>>
    BY DEF Salaries!PayrollBegin
  <1>2. left \in SUBSET Staff /\ active \in SUBSET Staff
    OBVIOUS
  <1>3. q = [[[idle EXCEPT !.op = "payroll"] EXCEPT !.of = left] EXCEPT !.todo = active]
    OBVIOUS
  <1>4. idle \in RequestsOfPay /\ LateOnes(idle.slips) = {}
    BY IdlePay
  <1> HIDE DEF idle, left, active, q
  <1>5. q \in RequestsOfPay /\ q.slips = idle.slips
    BY <1>2, <1>3, <1>4 DEF RequestsOfPay
  <1> QED
    BY <1>1, <1>4, <1>5, OnePayRequest

LEMMA PayslipPay ==
    ASSUME PayInv, NEW r \in Requests, NEW s \in Staff, Salaries!PayslipOf(r, s)
    PROVE  PayInv'
  <1> DEFINE old == payRequests[r]
             todo == old.todo \ {s}
             bare == [old EXCEPT !.todo = todo]
  <1>1. old \in RequestsOfPay /\ todo \in SUBSET Staff /\ LateOnes(old.slips) \subseteq CrossedStaff
    BY DEF PayInv, PayTypes, LateWereCrossed, RequestsOfPay
  <1>2. UNCHANGED <<staff, salaries, runs>>
    BY DEF Salaries!PayslipOf
  <1>3. CASE payRequests' = [payRequests EXCEPT ![r] = bare]
    <2> HIDE DEF old, todo
    <2>1. bare \in RequestsOfPay /\ bare.slips = old.slips
      BY <1>1 DEF RequestsOfPay
    <2> HIDE DEF bare
    <2> QED
      BY <1>1, <1>2, <1>3, <2>1, OnePayRequest
  <1>4. ASSUME NEW salary \in Salaries!current_salary(s),
               payRequests' = [payRequests EXCEPT
                  ![r].todo = @ \ {s},
                  ![r].slips = @ \union {[staff |-> s, net |-> salary.pay,
                                          late |-> s \in payRequests[r].of /\ staff[s].leftUnpaid]}]
        PROVE  PayInv'
    <2> DEFINE late == s \in payRequests[r].of /\ staff[s].leftUnpaid
               slip == [staff |-> s, net |-> salary.pay, late |-> late]
               slips == old.slips \union {slip}
               q == [bare EXCEPT !.slips = slips]
    <2>1. payRequests' = [payRequests EXCEPT ![r] = q]
      BY <1>4 DEF PayInv, PayTypes, RequestsOfPay
    <2>2. PICK i \in DOMAIN salaries[s] : salary = salaries[s][i] /\ salaries[s][i].open
      BY DEF Salaries!current_salary
    <2>3. salary \in SalaryRows /\ staff[s] \in StaffRows
      BY <2>2 DEF PayInv, PayTypes
    <2>4. late \in BOOLEAN /\ (late => s \in CrossedStaff)
      BY <2>2, <2>3 DEF PayInv, OneSalary, SalariesKept, CrossedStaff, StaffRows
    <2> HIDE DEF late
    <2>5. slip \in Payslips /\ slip.staff = s /\ slip.late = late
      BY <2>3, <2>4 DEF Payslips, SalaryRows
    <2> HIDE DEF slip
    <2>6. slips \in SUBSET Payslips
      BY <1>1, <2>5 DEF RequestsOfPay
    <2>7. LateOnes(slips) \subseteq CrossedStaff
      BY <1>1, <2>4, <2>5 DEF LateOnes
    <2> HIDE DEF slips, old, todo
    <2>8. q \in RequestsOfPay /\ q.slips = slips
      BY <1>1, <2>6 DEF RequestsOfPay
    <2> HIDE DEF q
    <2> QED
      BY <1>2, <2>1, <2>7, <2>8, OnePayRequest
  <1> QED
    BY <1>3, <1>4 DEF Salaries!PayslipOf

LEMMA PayrollCommitPay ==
    ASSUME PayInv, NEW r \in Requests, Salaries!PayrollCommit(r)
    PROVE  PayInv'
  <1> DEFINE slips == payRequests[r].slips
             run == [status |-> "draft", slips |-> slips]
  <1>1. /\ runs' = Append(runs, run)
        /\ payRequests' = [payRequests EXCEPT ![r] = Salaries!Idle]
        /\ UNCHANGED <<staff, salaries>>
    BY DEF Salaries!PayrollCommit
  <1>2. slips \in SUBSET Payslips /\ LateOnes(slips) \subseteq CrossedStaff
    BY DEF PayInv, PayTypes, LateWereCrossed, RequestsOfPay
  <1> HIDE DEF slips
  <1>3. run \in PayrollRuns /\ run.slips = slips
    BY <1>2 DEF PayrollRuns
  <1> HIDE DEF run
  <1>4. runs \in Seq(PayrollRuns)
    BY DEF PayInv, PayTypes
  <1>5. PayTypes'
    BY <1>1, <1>3, IdlePay DEF PayInv, PayTypes
  <1>6. OneSalary'
    BY <1>1 DEF PayInv, OneSalary
  <1>7. CrossedStaff' = CrossedStaff
    BY <1>1 DEF CrossedStaff
  <1>8. \A t \in Requests : payRequests'[t] = payRequests[t] \/ payRequests'[t] = Salaries!Idle
    BY <1>1 DEF PayInv, PayTypes
  <1>9. \A n \in DOMAIN runs' : (n \in DOMAIN runs /\ runs'[n] = runs[n]) \/ runs'[n] = run
    BY <1>1, <1>3, <1>4
  <1>10. LateWereCrossed'
    BY <1>2, <1>3, <1>7, <1>8, <1>9, IdlePay DEF PayInv, LateWereCrossed
  <1> QED
    BY <1>5, <1>6, <1>10 DEF PayInv

LEMMA RunMarkedPay ==
    ASSUME PayInv, NEW n \in DOMAIN runs, Salaries!PayrollApprove(n) \/ Salaries!PayrollMarkPaid(n)
    PROVE  PayInv'
  <1>1. UNCHANGED <<staff, salaries, payRequests>>
    BY DEF Salaries!PayrollApprove, Salaries!PayrollMarkPaid
  <1>2. PICK status \in {"approved", "paid"} : runs' = [runs EXCEPT ![n].status = status]
    BY DEF Salaries!PayrollApprove, Salaries!PayrollMarkPaid
  <1> DEFINE run == [runs[n] EXCEPT !.status = status]
  <1>3. runs' = [runs EXCEPT ![n] = run]
    BY <1>2
  <1>4. runs \in Seq(PayrollRuns) /\ runs[n] \in PayrollRuns
    BY DEF PayInv, PayTypes
  <1>5. run \in PayrollRuns /\ run.slips = runs[n].slips
    BY <1>4 DEF PayrollRuns
  <1> HIDE DEF run
  <1>6. PayTypes'
    BY <1>1, <1>3, <1>4, <1>5 DEF PayInv, PayTypes
  <1>7. OneSalary'
    BY <1>1 DEF PayInv, OneSalary
  <1>8. CrossedStaff' = CrossedStaff
    BY <1>1 DEF CrossedStaff
  <1>9. DOMAIN runs' = DOMAIN runs /\ \A m \in DOMAIN runs : runs'[m].slips = runs[m].slips
    BY <1>3, <1>4, <1>5
  <1>10. LateWereCrossed'
    BY <1>1, <1>8, <1>9 DEF PayInv, LateWereCrossed
  <1> QED
    BY <1>6, <1>7, <1>10 DEF PayInv

LEMMA PayStep == PayInv /\ [BackOfficeNext]_backOfficeVars => PayInv'
  <1> SUFFICES ASSUME PayInv, [BackOfficeNext]_backOfficeVars PROVE PayInv'
    OBVIOUS
  <1>1. Salaries!Next \/ UNCHANGED payVars
    BY DEF BackOfficeNext, backOfficeVars, payVars
  <1>2. CASE UNCHANGED payVars
    BY <1>2 DEF payVars, PayInv, PayTypes, OneSalary, LateWereCrossed, CrossedStaff
  <1>3. CASE Salaries!Next
    <2>1. ASSUME NEW r \in Requests, NEW s \in Staff, Salaries!SalaryLoad(r, s) \/ Salaries!TerminateLoad(r, s)
          PROVE  PayInv'
      BY <2>1, LoadPay DEF Salaries!SalaryLoad, Salaries!TerminateLoad
    <2> QED
      BY <1>3, <2>1, SalaryCommitPay, TerminateCommitPay, StaffEditPay, PayrollBeginPay, PayslipPay,
         PayrollCommitPay, RunMarkedPay DEF Salaries!Next
  <1> QED
    BY <1>1, <1>2, <1>3

LEMMA PaySound == PayInv => LeaversAreNotPaid
  <1> SUFFICES ASSUME PayInv PROVE LeaversAreNotPaid
    OBVIOUS
  <1>1. Salaries!TypeOK
    <2>1. \A s \in Staff : \A i \in DOMAIN salaries[s] : salaries[s][i] \in SalaryRows
      BY DEF PayInv, PayTypes
    <2>2. \A n \in DOMAIN runs : runs[n].status \in {"draft", "approved", "paid"}
      <3>1. \A n \in DOMAIN runs : runs[n] \in PayrollRuns
        BY DEF PayInv, PayTypes
      <3> QED
        BY <3>1 DEF PayrollRuns
    <2> QED
      BY <2>1, <2>2 DEF Salaries!TypeOK, PayInv, PayTypes, StaffRows, SalaryRows
  <1>2. ASSUME NEW s \in Staff, ~staff[s].crossed
        PROVE  Salaries!Cardinality(OpenSalaries(s)) <= IF staff[s].leftUnpaid THEN 0 ELSE 1
    <2>1. /\ staff[s].leftUnpaid => OpenSalaries(s) = {}
          /\ OpenSalaries(s) = {} \/ \E i : OpenSalaries(s) = {i}
      BY <1>2 DEF PayInv, OneSalary, SalariesKept, OpenSalaries
    <2>2. \A i : Cardinality({i}) = 1
      BY FS_Singleton
    <2>3. Salaries!Cardinality(OpenSalaries(s)) = Cardinality(OpenSalaries(s))
      BY DEF Salaries!Cardinality, Cardinality
    <2>4. OpenSalaries(s) = {} => Cardinality(OpenSalaries(s)) = 0
      BY FS_EmptySet, Zenon
    <2>5. Cardinality(OpenSalaries(s)) \in {0, 1}
      BY <2>1, <2>2, <2>4, Zenon
    <2> QED
      BY <2>1, <2>3, <2>4, <2>5
  <1>3. ASSUME NEW s \in Staff, ~staff[s].crossed, NEW n \in DOMAIN runs, NEW p \in runs[n].slips,
               p.staff = s
        PROVE  ~p.late
    BY <1>3 DEF PayInv, LateWereCrossed, LateOnes, CrossedStaff
  <1> QED
    BY <1>1, <1>2, <1>3 DEF LeaversAreNotPaid, Salaries!LeaversAreNotPaid, OpenSalaries

\* A member who was let go is in no payroll run that begins later, until given a salary again, unless
\* two requests closed the member's salaries at once (staff_terminate, salary_new, payroll_new).
THEOREM LeaversStayUnpaid == BackOfficeSpec => []LeaversAreNotPaid
  <1> QED
    BY PayStart, PayStep, PaySound, PTL DEF BackOfficeSpec

(* The board of leads.  On an operator's board one request at a time has flushed what it writes; until  *)
(* it commits there is room, by the allowance it was counted with, for the lead it adds, and that      *)
(* allowance is no more than the plan that is scheduled.  What a scheduled plan bounds for certain are *)
(* the open leads that nobody moved who had loaded them in another stage.                              *)

LeadRows == [there: BOOLEAN, website: BOOLEAN, stage: Stages, closed: BOOLEAN, logged: Stages,
             crossed: BOOLEAN, approved: BOOLEAN]
RequestsOfLeads ==
    [op: {"none", "new", "move", "edit", "approve"}, lead: Nat, copy: Stages, to: Stages, flushed: BOOLEAN,
     counted: LeadLimits \union {NoLimit}]
Terms == [limit: LeadLimits \union {NoLimit}, paid: BOOLEAN, scheduled: LeadLimits \union {NoLimit},
          invoiced: SUBSET LeadLimits]

RequestOfLeads(q) ==
    /\ q \in RequestsOfLeads
    /\ q.op \in {"move", "edit", "approve"} => q.lead \in Board!Ids
    /\ q.op = "none" => q = Board!Idle

BoardTypes ==
    /\ scope \in {"operator", "platform"} /\ terms \in Terms
    /\ leads \in Seq(LeadRows)
    /\ leadRequests = [r \in Requests |-> leadRequests[r]]
    /\ \A r \in Requests : RequestOfLeads(leadRequests[r])

HistoryOf(lead) ==
    /\ lead.approved \/ lead.logged = lead.stage
    /\ lead.crossed \/ (lead.closed <=> lead.stage \in Board!CLOSED)

OneFlushed ==
    scope = "operator" =>
        \A r, q \in Requests : leadRequests[r].flushed /\ leadRequests[q].flushed => r = q

IsOpen(lead) == lead.there /\ Board!ManualOpen(lead.website, lead.stage)
CountsFor(lead) == IsOpen(lead) /\ ~lead.crossed
Counted == {l \in Board!Ids : CountsFor(leads[l])}
Open == Board!open_manual_leads
Scheduled == scope = "operator" /\ terms.scheduled # NoLimit

\* A request that adds to the open leads, as far as it can tell.
Gains(q) ==
    \/ q.op = "new"
    \/ /\ Board!ManualOpen(leads[q.lead].website, q.to)
       /\ ~Board!ManualOpen(leads[q.lead].website, q.copy)

\* A flushed request, of an operator's board, was counted.
WasCounted(q) ==
    /\ Scheduled => q.counted # NoLimit /\ q.counted <= terms.scheduled
    /\ Gains(q) /\ q.counted # NoLimit => Cardinality(Open) + 1 <= q.counted

RoomLeft ==
    /\ Scheduled => Cardinality(Counted) <= terms.scheduled
    /\ scope = "operator" =>
           \A r \in Requests : leadRequests[r].flushed => WasCounted(leadRequests[r])

BoardInv ==
    BoardTypes /\ (\A l \in Board!Ids : HistoryOf(leads[l])) /\ OneFlushed /\ RoomLeft

LEMMA IdleLead == RequestOfLeads(Board!Idle) /\ ~Board!Idle.flushed /\ Board!Idle.op = "none"
  BY StagesOfLeads DEF Board!Idle, RequestOfLeads, RequestsOfLeads

LEMMA LeadRow ==
    ASSUME BoardTypes, NEW l \in Board!Ids
    PROVE  leads[l] \in LeadRows
  BY DEF BoardTypes, Board!Ids

LEMMA AllowanceIsANumber ==
    ASSUME terms \in Terms
    PROVE  /\ Board!Allowance \in LeadLimits \union {NoLimit}
           /\ Board!Allowance # NoLimit => Board!Allowance \in Nat
           /\ terms.scheduled # NoLimit => /\ Board!Allowance # NoLimit
                                           /\ Board!Allowance <= terms.scheduled
                                           /\ terms.scheduled \in Nat
  <1>1. /\ terms.limit \in LeadLimits \union {NoLimit} /\ terms.scheduled \in LeadLimits \union {NoLimit}
        /\ terms.limit # NoLimit => terms.limit \in Nat
        /\ terms.scheduled # NoLimit => terms.scheduled \in Nat
    BY LimitsOfLeads DEF Terms
  <1>2. CASE terms.scheduled = NoLimit
    BY <1>1, <1>2 DEF Board!Allowance
  <1>3. CASE terms.scheduled # NoLimit /\ (terms.limit = NoLimit \/ terms.scheduled < terms.limit)
    <2>1. Board!Allowance = terms.scheduled
      BY <1>3 DEF Board!Allowance
    <2> QED
      BY <1>1, <1>3, <2>1
  <1>4. CASE terms.scheduled # NoLimit /\ ~(terms.limit = NoLimit \/ terms.scheduled < terms.limit)
    <2>1. Board!Allowance = terms.limit
      BY <1>4 DEF Board!Allowance
    <2> QED
      BY <1>1, <1>4, <2>1
  <1> QED
    BY <1>2, <1>3, <1>4

LEMMA IdsFinite == ASSUME BoardTypes PROVE IsFiniteSet(Board!Ids)
  <1>1. Board!Ids = 1..Len(leads) /\ Len(leads) \in Nat
    BY DEF BoardTypes, Board!Ids
  <1> QED
    BY <1>1, FS_Interval

LEMMA CountedFinite ==
    ASSUME BoardTypes
    PROVE  IsFiniteSet(Counted) /\ Cardinality(Counted) \in Nat
  <1>1. Counted \subseteq Board!Ids
    BY DEF Counted
  <1>2. IsFiniteSet(Counted)
    BY <1>1, IdsFinite, FS_Subset
  <1> QED
    BY <1>2, FS_CardinalityType

LEMMA OpenFinite ==
    ASSUME BoardTypes
    PROVE  /\ IsFiniteSet(Open) /\ Cardinality(Open) \in Nat
           /\ Cardinality(Counted) <= Cardinality(Open)
           /\ Board!Cardinality(Open) = Cardinality(Open)
  <1>1. Counted \subseteq Open /\ Open \subseteq Board!Ids
    BY DEF Counted, CountsFor, IsOpen, Open, Board!open_manual_leads
  <1> HIDE DEF Open
  <1>2. IsFiniteSet(Open)
    BY <1>1, IdsFinite, FS_Subset
  <1>3. Cardinality(Counted) <= Cardinality(Open) /\ Cardinality(Open) \in Nat
    BY <1>1, <1>2, FS_Subset, FS_CardinalityType
  <1>4. Board!Cardinality(Open) = Cardinality(Open)
    BY DEF Board!Cardinality, Cardinality
  <1> QED
    BY <1>2, <1>3, <1>4

\* One more at most.
LEMMA OneMore ==
    ASSUME NEW S, IsFiniteSet(S), NEW T
    PROVE  /\ T \subseteq S => Cardinality(T) \in Nat /\ Cardinality(T) <= Cardinality(S)
           /\ \A l : T \subseteq S \union {l} =>
                  Cardinality(T) \in Nat /\ Cardinality(T) <= Cardinality(S) + 1
  <1>1. Cardinality(S) \in Nat
    BY FS_CardinalityType
  <1>2. T \subseteq S => Cardinality(T) \in Nat /\ Cardinality(T) <= Cardinality(S)
    BY FS_Subset, FS_CardinalityType
  <1>3. ASSUME NEW l, T \subseteq S \union {l}
        PROVE  Cardinality(T) \in Nat /\ Cardinality(T) <= Cardinality(S) + 1
    <2>1. IsFiniteSet(S \union {l}) /\ Cardinality(S \union {l}) <= Cardinality(S) + 1
      BY <1>1, FS_AddElement
    <2>2. Cardinality(T) <= Cardinality(S \union {l}) /\ Cardinality(S \union {l}) \in Nat
      BY <1>3, <2>1, FS_Subset, FS_CardinalityType
    <2>3. Cardinality(T) \in Nat
      BY <1>3, <2>1, FS_Subset, FS_CardinalityType
    <2> QED
      BY <1>1, <2>1, <2>2, <2>3
  <1> QED
    BY <1>2, <1>3

LEMMA CountedGrows ==
    ASSUME BoardTypes
    PROVE  /\ Counted' \subseteq Counted =>
                  Cardinality(Counted)' \in Nat /\ Cardinality(Counted)' <= Cardinality(Counted)
           /\ \A l : Counted' \subseteq Counted \union {l} =>
                  Cardinality(Counted)' \in Nat /\ Cardinality(Counted)' <= Cardinality(Counted) + 1
  <1>1. IsFiniteSet(Counted)
    BY CountedFinite
  <1>2. Cardinality(Counted)' = Cardinality(Counted')
    BY DEF Cardinality
  <1> QED
    BY <1>1, <1>2, OneMore

LEMMA OpenGrows ==
    ASSUME BoardTypes
    PROVE  /\ Open' \subseteq Open =>
                  Cardinality(Open)' \in Nat /\ Cardinality(Open)' <= Cardinality(Open)
           /\ \A l : Open' \subseteq Open \union {l} =>
                  Cardinality(Open)' \in Nat /\ Cardinality(Open)' <= Cardinality(Open) + 1
           /\ Board!Cardinality(Open') = Cardinality(Open)'
  <1>1. IsFiniteSet(Open)
    BY OpenFinite
  <1>2. Cardinality(Open)' = Cardinality(Open') /\ Board!Cardinality(Open') = Cardinality(Open')
    BY DEF Cardinality, Board!Cardinality
  <1> QED
    BY <1>1, <1>2, OneMore

\* enforce_quotas: when it allows a request that adds a lead, there is room.
LEMMA QuotaLeavesRoom ==
    ASSUME BoardTypes, scope = "operator", NEW r \in Requests, Gains(leadRequests[r]),
           Board!QuotaAllows(r), Board!Allowance # NoLimit
    PROVE  Cardinality(Open) + 1 <= Board!Allowance
  <1>1. Board!Increment(r) = 1
    BY DEF Gains, Board!Increment, Board!One
  <1>2. Board!Cardinality(Open) + 1 <= Board!Allowance
    BY <1>1 DEF Board!QuotaAllows, Open
  <1> QED
    BY <1>2, OpenFinite

LEMMA BoardStart == BackOfficeInit => BoardInv
  <1> SUFFICES ASSUME BackOfficeInit PROVE BoardInv
    OBVIOUS
  <1>1. Board!Init
    BY DEF BackOfficeInit
  <1>2. leads = <<>> /\ Board!Ids = {} /\ Counted = {}
    BY <1>1 DEF Board!Init, Board!Ids, Counted
  <1>3. \A r \in Requests : leadRequests[r] = Board!Idle
    BY <1>1 DEF Board!Init
  <1>4. terms \in Terms /\ terms.scheduled = NoLimit /\ scope \in {"operator", "platform"}
    BY <1>1 DEF Board!Init, Terms, Board!Plans
  <1>5. BoardTypes
    BY <1>1, <1>2, <1>3, <1>4, IdleLead DEF Board!Init, BoardTypes
  <1>6. RoomLeft
    BY <1>3, <1>4, IdleLead DEF RoomLeft, Scheduled
  <1> QED
    BY <1>2, <1>3, <1>5, <1>6, IdleLead DEF BoardInv, OneFlushed

LEMMA OneLeadRequest ==
    ASSUME BoardInv, NEW r \in Requests, NEW q, RequestOfLeads(q),
           leadRequests' = [leadRequests EXCEPT ![r] = q], UNCHANGED <<scope, leads, terms>>,
           q.flushed /\ scope = "operator" =>
               (\A s \in Requests \ {r} : ~leadRequests[s].flushed) /\ WasCounted(q)
    PROVE  BoardInv'
  <1>1. /\ Board!Ids' = Board!Ids /\ Counted' = Counted /\ Open' = Open
        /\ Scheduled' <=> Scheduled
    BY DEF Board!Ids, Counted, Open, Board!open_manual_leads, Scheduled
  <1>2. \A s \in Requests : leadRequests'[s] = IF s = r THEN q ELSE leadRequests[s]
    BY DEF BoardInv, BoardTypes
  <1>3. leadRequests' = [s \in Requests |-> leadRequests'[s]]
    BY DEF BoardInv, BoardTypes
  <1>4. \A s \in Requests : RequestOfLeads(leadRequests[s])'
    <2> SUFFICES ASSUME NEW s \in Requests PROVE RequestOfLeads(leadRequests[s])'
      OBVIOUS
    <2>1. RequestOfLeads(leadRequests'[s])
      BY <1>2 DEF BoardInv, BoardTypes
    <2> QED
      BY <1>1, <2>1 DEF RequestOfLeads
  <1>5. BoardTypes'
    BY <1>3, <1>4 DEF BoardInv, BoardTypes
  <1>6. (\A l \in Board!Ids : HistoryOf(leads[l]))'
    BY <1>1 DEF BoardInv
  <1>7. OneFlushed'
    BY <1>2 DEF BoardInv, OneFlushed
  <1>8. Cardinality(Counted)' = Cardinality(Counted) /\ Cardinality(Open)' = Cardinality(Open)
    BY <1>1
  <1>9. ASSUME NEW s \in Requests
        PROVE  WasCounted(leadRequests[s])' <=> WasCounted(IF s = r THEN q ELSE leadRequests[s])
    <2>1. Gains(leadRequests[s])' <=> Gains(IF s = r THEN q ELSE leadRequests[s])
      BY <1>2 DEF Gains
    <2> QED
      BY <1>1, <1>2, <1>8, <2>1 DEF WasCounted
  <1>10. RoomLeft'
    BY <1>1, <1>2, <1>8, <1>9 DEF BoardInv, RoomLeft
  <1> QED
    BY <1>5, <1>6, <1>7, <1>10 DEF BoardInv

LEMMA LoadBoard ==
    ASSUME BoardInv, NEW r \in Requests, NEW op \in {"move", "edit", "approve"}, NEW l, NEW to \in Stages,
           Board!Load(r, op, l, to)
    PROVE  BoardInv'
  <1> DEFINE copy == leads[l].stage
             q == [Board!Idle EXCEPT !.op = op, !.lead = l, !.copy = copy, !.to = to]
  <1>1. /\ leadRequests' = [leadRequests EXCEPT ![r] = q] /\ UNCHANGED <<scope, leads, terms>>
        /\ l \in Board!Ids
    BY DEF Board!Load
  <1>2. l \in Nat /\ copy \in Stages
    BY <1>1, LeadRow DEF BoardInv, BoardTypes, Board!Ids, LeadRows
  <1> HIDE DEF copy
  <1>3. Board!Idle \in RequestsOfLeads /\ ~Board!Idle.flushed
    BY IdleLead DEF RequestOfLeads
  <1>4. q \in RequestsOfLeads /\ ~q.flushed /\ q.op = op /\ q.lead = l
    BY <1>2, <1>3 DEF RequestsOfLeads
  <1>5. RequestOfLeads(q)
    BY <1>1, <1>4 DEF RequestOfLeads
  <1> HIDE DEF q
  <1> QED
    BY <1>1, <1>4, <1>5, OneLeadRequest

LEMMA LoadsBoard ==
    ASSUME BoardInv, NEW r \in Requests, NEW l \in Board!Ids,
           \/ \E to \in Stages : Board!LeadMove(r, l, to)
           \/ Board!LeadEdit(r, l) \/ Board!LeadNote(r, l) \/ Board!Approve(r, l)
    PROVE  BoardInv'
  <1>1. leads[l].stage \in Stages /\ "won" \in Stages
    BY LeadRow, StagesOfLeads DEF BoardInv, LeadRows
  <1> QED
    BY <1>1, LoadBoard DEF Board!LeadMove, Board!LeadEdit, Board!LeadNote, Board!Approve

LEMMA LeadNewBoard ==
    ASSUME BoardInv, NEW r \in Requests, NEW to \in Stages, Board!LeadNew(r, to)
    PROVE  BoardInv'
  <1> DEFINE q == [Board!Idle EXCEPT !.op = "new", !.to = to]
  <1>1. leadRequests' = [leadRequests EXCEPT ![r] = q] /\ UNCHANGED <<scope, leads, terms>>
    BY DEF Board!LeadNew
  <1>2. Board!Idle \in RequestsOfLeads /\ ~Board!Idle.flushed
    BY IdleLead DEF RequestOfLeads
  <1>3. q \in RequestsOfLeads /\ q.op = "new" /\ ~q.flushed
    BY <1>2 DEF RequestsOfLeads
  <1>4. RequestOfLeads(q)
    BY <1>3 DEF RequestOfLeads
  <1> HIDE DEF q
  <1> QED
    BY <1>1, <1>3, <1>4, OneLeadRequest

LEMMA FlushBoard ==
    ASSUME BoardInv, NEW r \in Requests, Board!Flush(r)
    PROVE  BoardInv'
  <1> DEFINE old == leadRequests[r]
             q == [old EXCEPT !.flushed = TRUE, !.counted = Board!Allowance]
  <1>1. /\ old.op # "none" /\ ~old.flushed /\ ~Board!Locked(r)
        /\ UNCHANGED <<scope, leads, terms>>
        /\ \/ leadRequests' = [leadRequests EXCEPT ![r] = Board!Idle]
           \/ leadRequests' = [leadRequests EXCEPT ![r] = q] /\ Board!QuotaAllows(r)
    BY DEF Board!Flush
  <1>2. CASE leadRequests' = [leadRequests EXCEPT ![r] = Board!Idle]
    BY <1>1, <1>2, IdleLead, OneLeadRequest
  <1>3. CASE leadRequests' = [leadRequests EXCEPT ![r] = q] /\ Board!QuotaAllows(r)
    <2>1. RequestOfLeads(old) /\ terms \in Terms
      BY DEF BoardInv, BoardTypes
    <2>2. Board!Allowance \in LeadLimits \union {NoLimit}
      BY <2>1, AllowanceIsANumber
    <2>3. /\ q \in RequestsOfLeads /\ q.op = old.op /\ q.lead = old.lead
          /\ q.copy = old.copy /\ q.to = old.to /\ q.counted = Board!Allowance
      BY <2>1, <2>2 DEF RequestOfLeads, RequestsOfLeads
    <2> HIDE DEF q
    <2>4. RequestOfLeads(q)
      BY <1>1, <2>1, <2>3 DEF RequestOfLeads
    <2>5. scope = "operator" => \A s \in Requests \ {r} : ~leadRequests[s].flushed
      BY <1>1 DEF Board!Locked
    <2>6. Gains(q) <=> Gains(old)
      BY <2>3 DEF Gains
    <2>7. ASSUME scope = "operator"
          PROVE  WasCounted(q)
      <3>1. Scheduled => q.counted # NoLimit /\ q.counted <= terms.scheduled
        BY <2>1, <2>3, AllowanceIsANumber DEF Scheduled
      <3>2. Gains(q) /\ q.counted # NoLimit => Cardinality(Open) + 1 <= q.counted
        BY <1>3, <2>3, <2>6, <2>7, QuotaLeavesRoom DEF BoardInv
      <3> QED
        BY <3>1, <3>2 DEF WasCounted
    <2> QED
      BY <1>1, <1>3, <2>4, <2>5, <2>7, OneLeadRequest
  <1> QED
    BY <1>1, <1>2, <1>3

LEMMA DieBoard ==
    ASSUME BoardInv, NEW r \in Requests, Board!Die(r)
    PROVE  BoardInv'
  BY IdleLead, OneLeadRequest DEF Board!Die

\* A step on the leads: what counts does not grow, or grows by the lead of the request that commits.
LEMMA LeadsChange ==
    ASSUME BoardInv, BoardTypes', (\A l \in Board!Ids : HistoryOf(leads[l]))', UNCHANGED <<scope, terms>>,
           \A s \in Requests : leadRequests'[s].flushed => leadRequests'[s] = leadRequests[s],
           scope = "operator" =>
               \/ /\ Counted' \subseteq Counted /\ Open' \subseteq Open
                  /\ \A s \in Requests : leadRequests'[s].flushed /\ Gains(leadRequests[s])'
                                             => Gains(leadRequests[s])
               \/ /\ \A s \in Requests : ~leadRequests'[s].flushed
                  /\ \/ Counted' \subseteq Counted
                     \/ \E r \in Requests, l \in Nat :
                           /\ leadRequests[r].flushed /\ Gains(leadRequests[r])
                           /\ Counted' \subseteq Counted \union {l}
    PROVE  BoardInv'
  <1>1. (Scheduled' <=> Scheduled) /\ terms'.scheduled = terms.scheduled
    BY DEF Scheduled
  <1>2. OneFlushed'
    BY DEF BoardInv, OneFlushed
  <1>3. Cardinality(Counted) \in Nat /\ Cardinality(Open) \in Nat
        /\ Cardinality(Counted) <= Cardinality(Open)
    BY CountedFinite, OpenFinite DEF BoardInv
  <1>4. ASSUME Scheduled
        PROVE  Cardinality(Counted)' <= terms.scheduled
    <2>1. scope = "operator" /\ terms.scheduled \in Nat /\ Cardinality(Counted) <= terms.scheduled
      BY <1>4, AllowanceIsANumber DEF Scheduled, BoardInv, BoardTypes, RoomLeft
    <2>2. CASE Counted' \subseteq Counted
      BY <1>3, <2>1, <2>2, CountedGrows DEF BoardInv
    <2>3. ASSUME NEW r \in Requests, NEW l \in Nat, leadRequests[r].flushed, Gains(leadRequests[r]),
                 Counted' \subseteq Counted \union {l}
          PROVE  Cardinality(Counted)' <= terms.scheduled
      <3>1. WasCounted(leadRequests[r])
        BY <2>1, <2>3 DEF BoardInv, RoomLeft
      <3>2. /\ leadRequests[r].counted \in Nat /\ leadRequests[r].counted <= terms.scheduled
            /\ Cardinality(Open) + 1 <= leadRequests[r].counted
        BY <1>4, <2>3, <3>1, LimitsOfLeads DEF WasCounted, BoardInv, BoardTypes, RequestOfLeads, RequestsOfLeads
      <3>3. Cardinality(Counted)' \in Nat /\ Cardinality(Counted)' <= Cardinality(Counted) + 1
        BY <2>3, CountedGrows DEF BoardInv
      <3> QED
        BY <1>3, <2>1, <3>2, <3>3
    <2> QED
      BY <2>1, <2>2, <2>3
  <1>5. ASSUME scope = "operator", NEW s \in Requests, leadRequests'[s].flushed
        PROVE  WasCounted(leadRequests[s])'
    <2> DEFINE q == leadRequests[s]
    <2>1. leadRequests'[s] = q /\ q.flushed /\ WasCounted(q)
      BY <1>5 DEF BoardInv, RoomLeft
    <2>2. Gains(leadRequests[s])' => Gains(q)
      BY <1>5
    <2>3. Cardinality(Open)' \in Nat /\ Cardinality(Open)' <= Cardinality(Open)
      BY <1>5, OpenGrows DEF BoardInv
    <2>4. q.counted # NoLimit => q.counted \in Nat
      BY LimitsOfLeads DEF BoardInv, BoardTypes, RequestOfLeads, RequestsOfLeads
    <2> HIDE DEF q
    <2>5. Gains(leadRequests[s])' /\ q.counted # NoLimit => Cardinality(Open)' + 1 <= q.counted
      BY <1>3, <2>1, <2>2, <2>3, <2>4 DEF WasCounted
    <2> QED
      BY <1>1, <2>1, <2>5 DEF WasCounted
  <1>6. RoomLeft'
    BY <1>1, <1>4, <1>5 DEF RoomLeft
  <1> QED
    BY <1>2, <1>6 DEF BoardInv

LEMMA NewLead ==
    ASSUME NEW website \in BOOLEAN
    PROVE  /\ Board!Lead(website) \in LeadRows /\ HistoryOf(Board!Lead(website))
           /\ Board!Lead(website).website = website
  BY StagesOfLeads DEF Board!Lead, LeadRows, HistoryOf, Board!CLOSED

LEMMA MovedLead ==
    ASSUME NEW lead \in LeadRows, NEW to \in Stages
    PROVE  LET moved == Board!move_stage(lead, to)
           IN /\ moved \in LeadRows /\ moved.stage = to /\ moved.logged = to
              /\ HistoryOf(moved)
              /\ moved.there = lead.there /\ moved.website = lead.website
              /\ moved.crossed = lead.crossed /\ moved.approved = lead.approved
  <1> DEFINE closed == to \in Board!CLOSED
             moved == Board!move_stage(lead, to)
  <1>1. moved = [lead EXCEPT !.stage = to, !.closed = closed, !.logged = to]
    BY DEF Board!move_stage
  <1>2. closed \in BOOLEAN
    OBVIOUS
  <1> HIDE DEF closed, moved
  <1>3. /\ moved \in LeadRows /\ moved.stage = to /\ moved.logged = to /\ moved.closed = closed
        /\ moved.there = lead.there /\ moved.website = lead.website
        /\ moved.crossed = lead.crossed /\ moved.approved = lead.approved
    BY <1>1, <1>2 DEF LeadRows
  <1>4. closed <=> to \in Board!CLOSED
    BY DEF closed
  <1>5. HistoryOf(moved)
    BY <1>3, <1>4 DEF HistoryOf
  <1> QED
    BY <1>3, <1>5 DEF moved

\* What a request writes of a lead as it is now: who has loaded another stage crosses it; and it counts
\* only if it did, or if the request adds it.
LEMMA WrittenLead ==
    ASSUME NEW lead \in LeadRows, HistoryOf(lead), NEW q \in RequestsOfLeads,
           q.op \in {"move", "edit", "approve"}
    PROVE  LET row == Board!Written(lead, q)
           IN /\ row \in LeadRows /\ HistoryOf(row) /\ row.website = lead.website
              /\ IsOpen(row) => IsOpen(lead) \/ Board!ManualOpen(lead.website, q.to)
              /\ CountsFor(row) => \/ CountsFor(lead)
                                   \/ /\ Board!ManualOpen(lead.website, q.to)
                                      /\ ~Board!ManualOpen(lead.website, q.copy)
  <1> DEFINE row == Board!Written(lead, q)
             crossed == lead.crossed \/ lead.stage # q.copy
             moved == [lead EXCEPT !.crossed = crossed]
  <1>1. q.copy \in Stages /\ q.to \in Stages /\ "won" \in Stages
    BY StagesOfLeads DEF RequestsOfLeads
  <1>2. crossed \in BOOLEAN
    BY DEF LeadRows
  <1> HIDE DEF crossed
  <1>3. /\ moved \in LeadRows /\ moved.crossed = crossed /\ moved.stage = lead.stage
        /\ moved.there = lead.there /\ moved.website = lead.website
        /\ moved.approved = lead.approved /\ moved.closed = lead.closed /\ moved.logged = lead.logged
    BY <1>2 DEF LeadRows
  <1>4. CASE q.op = "move"
    <2> DEFINE base == Board!move_stage(moved, q.to)
               closed == q.to \in Board!CLOSED \/ (q.copy \notin Board!CLOSED /\ lead.closed)
    <2>1. row = [base EXCEPT !.closed = closed]
      BY <1>4 DEF Board!Written, crossed
    <2>2. /\ base \in LeadRows /\ base.stage = q.to /\ base.logged = q.to
          /\ base.there = lead.there /\ base.website = lead.website
          /\ base.crossed = crossed /\ base.approved = lead.approved
      BY <1>1, <1>3, MovedLead
    <2>3. closed \in BOOLEAN
      OBVIOUS
    <2>4. ~crossed => (closed <=> q.to \in Board!CLOSED)
      BY DEF HistoryOf, crossed
    <2> HIDE DEF base, closed, moved, row
    <2>5. /\ row \in LeadRows /\ row.stage = q.to /\ row.logged = q.to /\ row.closed = closed
          /\ row.there = lead.there /\ row.website = lead.website
          /\ row.crossed = crossed /\ row.approved = lead.approved
      BY <2>1, <2>2, <2>3 DEF LeadRows
    <2>6. HistoryOf(row)
      BY <2>4, <2>5 DEF HistoryOf
    <2>7. /\ IsOpen(row) => Board!ManualOpen(lead.website, q.to)
          /\ CountsFor(row) => \/ CountsFor(lead)
                               \/ /\ Board!ManualOpen(lead.website, q.to)
                                  /\ ~Board!ManualOpen(lead.website, q.copy)
      BY <2>5 DEF CountsFor, IsOpen, Board!ManualOpen, crossed
    <2> QED
      BY <2>5, <2>6, <2>7 DEF row
  <1>5. CASE q.op = "approve"
    <2> DEFINE stage == IF q.copy = "won" THEN lead.stage ELSE "won"
    <2>1. row = [moved EXCEPT !.stage = stage, !.closed = TRUE, !.approved = TRUE]
      BY <1>3, <1>5 DEF Board!Written, crossed
    <2>2. stage \in Stages /\ (~crossed => stage = "won")
      BY <1>1 DEF LeadRows, crossed
    <2> HIDE DEF stage, moved, row
    <2>3. /\ row \in LeadRows /\ row.stage = stage /\ row.closed /\ row.approved
          /\ row.there = lead.there /\ row.website = lead.website /\ row.crossed = crossed
      BY <1>3, <2>1, <2>2 DEF LeadRows
    <2>4. HistoryOf(row)
      BY <2>2, <2>3 DEF HistoryOf, Board!CLOSED
    <2>5. ~CountsFor(row) /\ (IsOpen(row) => row.stage = lead.stage)
      BY <2>2, <2>3 DEF CountsFor, IsOpen, Board!ManualOpen, Board!CLOSED, stage
    <2>6. IsOpen(row) => IsOpen(lead)
      BY <2>3, <2>5 DEF IsOpen
    <2> QED
      BY <2>3, <2>4, <2>5, <2>6 DEF row
  <1>6. CASE q.op = "edit"
    BY <1>6 DEF Board!Written
  <1> QED
    BY <1>4, <1>5, <1>6

\* The leads are as many or more, and a request is over or none is.
LEMMA BoardTyped ==
    ASSUME BoardTypes, leads' \in Seq(LeadRows), Board!Ids \subseteq Board!Ids', UNCHANGED <<scope, terms>>,
           \/ leadRequests' = leadRequests
           \/ \E r \in Requests : leadRequests' = [leadRequests EXCEPT ![r] = Board!Idle]
    PROVE  /\ BoardTypes'
           /\ \A s \in Requests : leadRequests'[s].flushed => leadRequests'[s] = leadRequests[s]
  <1>1. \A s \in Requests : leadRequests'[s] = leadRequests[s] \/ leadRequests'[s] = Board!Idle
    BY DEF BoardTypes
  <1>2. leadRequests' = [s \in Requests |-> leadRequests'[s]]
    BY DEF BoardTypes
  <1>3. \A s \in Requests : RequestOfLeads(leadRequests[s])'
    <2> SUFFICES ASSUME NEW s \in Requests PROVE RequestOfLeads(leadRequests[s])'
      OBVIOUS
    <2>1. RequestOfLeads(leadRequests'[s])
      BY <1>1, IdleLead DEF BoardTypes
    <2> QED
      BY <2>1 DEF RequestOfLeads
  <1> QED
    BY <1>1, <1>2, <1>3, IdleLead DEF BoardTypes

LEMMA AppendedLead ==
    ASSUME BoardInv, NEW row \in LeadRows, HistoryOf(row), leads' = Append(leads, row)
    PROVE  /\ leads' \in Seq(LeadRows) /\ Board!Ids \subseteq Board!Ids'
           /\ (\A l \in Board!Ids : HistoryOf(leads[l]))'
           /\ Len(leads) + 1 \in Nat
           /\ Counted' \subseteq Counted \union {Len(leads) + 1}
           /\ ~CountsFor(row) => Counted' \subseteq Counted
           /\ Open' \subseteq Open \union {Len(leads) + 1}
           /\ ~IsOpen(row) => Open' \subseteq Open
           /\ \A l \in Board!Ids : leads'[l] = leads[l]
  <1>1. leads \in Seq(LeadRows)
    BY DEF BoardInv, BoardTypes
  <1>2. /\ leads' \in Seq(LeadRows) /\ Board!Ids' = Board!Ids \union {Len(leads) + 1}
        /\ Len(leads) + 1 \in Nat
        /\ \A l \in Board!Ids : leads'[l] = leads[l]
        /\ leads'[Len(leads) + 1] = row
    BY <1>1 DEF Board!Ids
  <1>3. \A l \in Board!Ids' : leads'[l] = row \/ (l \in Board!Ids /\ leads'[l] = leads[l])
    BY <1>2
  <1>4. \A l \in Board!Ids' : HistoryOf(leads'[l])
    BY <1>3 DEF BoardInv
  <1>5. (\A l \in Board!Ids : HistoryOf(leads[l]))'
    BY <1>4 DEF HistoryOf
  <1>6. /\ Counted' = {l \in Board!Ids' : CountsFor(leads'[l])}
        /\ Open' = {l \in Board!Ids' : IsOpen(leads'[l])}
    BY DEF Counted, CountsFor, IsOpen, Open, Board!open_manual_leads
  <1>7. Counted' \subseteq Counted \union {Len(leads) + 1}
    BY <1>2, <1>6 DEF Counted
  <1>8. ~CountsFor(row) => Counted' \subseteq Counted
    BY <1>3, <1>6 DEF Counted
  <1>9. Open = {l \in Board!Ids : IsOpen(leads[l])}
    BY DEF IsOpen, Open, Board!open_manual_leads
  <1>10. /\ Open' \subseteq Open \union {Len(leads) + 1}
         /\ ~IsOpen(row) => Open' \subseteq Open
    BY <1>2, <1>3, <1>6, <1>9
  <1> QED
    BY <1>2, <1>5, <1>7, <1>8, <1>10

LEMMA ReplacedLead ==
    ASSUME BoardInv, NEW l \in Board!Ids, NEW row \in LeadRows, HistoryOf(row),
           leads' = [leads EXCEPT ![l] = row]
    PROVE  /\ leads' \in Seq(LeadRows) /\ Board!Ids' = Board!Ids
           /\ (\A k \in Board!Ids : HistoryOf(leads[k]))'
           /\ Counted' \subseteq Counted \union {l}
           /\ (CountsFor(row) => CountsFor(leads[l])) => Counted' \subseteq Counted
           /\ Open' \subseteq Open \union {l}
           /\ (IsOpen(row) => IsOpen(leads[l])) => Open' \subseteq Open
           /\ \A k \in Board!Ids \ {l} : leads'[k] = leads[k]
  <1>1. leads \in Seq(LeadRows)
    BY DEF BoardInv, BoardTypes
  <1>2. /\ leads' \in Seq(LeadRows) /\ Board!Ids' = Board!Ids
        /\ leads'[l] = row /\ \A k \in Board!Ids \ {l} : leads'[k] = leads[k]
    BY <1>1 DEF Board!Ids
  <1>3. \A k \in Board!Ids : HistoryOf(leads'[k])
    BY <1>2 DEF BoardInv
  <1>4. (\A k \in Board!Ids : HistoryOf(leads[k]))'
    BY <1>2, <1>3 DEF HistoryOf
  <1>5. /\ Counted' = {k \in Board!Ids : CountsFor(leads'[k])}
        /\ Open' = {k \in Board!Ids : IsOpen(leads'[k])}
        /\ Open = {k \in Board!Ids : IsOpen(leads[k])}
    BY <1>2 DEF Counted, CountsFor, IsOpen, Open, Board!open_manual_leads
  <1>6. /\ Open' \subseteq Open \union {l}
        /\ (IsOpen(row) => IsOpen(leads[l])) => Open' \subseteq Open
    BY <1>2, <1>5
  <1> QED
    BY <1>2, <1>4, <1>5, <1>6 DEF Counted

LEMMA CommitBoard ==
    ASSUME BoardInv, NEW r \in Requests, Board!Commit(r)
    PROVE  BoardInv'
  <1> DEFINE q == leadRequests[r]
  <1>1. /\ q.flushed /\ UNCHANGED <<scope, terms>>
        /\ leadRequests' = [leadRequests EXCEPT ![r] = Board!Idle]
    BY DEF Board!Commit
  <1>2. RequestOfLeads(q) /\ q \in RequestsOfLeads /\ leads \in Seq(LeadRows)
    BY DEF BoardInv, BoardTypes, RequestOfLeads
  <1>3. ~leadRequests'[r].flushed
    BY <1>1, IdleLead DEF BoardInv, BoardTypes
  <1>4. q.op \in {"new", "move", "edit", "approve"}
    BY <1>1, <1>2, IdleLead DEF RequestOfLeads, RequestsOfLeads
  <1>5. ASSUME BoardTypes', (\A l \in Board!Ids : HistoryOf(leads[l]))',
               \/ Counted' \subseteq Counted
               \/ Gains(q) /\ \E l \in Nat : Counted' \subseteq Counted \union {l}
        PROVE  BoardInv'
    <2>1. \A s \in Requests : leadRequests'[s].flushed =>
              s # r /\ leadRequests'[s] = leadRequests[s] /\ leadRequests[s].flushed
      BY <1>1, <1>3, IdleLead DEF BoardInv, BoardTypes
    <2>2. scope = "operator" => \A s \in Requests : ~leadRequests'[s].flushed
      BY <1>1, <2>1 DEF BoardInv, OneFlushed
    <2>3. \/ Counted' \subseteq Counted
          \/ \E p \in Requests, l \in Nat :
                 /\ leadRequests[p].flushed /\ Gains(leadRequests[p])
                 /\ Counted' \subseteq Counted \union {l}
      BY <1>1, <1>5
    <2> QED
      BY <1>1, <1>5, <2>1, <2>2, <2>3, LeadsChange
  <1>6. CASE q.op = "new"
    <2> DEFINE row == IF q.to = "new" THEN Board!Lead(FALSE) ELSE Board!move_stage(Board!Lead(FALSE), q.to)
    <2>1. leads' = Append(leads, row)
      BY <1>6 DEF Board!Commit
    <2>2. row \in LeadRows /\ HistoryOf(row)
      <3>1. q.to \in Stages /\ Board!Lead(FALSE) \in LeadRows /\ HistoryOf(Board!Lead(FALSE))
        BY <1>2, NewLead DEF RequestsOfLeads
      <3> QED
        BY <3>1, MovedLead
    <2> HIDE DEF row
    <2>3. /\ leads' \in Seq(LeadRows) /\ Board!Ids \subseteq Board!Ids'
          /\ (\A l \in Board!Ids : HistoryOf(leads[l]))'
          /\ \E l \in Nat : Counted' \subseteq Counted \union {l}
      BY <2>1, <2>2, AppendedLead
    <2>4. BoardTypes'
      BY <1>1, <2>3, BoardTyped DEF BoardInv
    <2>5. Gains(q)
      BY <1>6 DEF Gains
    <2> QED
      BY <1>5, <2>3, <2>4, <2>5
  <1>7. CASE q.op # "new"
    <2> DEFINE l == q.lead
               row == Board!Written(leads[l], q)
    <2>1. leads' = [leads EXCEPT ![l] = row]
      BY <1>7 DEF Board!Commit
    <2>2. l \in Board!Ids /\ l \in Nat
      BY <1>2, <1>4, <1>7 DEF RequestOfLeads, RequestsOfLeads
    <2>3. leads[l] \in LeadRows /\ HistoryOf(leads[l])
      BY <2>2, LeadRow DEF BoardInv
    <2>4. /\ row \in LeadRows /\ HistoryOf(row)
          /\ CountsFor(row) => CountsFor(leads[l]) \/ Gains(q)
      BY <1>2, <1>4, <1>7, <2>3, WrittenLead DEF Gains
    <2> HIDE DEF row, l
    <2>5. /\ leads' \in Seq(LeadRows) /\ Board!Ids \subseteq Board!Ids'
          /\ (\A k \in Board!Ids : HistoryOf(leads[k]))'
          /\ Counted' \subseteq Counted \union {l}
          /\ (CountsFor(row) => CountsFor(leads[l])) => Counted' \subseteq Counted
      BY <2>1, <2>2, <2>4, ReplacedLead
    <2>6. BoardTypes'
      BY <1>1, <2>5, BoardTyped DEF BoardInv
    <2> QED
      BY <1>5, <2>2, <2>4, <2>5, <2>6
  <1> QED
    BY <1>6, <1>7

LEMMA LeadDeleteBoard ==
    ASSUME BoardInv, NEW l \in Board!Ids, Board!LeadDelete(l)
    PROVE  BoardInv'
  <1> DEFINE row == [Board!Lead(FALSE) EXCEPT !.there = FALSE]
  <1>1. /\ leads' = [leads EXCEPT ![l] = row] /\ UNCHANGED <<scope, leadRequests, terms>>
        /\ \A r \in Requests : leadRequests[r].flushed /\ leadRequests[r].op # "new" => leadRequests[r].lead # l
    BY DEF Board!LeadDelete
  <1>2. row \in LeadRows /\ HistoryOf(row) /\ ~CountsFor(row) /\ ~IsOpen(row)
    BY NewLead DEF LeadRows, HistoryOf, CountsFor, IsOpen
  <1> HIDE DEF row
  <1>3. /\ leads' \in Seq(LeadRows) /\ Board!Ids' = Board!Ids
        /\ (\A k \in Board!Ids : HistoryOf(leads[k]))'
        /\ Counted' \subseteq Counted /\ Open' \subseteq Open
        /\ \A k \in Board!Ids \ {l} : leads'[k] = leads[k]
    BY <1>1, <1>2, ReplacedLead
  <1>4. BoardTypes'
    BY <1>1, <1>3, BoardTyped DEF BoardInv
  <1>5. ASSUME NEW s \in Requests, leadRequests'[s].flushed, Gains(leadRequests[s])'
        PROVE  Gains(leadRequests[s])
    <2>1. leadRequests[s].op = "new" \/ leadRequests[s].lead \in Board!Ids \ {l}
      BY <1>1, <1>5, IdleLead DEF BoardInv, BoardTypes, RequestOfLeads, RequestsOfLeads
    <2>2. CASE leadRequests[s].op = "new"
      BY <2>2 DEF Gains
    <2>3. CASE leadRequests[s].lead \in Board!Ids \ {l}
      BY <1>1, <1>3, <1>5, <2>3 DEF Gains
    <2> QED
      BY <2>1, <2>2, <2>3
  <1> QED
    BY <1>1, <1>3, <1>4, <1>5, LeadsChange

LEMMA AddedBoard ==
    ASSUME BoardInv, Board!WebsiteEnquiry \/ Board!VoEnquiry \/ Board!PartnerApplication
    PROVE  BoardInv'
  <1>1. /\ leads' = Append(leads, Board!Lead(TRUE)) /\ UNCHANGED <<scope, leadRequests, terms>>
        /\ scope = "platform" \/ \A r \in Requests : ~leadRequests[r].flushed
    BY DEF Board!WebsiteEnquiry, Board!VoEnquiry, Board!PartnerApplication, Board!Added
  <1>2. /\ Board!Lead(TRUE) \in LeadRows /\ HistoryOf(Board!Lead(TRUE))
        /\ ~CountsFor(Board!Lead(TRUE)) /\ ~IsOpen(Board!Lead(TRUE))
    BY NewLead DEF CountsFor, IsOpen, Board!ManualOpen
  <1>3. /\ leads' \in Seq(LeadRows) /\ Board!Ids \subseteq Board!Ids'
        /\ (\A k \in Board!Ids : HistoryOf(leads[k]))'
        /\ Counted' \subseteq Counted /\ Open' \subseteq Open
    BY <1>1, <1>2, AppendedLead
  <1>4. BoardTypes'
    BY <1>1, <1>3, BoardTyped DEF BoardInv
  <1>5. scope = "operator" => \A s \in Requests : ~leadRequests'[s].flushed
    BY <1>1
  <1> QED
    BY <1>1, <1>3, <1>4, <1>5, LeadsChange

\* The plan: what is scheduled stays, or fits what is there while nobody adds to it.
LEMMA TermsChange ==
    ASSUME BoardInv, terms' \in Terms, UNCHANGED <<scope, leads, leadRequests>>,
           Scheduled' => \/ terms'.scheduled = terms.scheduled
                         \/ /\ Cardinality(Counted) <= terms'.scheduled
                            /\ \A r \in Requests : ~leadRequests[r].flushed
    PROVE  BoardInv'
  <1>1. Board!Ids' = Board!Ids /\ Counted' = Counted /\ Open' = Open
    BY DEF Board!Ids, Counted, Open, Board!open_manual_leads
  <1>2. BoardTypes' /\ (\A l \in Board!Ids : HistoryOf(leads[l]))' /\ OneFlushed'
    BY <1>1 DEF BoardInv, BoardTypes, RequestOfLeads, HistoryOf, OneFlushed
  <1>3. Cardinality(Counted)' = Cardinality(Counted) /\ Cardinality(Open)' = Cardinality(Open)
    BY <1>1
  <1>4. \A r \in Requests : Gains(leadRequests[r])' <=> Gains(leadRequests[r])
    BY DEF Gains
  <1>5. Scheduled' => \/ Scheduled /\ terms'.scheduled = terms.scheduled
                      \/ /\ Cardinality(Counted) <= terms'.scheduled
                         /\ \A r \in Requests : ~leadRequests[r].flushed
    BY DEF Scheduled
  <1>6. ASSUME scope = "operator", NEW r \in Requests, leadRequests[r].flushed
        PROVE  WasCounted(leadRequests[r])'
    BY <1>3, <1>4, <1>5, <1>6 DEF BoardInv, RoomLeft, WasCounted
  <1>7. RoomLeft'
    BY <1>3, <1>5, <1>6 DEF BoardInv, RoomLeft
  <1> QED
    BY <1>2, <1>7 DEF BoardInv

LEMMA ScheduleTermsBoard ==
    ASSUME BoardInv, NEW plan \in Board!Plans, Board!ScheduleTerms(plan)
    PROVE  BoardInv'
  <1>1. /\ \A r \in Requests : ~leadRequests[r].flushed
        /\ plan = NoLimit \/ Board!Cardinality(Open) <= plan
        /\ terms' = [terms EXCEPT !.scheduled = plan] /\ UNCHANGED <<scope, leads, leadRequests>>
    BY DEF Board!ScheduleTerms, Board!PlanRequested, Board!Fits, Open
  <1>2. terms \in Terms /\ plan \in LeadLimits \union {NoLimit} /\ (plan # NoLimit => plan \in Nat)
    BY LimitsOfLeads DEF BoardInv, BoardTypes, Board!Plans
  <1>3. terms' \in Terms /\ terms'.scheduled = plan
    BY <1>1, <1>2 DEF Terms
  <1>4. plan = NoLimit \/ Cardinality(Counted) <= plan
    BY <1>1, <1>2, CountedFinite, OpenFinite DEF BoardInv
  <1> QED
    BY <1>1, <1>3, <1>4, TermsChange DEF Scheduled

\* What else is done about plans leaves the schedule, or clears it.
LEMMA PlansBoard ==
    ASSUME BoardInv, NEW plan \in Board!Plans,
           \/ Board!PlanInvoiced(plan) \/ Board!PlanPaid(plan) \/ Board!InvoiceCancelled(plan)
           \/ Board!TierEdited(plan) \/ Board!RenewalInvoiced
    PROVE  BoardInv'
  <1>1. terms \in Terms /\ plan \in LeadLimits \union {NoLimit}
    BY DEF BoardInv, BoardTypes, Board!Plans
  <1>2. CASE Board!PlanInvoiced(plan)
    <2>1. /\ terms' = [terms EXCEPT !.invoiced = @ \union ({plan} \ {NoLimit})]
          /\ UNCHANGED <<scope, leads, leadRequests>>
      BY <1>2 DEF Board!PlanInvoiced, Board!PlanRequested
    <2>2. terms' \in Terms /\ terms'.scheduled = terms.scheduled
      BY <1>1, <2>1 DEF Terms
    <2> QED
      BY <2>1, <2>2, TermsChange
  <1>3. CASE Board!PlanPaid(plan)
    <2>1. PICK left \in Board!Without(plan) :
              terms' = [limit |-> plan, paid |-> TRUE, scheduled |-> NoLimit, invoiced |-> left]
      BY <1>3 DEF Board!PlanPaid
    <2>2. UNCHANGED <<scope, leads, leadRequests>>
      BY <1>3 DEF Board!PlanPaid
    <2>3. left \subseteq LeadLimits
      BY <1>1 DEF Board!Without, Terms
    <2>4. terms' \in Terms /\ terms'.scheduled = NoLimit
      BY <1>1, <2>1, <2>3 DEF Terms
    <2> QED
      BY <2>2, <2>4, TermsChange DEF Scheduled
  <1>4. CASE Board!InvoiceCancelled(plan)
    <2>1. /\ terms' = [terms EXCEPT !.invoiced = @ \ {plan}]
          /\ UNCHANGED <<scope, leads, leadRequests>>
      BY <1>4 DEF Board!InvoiceCancelled
    <2>2. terms' \in Terms /\ terms'.scheduled = terms.scheduled
      BY <1>1, <2>1 DEF Terms
    <2> QED
      BY <2>1, <2>2, TermsChange
  <1>5. CASE Board!TierEdited(plan)
    <2>1. terms' = [terms EXCEPT !.limit = plan] /\ UNCHANGED <<scope, leads, leadRequests>>
      BY <1>5 DEF Board!TierEdited
    <2>2. terms' \in Terms /\ terms'.scheduled = terms.scheduled
      BY <1>1, <2>1 DEF Terms
    <2> QED
      BY <2>1, <2>2, TermsChange
  <1>6. CASE Board!RenewalInvoiced
    <2>1. PICK kept \in BOOLEAN, made \in SUBSET ({terms.scheduled, terms.limit} \ {NoLimit}) :
              terms' = [terms EXCEPT !.scheduled = IF kept THEN terms.scheduled ELSE NoLimit,
                                     !.invoiced = @ \union made]
      BY <1>6 DEF Board!RenewalInvoiced
    <2>2. UNCHANGED <<scope, leads, leadRequests>>
      BY <1>6 DEF Board!RenewalInvoiced
    <2> DEFINE after == IF kept THEN terms.scheduled ELSE NoLimit
    <2>3. after \in {terms.scheduled, NoLimit} /\ made \subseteq LeadLimits
      BY <1>1 DEF Terms
    <2>4. terms' = [terms EXCEPT !.scheduled = after, !.invoiced = @ \union made]
      BY <2>1
    <2> HIDE DEF after
    <2>5. terms' \in Terms /\ terms'.scheduled = after
      BY <1>1, <2>3, <2>4 DEF Terms
    <2> QED
      BY <2>2, <2>3, <2>5, TermsChange DEF Scheduled
  <1> QED
    BY <1>2, <1>3, <1>4, <1>5, <1>6

LEMMA BoardStep == BoardInv /\ [BackOfficeNext]_backOfficeVars => BoardInv'
  <1> SUFFICES ASSUME BoardInv, [BackOfficeNext]_backOfficeVars PROVE BoardInv'
    OBVIOUS
  <1>1. Board!Next \/ UNCHANGED leadVars
    BY DEF BackOfficeNext, backOfficeVars, leadVars
  <1>2. CASE UNCHANGED leadVars
    <2>1. UNCHANGED <<scope, leads, leadRequests, terms>>
      BY <1>2 DEF leadVars
    <2>2. terms' \in Terms /\ terms'.scheduled = terms.scheduled
      BY <2>1 DEF BoardInv, BoardTypes
    <2> QED
      BY <2>1, <2>2, TermsChange
  <1>3. CASE Board!Next
    <2>1. NoLimit \in Board!Plans
      BY DEF Board!Plans
    <2> QED
      BY <1>3, <2>1, LoadsBoard, LeadNewBoard, FlushBoard, CommitBoard, DieBoard, LeadDeleteBoard,
         AddedBoard, ScheduleTermsBoard, PlansBoard DEF Board!Next
  <1> QED
    BY <1>1, <1>2, <1>3

LEMMA BoardSound == BoardInv => BoardInOrder
  <1> SUFFICES ASSUME BoardInv PROVE BoardInOrder
    OBVIOUS
  <1>1. Board!TypeOK
    <2>1. \A l \in Board!Ids : leads[l] \in LeadRows
      BY LeadRow DEF BoardInv
    <2>2. \A r \in Requests : leadRequests[r] = Board!Idle \/ leadRequests[r].op \in {"new", "move", "edit", "approve"}
      BY DEF BoardInv, BoardTypes, RequestOfLeads, RequestsOfLeads
    <2> QED
      BY <2>1, <2>2 DEF Board!TypeOK, Board!Plans, BoardInv, BoardTypes, LeadRows, Terms
  <1>2. Board!HistoryTellsStage
    BY DEF BoardInv, HistoryOf, Board!HistoryTellsStage
  <1>3. Board!ScheduledFits
    <2> SUFFICES ASSUME scope # "platform", terms.scheduled # NoLimit
                 PROVE  Board!Cardinality({l \in Board!open_manual_leads : ~leads[l].crossed}) <= terms.scheduled
      BY DEF Board!ScheduledFits
    <2>1. Counted = {l \in Board!open_manual_leads : ~leads[l].crossed}
      BY DEF Counted, CountsFor, IsOpen, Board!open_manual_leads
    <2>2. scope = "operator"
      BY DEF BoardInv, BoardTypes
    <2>3. Cardinality(Counted) <= terms.scheduled
      BY <2>2 DEF BoardInv, RoomLeft, Scheduled
    <2>4. Board!Cardinality(Counted) = Cardinality(Counted)
      BY DEF Board!Cardinality, Cardinality
    <2> QED
      BY <2>1, <2>3, <2>4
  <1> QED
    BY <1>1, <1>2, <1>3 DEF BoardInOrder

\* However requests overlap, the history of a lead ends with its stage, and a smaller plan that is
\* scheduled fits the open leads, but for those that were moved by who had loaded another stage
\* (request_plan, enforce_quotas).
THEOREM LeadsFitTheScheduledPlan == BackOfficeSpec => []BoardInOrder
  <1> QED
    BY BoardStart, BoardStep, BoardSound, PTL DEF BackOfficeSpec

\* What Board!AdditionsCounted says of a lead that becomes open.
AddedBy(r, l) ==
    LET q == leadRequests[r]
    IN /\ q.flushed /\ leadRequests'[r] = Board!Idle
       /\ \/ q.counted = NoLimit \/ Board!Cardinality(Open') <= q.counted
          \/ /\ q.op # "new" /\ q.lead = l
             /\ Board!ManualOpen(leads[l].website, q.copy)

LEMMA CommitAdds ==
    ASSUME BoardInv, scope = "operator", NEW r \in Requests, Board!Commit(r), NEW l \in Open' \ Open
    PROVE  AddedBy(r, l)
  <1> DEFINE q == leadRequests[r]
  <1>1. q.flushed /\ leadRequests'[r] = Board!Idle
    BY DEF Board!Commit, BoardInv, BoardTypes
  <1>2. RequestOfLeads(q) /\ q \in RequestsOfLeads
    BY DEF BoardInv, BoardTypes, RequestOfLeads
  <1>3. q.op \in {"new", "move", "edit", "approve"}
    BY <1>1, <1>2, IdleLead DEF RequestOfLeads, RequestsOfLeads
  <1>4. ASSUME Gains(q), Open' \subseteq Open \union {l}
        PROVE  AddedBy(r, l)
    <2>1. q.counted # NoLimit => q.counted \in Nat /\ Cardinality(Open) + 1 <= q.counted
      BY <1>1, <1>2, <1>4, LimitsOfLeads DEF BoardInv, RoomLeft, WasCounted, RequestsOfLeads
    <2>2. /\ Cardinality(Open)' \in Nat /\ Cardinality(Open)' <= Cardinality(Open) + 1
          /\ Board!Cardinality(Open') = Cardinality(Open)' /\ Cardinality(Open) \in Nat
      BY <1>4, OpenGrows, OpenFinite DEF BoardInv
    <2>3. q.counted = NoLimit \/ Board!Cardinality(Open') <= q.counted
      BY <2>1, <2>2
    <2> QED
      BY <1>1, <2>3 DEF AddedBy
  <1>5. CASE q.op = "new"
    <2> DEFINE row == IF q.to = "new" THEN Board!Lead(FALSE) ELSE Board!move_stage(Board!Lead(FALSE), q.to)
    <2>1. leads' = Append(leads, row)
      BY <1>5 DEF Board!Commit
    <2>2. row \in LeadRows /\ HistoryOf(row)
      <3>1. q.to \in Stages /\ Board!Lead(FALSE) \in LeadRows /\ HistoryOf(Board!Lead(FALSE))
        BY <1>2, NewLead DEF RequestsOfLeads
      <3> QED
        BY <3>1, MovedLead
    <2> HIDE DEF row
    <2>3. Open' \subseteq Open \union {Len(leads) + 1}
      BY <2>1, <2>2, AppendedLead
    <2>4. Open' \subseteq Open \union {l}
      BY <2>3
    <2>5. Gains(q)
      BY <1>5 DEF Gains
    <2> QED
      BY <1>4, <2>4, <2>5
  <1>6. CASE q.op # "new"
    <2> DEFINE k == q.lead
               row == Board!Written(leads[k], q)
    <2>1. leads' = [leads EXCEPT ![k] = row]
      BY <1>6 DEF Board!Commit
    <2>2. k \in Board!Ids
      BY <1>2, <1>3, <1>6 DEF RequestOfLeads
    <2>3. leads[k] \in LeadRows /\ HistoryOf(leads[k])
      BY <2>2, LeadRow DEF BoardInv
    <2>4. /\ row \in LeadRows /\ HistoryOf(row)
          /\ IsOpen(row) => IsOpen(leads[k]) \/ Board!ManualOpen(leads[k].website, q.to)
      BY <1>2, <1>3, <1>6, <2>3, WrittenLead
    <2> HIDE DEF row
    <2>5. /\ Open' \subseteq Open \union {k}
          /\ (IsOpen(row) => IsOpen(leads[k])) => Open' \subseteq Open
      BY <2>1, <2>2, <2>4, ReplacedLead
    <2>6. l = k /\ Board!ManualOpen(leads[k].website, q.to)
      BY <2>4, <2>5
    <2>7. CASE Gains(q)
      BY <1>4, <2>5, <2>6, <2>7
    <2>8. CASE ~Gains(q)
      BY <1>1, <1>6, <2>6, <2>8 DEF Gains, AddedBy
    <2> QED
      BY <2>7, <2>8
  <1> QED
    BY <1>5, <1>6

LEMMA NothingElseAdds ==
    ASSUME BoardInv, Board!Next, \A r \in Requests : ~Board!Commit(r)
    PROVE  Open' \subseteq Open
  <1>1. CASE UNCHANGED leads
    BY <1>1 DEF Open, Board!open_manual_leads, Board!Ids
  <1>2. ASSUME NEW l \in Board!Ids, Board!LeadDelete(l)
        PROVE  Open' \subseteq Open
    <2> DEFINE row == [Board!Lead(FALSE) EXCEPT !.there = FALSE]
    <2>1. leads' = [leads EXCEPT ![l] = row]
      BY <1>2 DEF Board!LeadDelete
    <2>2. row \in LeadRows /\ HistoryOf(row) /\ ~IsOpen(row)
      BY NewLead DEF LeadRows, HistoryOf, IsOpen
    <2> HIDE DEF row
    <2> QED
      BY <2>1, <2>2, ReplacedLead
  <1>3. CASE Board!WebsiteEnquiry \/ Board!VoEnquiry \/ Board!PartnerApplication
    <2>1. leads' = Append(leads, Board!Lead(TRUE))
      BY <1>3 DEF Board!WebsiteEnquiry, Board!VoEnquiry, Board!PartnerApplication, Board!Added
    <2>2. /\ Board!Lead(TRUE) \in LeadRows /\ HistoryOf(Board!Lead(TRUE))
          /\ ~IsOpen(Board!Lead(TRUE))
      BY NewLead DEF IsOpen, Board!ManualOpen
    <2> QED
      BY <2>1, <2>2, AppendedLead
  <1>4. ASSUME NEW r \in Requests, NEW l, NEW to, NEW op, Board!Load(r, op, l, to)
        PROVE  UNCHANGED leads
    BY <1>4 DEF Board!Load
  <1>5. ASSUME NEW r \in Requests, NEW l \in Board!Ids,
               \/ \E to \in Stages : Board!LeadMove(r, l, to)
               \/ Board!LeadEdit(r, l) \/ Board!LeadNote(r, l) \/ Board!Approve(r, l)
        PROVE  UNCHANGED leads
    BY <1>4, <1>5 DEF Board!LeadMove, Board!LeadEdit, Board!LeadNote, Board!Approve
  <1>6. ASSUME NEW r \in Requests,
               (\E to \in Stages : Board!LeadNew(r, to)) \/ Board!Flush(r) \/ Board!Die(r)
        PROVE  UNCHANGED leads
    BY <1>6 DEF Board!LeadNew, Board!Flush, Board!Die
  <1>7. ASSUME NEW plan,
               \/ Board!ScheduleTerms(plan) \/ Board!PlanInvoiced(plan) \/ Board!PlanPaid(plan)
               \/ Board!InvoiceCancelled(plan) \/ Board!TierEdited(plan)
        PROVE  UNCHANGED leads
    BY <1>7 DEF Board!ScheduleTerms, Board!PlanInvoiced, Board!PlanRequested, Board!PlanPaid,
                Board!InvoiceCancelled, Board!TierEdited
  <1>8. Board!RenewalInvoiced => UNCHANGED leads
    BY DEF Board!RenewalInvoiced
  <1> QED
    BY <1>1, <1>2, <1>3, <1>5, <1>6, <1>7, <1>8 DEF Board!Next

\* An operator's open leads are added to by requests that were counted, within the allowance they were
\* counted with, however requests overlap and plans change; but for a lead that is reopened by who had
\* loaded it open (enforce_quotas).
THEOREM LeadsAreAddedWithinTheAllowance == BackOfficeSpec => Board!AdditionsCounted
  <1> DEFINE Added ==
        \A l \in Open' \ Open : scope = "operator" => \E r \in Requests : AddedBy(r, l)
  <1>1. BoardInv /\ [BackOfficeNext]_backOfficeVars => [Added]_(Board!vars)
    <2> SUFFICES ASSUME BoardInv, BackOfficeNext, ~UNCHANGED Board!vars PROVE Added
      BY DEF backOfficeVars, leadVars, Board!vars
    <2>1. Board!Next
      BY DEF BackOfficeNext, leadVars, Board!vars
    <2>2. CASE \A r \in Requests : ~Board!Commit(r)
      BY <2>1, <2>2, NothingElseAdds
    <2>3. ASSUME NEW r \in Requests, Board!Commit(r)
          PROVE  Added
      BY <2>3, CommitAdds
    <2> QED
      BY <2>2, <2>3
  <1> HIDE DEF Added
  <1>2. BackOfficeSpec => [][Added]_(Board!vars)
    BY <1>1, BoardStart, BoardStep, PTL DEF BackOfficeSpec
  <1> QED
    BY <1>2 DEF Board!AdditionsCounted, Added, AddedBy, Open

\* Both together: what the leads of a board, and the plans of its operator, keep to.
THEOREM LeadsKeepToThePlan == BackOfficeSpec => LeadsKept
  <1> QED
    BY LeadsFitTheScheduledPlan, LeadsAreAddedWithinTheAllowance DEF LeadsKept

-----------------------------------------------------------------------------
(* Credits, of handlers that wait for each other. *)

\* One process at a time has read something it will write by.
Alone == \A p, q \in Procs : task[p] # Idle /\ task[q] # Idle => p = q

\* What allocate will do, and whom run_cycle will grant something, of a day.
HowOn(s, day) ==
    IF s \notin Allocated THEN "new"
    ELSE IF alloc[s].monthly = 0 /\ ~MonthlyLotExists(s, MonthOf(day)) THEN "restart"
    ELSE "change"

GranteesOn(day) ==
    {s \in Allocated : Started(alloc[s], day).monthly > 0 /\ ~MonthlyLotExists(s, MonthOf(day))}

LeftOn(day) == [l \in LotIds |-> IF Finished(lots[l], day) THEN lots[l].remaining ELSE 0]

\* What a process has read is still so when it writes.
StillSo(t) ==
    /\ t.day <= today
    /\ \A l \in LotIds : lots[l].month <= MonthOf(t.day)
    /\ t.at = "allocating" => /\ t.how = HowOn(t.subject, t.day)
                              /\ PoolAllows(t.subject, t.monthly)
    /\ t.at = "cycling" => /\ t.read = alloc /\ t.left = LeftOn(t.day)
                           /\ t.grantees = GranteesOn(t.day)

TasksAgree == \A p \in Procs : task[p] # Idle => StillSo(task[p])

MonthlyLot(l) == lots[l].source = "monthly"
RolledLot(l) == lots[l].source = "rollover"

\* Nothing can come of a lot any more.
Dead(l) == lots[l].remaining = 0 /\ lots[l].month < MonthOf(today)
Alive(l) == MonthlyLot(l) /\ lots[l].granted > 0 /\ ~Dead(l)

MonthsBegun == \A l \in LotIds : lots[l].month <= MonthOf(today)

GrantsAreAllocated == \A l \in LotIds : MonthlyLot(l) => lots[l].subject \in Allocated

ChangesWait ==
    \A s \in Allocated : alloc[s].pending # NoChange =>
        \A l \in LotIds : MonthlyLot(l) /\ lots[l].subject = s => lots[l].month < alloc[s].pending.from

NothingOfNothing ==
    \A s \in Allocated : alloc[s].monthly = 0 =>
        \A l \in LotIds : lots[l].subject = s => ~Alive(l)

OneAlive == \A k, l \in LotIds : Alive(k) /\ Alive(l) /\ lots[k].subject = lots[l].subject => k = l

\* What is carried over is within the cap, and once it is, nothing is left of the months before.
CarriedOnce ==
    /\ \A r \in LotIds : RolledLot(r) => lots[r].granted <= RolloverCap
    /\ \A q, r \in LotIds :
          RolledLot(q) /\ RolledLot(r) /\ lots[q].subject = lots[r].subject
          /\ lots[q].month = lots[r].month => q = r
    /\ \A r, l \in LotIds :
          RolledLot(r) /\ MonthlyLot(l) /\ lots[r].subject = lots[l].subject
          /\ lots[l].month < lots[r].month => lots[l].remaining = 0

DrawnOfLots == \A b \in Charges : Len(drawn[b]) <= Len(lots)

LotsInv ==
    /\ MonthsBegun /\ OneMonthlyLot /\ GrantsAreAllocated /\ ChangesWait
    /\ NothingOfNothing /\ OneAlive /\ CarriedOnce
    /\ LedgerExplainsLots /\ DrawnOfLots

CreditsInv == TypeOK /\ Alone /\ TasksAgree /\ LotsInv /\ PoolNeverOverAllocated

(* Days and months *)

LEMMA MonthsGrow ==
    ASSUME NEW d \in Nat, NEW e \in Nat, d <= e
    PROVE  MonthOf(d) \in Nat /\ MonthOf(d) <= MonthOf(e)
  <1> DEFINE D == DaysInMonth
             m == d \div D
             n == e \div D
  <1>1. D \in Nat /\ D > 0
    BY MonthsHaveDays
  <1>2. /\ m \in Nat /\ n \in Nat
        /\ d = D * m + (d % D) /\ e = D * n + (e % D)
        /\ d % D \in 0..D-1 /\ e % D \in 0..D-1
    BY <1>1
  <1>3. ASSUME n < m PROVE FALSE
    <2>1. PICK k \in Nat : m = n + 1 + k
      <3>1. m - (n + 1) \in Nat /\ m = n + 1 + (m - (n + 1))
        BY <1>2, <1>3
      <3> QED
        BY <3>1
    <2> DEFINE r == d % D
               q == e % D
               dn == D * n
               dk == D * k
    <2>2. D * m = dn + D + dk
      BY <1>1, <1>2, <2>1
    <2>3. dn \in Int /\ dk \in Nat
      BY <1>1, <1>2
    <2>4. d = dn + D + dk + r /\ e = dn + q /\ r \in 0..D-1 /\ q \in 0..D-1
      BY <1>2, <2>2
    <2> HIDE DEF r, q, dn, dk
    <2> QED
      BY <1>1, <2>3, <2>4
  <1> QED
    BY <1>2, <1>3 DEF MonthOf

LEMMA MonthsOfDays ==
    ASSUME NEW d \in Days
    PROVE  /\ d \in Nat /\ MonthOf(d) \in Months /\ MonthOf(d) + 1 \in Months
           /\ MonthOf(LastDay) \in Nat /\ MonthOf(d) < MonthOf(LastDay) + 1
  <1>1. d \in Nat /\ LastDay \in Nat /\ d <= LastDay
    BY MonthsHaveDays DEF Days
  <1>2. MonthOf(d) \in Nat /\ MonthOf(LastDay) \in Nat /\ MonthOf(d) <= MonthOf(LastDay)
    BY <1>1, MonthsGrow
  <1> QED
    BY <1>1, <1>2 DEF Months

LEMMA ProratedIsCredits ==
    ASSUME NEW credits \in Nat, NEW day \in Nat
    PROVE  Prorated(credits, day) \in Nat /\ (credits = 0 => Prorated(credits, day) = 0)
  <1> DEFINE rest == DaysInMonth - (day % DaysInMonth)
  <1>1. DaysInMonth \in Nat /\ DaysInMonth > 0
    BY MonthsHaveDays
  <1>2. rest \in Nat
    BY <1>1
  <1> HIDE DEF rest
  <1>3. credits * rest \in Nat /\ (credits = 0 => credits * rest = 0)
    BY <1>2
  <1> DEFINE n == credits * rest
  <1>4. Prorated(credits, day) = n \div DaysInMonth
    BY DEF Prorated, rest
  <1> HIDE DEF n
  <1>5. n \in Nat /\ (credits = 0 => n = 0)
    BY <1>3 DEF n
  <1> QED
    BY <1>1, <1>4, <1>5
-----------------------------------------------------------------------------
(* What the variables hold *)

LEMMA TypedTask ==
    ASSUME TypeOK, NEW p \in Procs, task[p] # Idle
    PROVE  /\ task[p].at \in {"allocating", "cycling"} /\ task[p].day \in Days
           /\ task[p].at = "allocating" => task[p] \in AllocateTask
           /\ task[p].at = "cycling" => task[p] \in CycleTask
  <1>1. task[p] \in AllocateTask \union CycleTask
    BY DEF TypeOK
  <1> QED
    BY <1>1 DEF AllocateTask, CycleTask

LEMMA TypedLots ==
    ASSUME TypeOK
    PROVE  /\ LotIds = DOMAIN lots /\ Len(lots) \in Nat /\ LotIds \subseteq Nat /\ IsFiniteSet(LotIds)
           /\ \A l \in LotIds :
                 /\ lots[l] \in Lot /\ lots[l].subject \in Subjects /\ lots[l].month \in Nat
                 /\ lots[l].granted \in Nat /\ lots[l].remaining \in Nat /\ lots[l].expired \in Nat
                 /\ lots[l].source \in {"monthly", "bonus", "rollover"}
  <1>1. lots \in Seq(Lot)
    BY DEF TypeOK
  <1>2. LotIds = DOMAIN lots /\ Len(lots) \in Nat /\ \A l \in LotIds : lots[l] \in Lot
    BY <1>1 DEF LotIds
  <1>3. Months \subseteq Nat
    BY DEF Months
  <1>4. IsFiniteSet(LotIds)
    BY <1>2, FS_Interval DEF LotIds
  <1>5. ASSUME NEW l \in LotIds
        PROVE  /\ lots[l].subject \in Subjects /\ lots[l].month \in Nat
               /\ lots[l].granted \in Nat /\ lots[l].remaining \in Nat /\ lots[l].expired \in Nat
               /\ lots[l].source \in {"monthly", "bonus", "rollover"}
    BY <1>2, <1>3 DEF Lot
  <1>6. LotIds \subseteq Nat
    BY DEF LotIds
  <1> QED
    BY <1>2, <1>4, <1>5, <1>6

LEMMA TypedDraws ==
    ASSUME TypeOK, NEW b \in Charges, NEW l \in Nat
    PROVE  Draw(b, l) \in Nat /\ (DrawnOfLots /\ l > Len(lots) => Draw(b, l) = 0)
  <1>1. drawn[b] \in Seq(Nat)
    BY DEF TypeOK
  <1>2. Len(lots) \in Nat
    BY TypedLots
  <1> QED
    BY <1>1, <1>2 DEF Draw, DrawnOfLots

LEMMA TypedAllocations ==
    ASSUME TypeOK, NEW s \in Allocated
    PROVE  /\ s \in Subjects /\ alloc[s] \in Allocation /\ alloc[s].monthly \in Nat
           /\ alloc[s].pending.to \in Nat /\ alloc[s].pending.from \in Nat
           /\ alloc[s].pending \in Change \union {NoChange}
           /\ MonthOf(LastDay) \in Nat
  <1>1. s \in Subjects /\ alloc[s] \in Allocation
    BY DEF TypeOK, Allocated
  <1>2. LastDay \in Days /\ MonthOf(LastDay) \in Nat
    BY MonthsHaveDays, MonthsGrow DEF Days
  <1>3. alloc[s].monthly \in Nat /\ alloc[s].pending \in Change \union {NoChange}
    BY <1>1 DEF Allocation
  <1>4. Months \subseteq Nat
    BY DEF Months
  <1>5. NoChange.to \in Nat /\ NoChange.from \in Nat
    BY <1>2 DEF NoChange
  <1>6. \A c \in Change : c.to \in Nat /\ c.from \in Nat
    BY <1>4 DEF Change
  <1> QED
    BY <1>1, <1>2, <1>3, <1>5, <1>6

LEMMA AllocationsAreSome == \A a \in Allocation : a # NoAllocation
  <1> SUFFICES ASSUME NEW a \in Allocation, a = NoAllocation PROVE FALSE
    OBVIOUS
  <1>1. "none" \notin DOMAIN a
    BY DEF Allocation
  <1>2. "none" \in DOMAIN NoAllocation
    BY DEF NoAllocation
  <1> QED
    BY <1>1, <1>2

LEMMA PromisesAreCounted == TypeOK => \A s \in Subjects : PromisedTo(s) \in Nat
  BY TypedAllocations DEF PromisedTo

LEMMA PromisesStayCounted == (TypeOK => \A s \in Subjects : PromisedTo(s) \in Nat)'
  BY PromisesAreCounted, PTL

LEMMA CommittedIsCounted ==
    ASSUME TypeOK
    PROVE  Committed \in Nat
  <1> DEFINE f == [s \in Subjects |-> PromisedTo(s)]
  <1>1. \A s \in Subjects : f[s] \in Nat
    BY PromisesAreCounted
  <1> HIDE DEF f
  <1>2. SumFunctionOnSet(f, Subjects) \in Nat
    BY <1>1, Countable, SumsAreNumbers
  <1> QED
    BY <1>2 DEF Committed, f

\* No change is ever due.
LEMMA DueIsAChange ==
    ASSUME TypeOK, NEW s \in Allocated, NEW day \in Days, Due(alloc[s], day)
    PROVE  alloc[s].pending # NoChange /\ alloc[s].pending \in Change
  <1>1. MonthOf(day) < MonthOf(LastDay) + 1 /\ MonthOf(day) \in Nat /\ MonthOf(LastDay) \in Nat
    BY MonthsOfDays DEF Months
  <1>2. ~(NoChange.from <= MonthOf(day))
    BY <1>1 DEF NoChange
  <1> QED
    BY <1>2, TypedAllocations DEF Due
-----------------------------------------------------------------------------
(* Handlers that only read *)

\* What each of them relies on does not depend on who has read it.
LEMMA TaskChanges ==
    ASSUME CreditsInv, UNCHANGED <<today, alloc, lots, drawn>>,
           NEW p \in Procs, NEW t, Become(p, t),
           \/ t = Idle
           \/ /\ t \in AllocateTask \union CycleTask
              /\ \A q \in Procs : task[q] = Idle
              /\ StillSo(t)
    PROVE  CreditsInv'
  <1>1. task' = [task EXCEPT ![p] = t] /\ task \in [Procs -> {Idle} \union AllocateTask \union CycleTask]
    BY DEF Become, CreditsInv, TypeOK
  <1>2. TypeOK'
    BY <1>1 DEF CreditsInv, TypeOK
  <1>3. task'[p] = t /\ \A q \in Procs : q # p => task'[q] = task[q]
    BY <1>1
  <1>4. Alone'
    BY <1>3 DEF CreditsInv, Alone
  <1>5. TasksAgree'
    <2> SUFFICES ASSUME NEW q \in Procs, task'[q] # Idle PROVE StillSo(task[q])'
      BY DEF TasksAgree
    <2>1. StillSo(task'[q])
      BY <1>3 DEF CreditsInv, TasksAgree
    <2> QED
      BY <2>1 DEF StillSo, LotIds, HowOn, LeftOn, GranteesOn, PoolAllows, Committed, PromisedTo, Allocated,
                  MonthlyLotExists
  <1>6. LotsInv' /\ PoolNeverOverAllocated'
    BY DEF CreditsInv, LotsInv, MonthsBegun, OneMonthlyLot, GrantsAreAllocated, ChangesWait, NothingOfNothing,
           OneAlive, CarriedOnce, LedgerExplainsLots, DrawnOfLots, PoolNeverOverAllocated, Committed,
           PromisedTo, Allocated, LotIds, MonthlyLot, RolledLot, Alive, Dead, Draw
  <1> QED
    BY <1>2, <1>4, <1>5, <1>6 DEF CreditsInv

LEMMA AllIdle ==
    ASSUME ~Overlapping, NEW p \in Procs, CanStart(p)
    PROVE  \A q \in Procs : task[q] = Idle
  BY DEF CanStart

LEMMA AllocationBegins ==
    ASSUME CreditsInv, ~Overlapping, NEW p \in Workers, NEW s \in Subjects, NEW c \in Nat,
           CanStart(p), PoolAllows(s, c), BeginAllocation(p, s, c)
    PROVE  CreditsInv'
  <1> DEFINE t == [at |-> "allocating", subject |-> s, monthly |-> c, day |-> today,
                   how |-> HowToAllocate(s)]
  <1>1. Become(p, t) /\ UNCHANGED <<today, alloc, lots, drawn>> /\ p \in Procs
    BY DEF BeginAllocation, Procs
  <1>2. t \in AllocateTask
    BY DEF CreditsInv, TypeOK, AllocateTask, HowToAllocate
  <1>3. today \in Nat /\ MonthsBegun
    BY MonthsOfDays DEF CreditsInv, TypeOK, LotsInv
  <1>4. StillSo(t)
    BY <1>3 DEF StillSo, HowOn, HowToAllocate, MonthsBegun
  <1> HIDE DEF t
  <1> QED
    BY <1>1, <1>2, <1>4, AllIdle, TaskChanges

LEMMA CycleBegins ==
    ASSUME CreditsInv, ~Overlapping, NEW p \in Crons, CycleLoad(p)
    PROVE  CreditsInv'
  <1> DEFINE t == [at |-> "cycling", day |-> today,
                   left |-> LeftOn(today), read |-> alloc, grantees |-> GranteesOn(today)]
  <1>1. Become(p, t) /\ CanStart(p) /\ UNCHANGED <<today, alloc, lots, drawn>> /\ p \in Procs
    BY DEF CycleLoad, Procs, LeftOn, GranteesOn
  <1>2. t \in CycleTask
    <2>1. LeftOn(today) \in Seq(Nat)
      BY TypedLots DEF CreditsInv, LeftOn, LotIds
    <2>2. GranteesOn(today) \subseteq Subjects
      BY DEF GranteesOn, Allocated
    <2> QED
      BY <2>1, <2>2 DEF CreditsInv, TypeOK, CycleTask
  <1>3. today \in Nat /\ MonthsBegun
    BY MonthsOfDays DEF CreditsInv, TypeOK, LotsInv
  <1>4. StillSo(t)
    BY <1>3 DEF StillSo, MonthsBegun
  <1> HIDE DEF t
  <1> QED
    BY <1>1, <1>2, <1>4, AllIdle, TaskChanges

LEMMA DayGoesBy ==
    ASSUME CreditsInv, Tick
    PROVE  CreditsInv'
  <1>1. today \in Days /\ today' = today + 1 /\ today < LastDay /\ LastDay \in Nat
        /\ UNCHANGED <<alloc, lots, drawn, task>>
    BY MonthsHaveDays DEF Tick, CreditsInv, TypeOK
  <1>2. today \in Nat /\ today' \in Days /\ today' \in Nat
    BY <1>1 DEF Days
  <1>3. MonthOf(today) \in Nat /\ MonthOf(today') \in Nat /\ MonthOf(today) <= MonthOf(today')
    BY <1>1, <1>2, MonthsGrow
  <1>4. TypeOK'
    BY <1>1, <1>2 DEF CreditsInv, TypeOK
  <1>5. Alone'
    BY <1>1 DEF CreditsInv, Alone
  <1>6. TasksAgree'
    <2> SUFFICES ASSUME NEW q \in Procs, task[q] # Idle PROVE StillSo(task[q])'
      BY <1>1 DEF TasksAgree
    <2>1. StillSo(task[q]) /\ task[q].day \in Nat
      BY MonthsOfDays, TypedTask DEF CreditsInv, TasksAgree
    <2> QED
      BY <1>1, <1>2, <2>1
         DEF StillSo, LotIds, HowOn, LeftOn, GranteesOn, PoolAllows, Committed, PromisedTo, Allocated,
             MonthlyLotExists
  <1>7. \A l \in LotIds : Alive(l)' => Alive(l)
    BY <1>1, <1>3, TypedLots DEF CreditsInv, Alive, Dead, MonthlyLot
  <1>8. LotsInv'
    <2>1. MonthsBegun'
      BY <1>1, <1>3, TypedLots DEF CreditsInv, LotsInv, MonthsBegun, LotIds
    <2>2. NothingOfNothing' /\ OneAlive'
      BY <1>1, <1>7 DEF CreditsInv, LotsInv, NothingOfNothing, OneAlive, LotIds, Allocated
    <2>3. /\ OneMonthlyLot' /\ GrantsAreAllocated' /\ ChangesWait' /\ CarriedOnce'
          /\ LedgerExplainsLots' /\ DrawnOfLots'
      BY <1>1 DEF CreditsInv, LotsInv, OneMonthlyLot, GrantsAreAllocated, ChangesWait, CarriedOnce,
                  LedgerExplainsLots, DrawnOfLots, LotIds, Allocated, MonthlyLot, RolledLot, Draw
    <2> QED
      BY <2>1, <2>2, <2>3 DEF LotsInv
  <1>9. PoolNeverOverAllocated'
    BY <1>1 DEF CreditsInv, PoolNeverOverAllocated, Committed, PromisedTo, Allocated
  <1> QED
    BY <1>4, <1>5, <1>6, <1>8, <1>9 DEF CreditsInv
-----------------------------------------------------------------------------
(* One lot more *)

LEMMA NothingDrawnIsNothing ==
    ASSUME TypeOK, NEW l \in Nat, \A b \in Charges : Draw(b, l) = 0
    PROVE  SumFunctionOnSet([b \in Charges |-> Draw(b, l)], Charges) = 0
  <1> DEFINE f == [b \in Charges |-> Draw(b, l)]
  <1>1. \A b \in Charges : f[b] = 0
    OBVIOUS
  <1> HIDE DEF f
  <1>2. SumFunctionOnSet(f, Charges) = 0
    BY <1>1, Countable, SumOfNothing
  <1> QED
    BY <1>2 DEF f

LEMMA NewLotIsLot ==
    ASSUME NEW s \in Subjects, NEW source \in {"monthly", "bonus", "rollover"},
           NEW c \in Nat, NEW m \in Months, NEW lot, lot = NewLot(s, source, c, m)
    PROVE  /\ lot \in Lot /\ lot.subject = s /\ lot.source = source /\ lot.month = m
           /\ lot.granted = c /\ lot.remaining = lot.granted /\ lot.expired = 0
  BY DEF NewLot, Lot

LEMMA LotAdded ==
    ASSUME CreditsInv, NEW new \in Lot, new.month <= MonthOf(today),
           new.remaining = new.granted, new.expired = 0,
           lots' = Append(lots, new), today' = today, drawn' = drawn
    PROVE  /\ lots' \in Seq(Lot)
           /\ LotIds' = LotIds \union {Len(lots) + 1} /\ Len(lots) + 1 \notin LotIds
           /\ \A l \in LotIds : lots'[l] = lots[l]
           /\ lots'[Len(lots) + 1] = new
           /\ MonthsBegun' /\ LedgerExplainsLots' /\ DrawnOfLots'
  <1> DEFINE n == Len(lots)
  <1>1. new.granted \in Nat
    BY DEF Lot
  <1>2. lots \in Seq(Lot) /\ n \in Nat /\ TypeOK
    BY TypedLots DEF CreditsInv, TypeOK
  <1>3. /\ lots' \in Seq(Lot) /\ Len(lots') = n + 1 /\ lots'[n + 1] = new
        /\ \A l \in 1..n : lots'[l] = lots[l]
    BY <1>1, <1>2
  <1>4. LotIds' = LotIds \union {n + 1} /\ n + 1 \notin LotIds /\ LotIds = 1..n
    BY <1>2, <1>3 DEF LotIds
  <1>5. MonthsBegun'
    BY <1>1, <1>3, <1>4 DEF CreditsInv, LotsInv, MonthsBegun
  <1>6. DrawnOfLots'
    <2>1. \A b \in Charges : Len(drawn[b]) \in Nat
      BY <1>2 DEF TypeOK
    <2> QED
      BY <1>2, <1>3, <2>1 DEF CreditsInv, LotsInv, DrawnOfLots
  <1>7. LedgerExplainsLots'
    <2> SUFFICES ASSUME NEW l \in LotIds'
                 PROVE  lots'[l].remaining = lots'[l].granted - lots'[l].expired
                                             - SumFunctionOnSet([b \in Charges |-> Draw(b, l)], Charges)
      BY DEF LedgerExplainsLots, Draw
    <2>1. CASE l \in LotIds
      BY <1>3, <1>4, <2>1 DEF CreditsInv, LotsInv, LedgerExplainsLots
    <2>2. CASE l = n + 1
      <3>1. l \in Nat /\ l > Len(lots)
        BY <1>2, <2>2
      <3>2. \A b \in Charges : Draw(b, l) = 0
        BY <1>2, <3>1, TypedDraws DEF CreditsInv, LotsInv
      <3>3. SumFunctionOnSet([b \in Charges |-> Draw(b, l)], Charges) = 0
        BY <1>2, <3>1, <3>2, NothingDrawnIsNothing
      <3> QED
        BY <1>1, <1>3, <2>2, <3>3
    <2> QED
      BY <1>4, <2>1, <2>2
  <1> QED
    BY <1>3, <1>4, <1>5, <1>6, <1>7

LEMMA AllStayIdle ==
    ASSUME \A p \in Procs : task'[p] = Idle
    PROVE  Alone' /\ TasksAgree'
  BY DEF Alone, TasksAgree

LEMMA BonusGranted ==
    ASSUME CreditsInv, ~Overlapping, NEW p \in Workers, NEW s \in Subjects, NEW c \in Amounts,
           GrantBonus(p, s, c)
    PROVE  CreditsInv'
  <1> DEFINE m == MonthOf(today)
  <1>0. PICK n : n = Len(lots) + 1
    OBVIOUS
  <1>1. /\ CanStart(p) /\ lots' = Append(lots, NewLot(s, "bonus", c, m))
        /\ UNCHANGED <<today, alloc, drawn, task>> /\ p \in Procs
    BY DEF GrantBonus, Procs
  <1>2. m \in Months /\ m <= MonthOf(today) /\ c \in Nat
    BY MonthsOfDays, CreditsAreCounted DEF CreditsInv, TypeOK, Months
  <1> HIDE DEF m
  <1> DEFINE new == NewLot(s, "bonus", c, m)
  <1>10. new \in Lot /\ new.month = m /\ new.remaining = new.granted /\ new.expired = 0 /\ new.source = "bonus"
    BY <1>2, NewLotIsLot
  <1> HIDE DEF new
  <1>11. lots' = Append(lots, new)
    BY <1>1 DEF new
  <1>3. /\ lots' \in Seq(Lot)
        /\ LotIds' = LotIds \union {n} /\ n \notin LotIds
        /\ \A l \in LotIds : lots'[l] = lots[l]
        /\ lots'[n] = new
        /\ MonthsBegun' /\ LedgerExplainsLots' /\ DrawnOfLots'
    BY <1>0, <1>1, <1>2, <1>10, <1>11, LotAdded
  <1>4. \A q \in Procs : task'[q] = Idle
    BY <1>1, AllIdle
  <1>5. TypeOK'
    BY <1>1, <1>3 DEF CreditsInv, TypeOK
  <1>6. ~MonthlyLot(n)' /\ ~RolledLot(n)'
    BY <1>3, <1>10 DEF MonthlyLot, RolledLot
  <1>7. /\ \A l \in LotIds : /\ MonthlyLot(l)' <=> MonthlyLot(l)
                             /\ RolledLot(l)' <=> RolledLot(l)
                             /\ Alive(l)' <=> Alive(l)
        /\ ~Alive(n)'
    BY <1>1, <1>3, <1>6 DEF MonthlyLot, RolledLot, Alive, Dead
  <1>8. LotsInv'
    <2>1. OneMonthlyLot'
      BY <1>3, <1>6, <1>7 DEF CreditsInv, LotsInv, OneMonthlyLot, MonthlyLot
    <2>2. GrantsAreAllocated'
      BY <1>1, <1>3, <1>6, <1>7 DEF CreditsInv, LotsInv, GrantsAreAllocated, Allocated
    <2>3. ChangesWait'
      BY <1>1, <1>3, <1>6, <1>7 DEF CreditsInv, LotsInv, ChangesWait, Allocated
    <2>4. NothingOfNothing'
      BY <1>1, <1>3, <1>7 DEF CreditsInv, LotsInv, NothingOfNothing, Allocated
    <2>5. OneAlive'
      BY <1>3, <1>7 DEF CreditsInv, LotsInv, OneAlive
    <2>6. CarriedOnce'
      BY <1>3, <1>6, <1>7 DEF CreditsInv, LotsInv, CarriedOnce
    <2> QED
      BY <1>3, <2>1, <2>2, <2>3, <2>4, <2>5, <2>6 DEF LotsInv
  <1>9. PoolNeverOverAllocated'
    BY <1>1 DEF CreditsInv, PoolNeverOverAllocated, Committed, PromisedTo, Allocated
  <1> QED
    BY <1>4, <1>5, <1>8, <1>9, AllStayIdle DEF CreditsInv
-----------------------------------------------------------------------------
(* allocate *)

LEMMA OnePromiseChanges ==
    ASSUME TypeOK, TypeOK', NEW s \in Subjects,
           \A r \in Subjects \ {s} : alloc'[r] = alloc[r]
    PROVE  Committed' = Committed - PromisedTo(s) + PromisedTo(s)'
  <1> DEFINE f == [r \in Subjects |-> PromisedTo(r)]
             g == [r \in Subjects |-> PromisedTo(r)']
  <1>1. \A r \in Subjects : PromisedTo(r) \in Nat /\ PromisedTo(r)' \in Nat
    <2>1. \A r \in Subjects : PromisedTo(r) \in Nat
      BY PromisesAreCounted
    <2>2. \A r \in Subjects : PromisedTo(r)' \in Nat
      BY PromisesStayCounted
    <2> QED
      BY <2>1, <2>2
  <1>2. \A r \in Subjects \ {s} : PromisedTo(r)' = PromisedTo(r)
    BY DEF PromisedTo, Allocated
  <1>3. \A r \in Subjects : f[r] = PromisedTo(r) /\ g[r] = PromisedTo(r)'
    OBVIOUS
  <1>4. Committed = SumFunctionOnSet(f, Subjects) /\ Committed' = SumFunctionOnSet(g, Subjects)
    BY DEF Committed
  <1> HIDE DEF f, g
  <1>5. SumFunctionOnSet(g, Subjects) = SumFunctionOnSet(f, Subjects) - f[s] + g[s]
    BY <1>1, <1>2, <1>3, Countable, SumWithOneChanged
  <1> QED
    BY <1>3, <1>4, <1>5

\* What is promised instead keeps to the pool.
LEMMA PoolIsKept ==
    ASSUME TypeOK, TypeOK', PoolNeverOverAllocated, NEW s \in Subjects, NEW c \in Nat,
           \A r \in Subjects \ {s} : alloc'[r] = alloc[r],
           PromisedTo(s)' = c, PoolAllows(s, c)
    PROVE  PoolNeverOverAllocated'
  <1>1. Committed' = Committed - PromisedTo(s) + PromisedTo(s)'
    BY OnePromiseChanges
  <1>2. Committed \in Nat /\ PromisedTo(s) \in Nat
    BY CommittedIsCounted, PromisesAreCounted
  <1>3. PoolMode = "block" => Committed' <= Allocatable
    BY <1>1, <1>2, CreditsAreCounted DEF PoolAllows
  <1> QED
    BY <1>3 DEF PoolNeverOverAllocated

LEMMA IdleTasks ==
    ASSUME CreditsInv, NEW p \in Procs, task[p] # Idle, Done(p)
    PROVE  /\ \A q \in Procs : task'[q] = Idle
           /\ task' \in [Procs -> {Idle} \union AllocateTask \union CycleTask]
  <1>1. task' = [task EXCEPT ![p] = Idle] /\ task \in [Procs -> {Idle} \union AllocateTask \union CycleTask]
    BY DEF Done, Become, CreditsInv, TypeOK
  <1> QED
    BY <1>1 DEF CreditsInv, Alone

LEMMA TaskAgrees ==
    ASSUME CreditsInv, NEW p \in Procs, task[p].at # "idle"
    PROVE  /\ task[p] # Idle /\ StillSo(task[p]) /\ TypeOK /\ LotsInv
           /\ task[p].day \in Days /\ today \in Days /\ task[p].day <= today
           /\ MonthOf(task[p].day) \in Months /\ MonthOf(task[p].day) + 1 \in Months
           /\ MonthOf(task[p].day) <= MonthOf(today) /\ MonthOf(task[p].day) \in Nat
           /\ MonthOf(today) \in Nat
  <1>1. task[p] # Idle
    BY DEF Idle
  <1>2. StillSo(task[p]) /\ TypeOK /\ LotsInv
    BY <1>1 DEF CreditsInv, TasksAgree
  <1>3. task[p].day \in Days /\ today \in Days /\ task[p].day <= today
    BY <1>1, <1>2, TypedTask DEF StillSo, TypeOK
  <1>4. task[p].day \in Nat /\ today \in Nat
    BY <1>3, MonthsOfDays
  <1> QED
    BY <1>1, <1>2, <1>3, <1>4, MonthsOfDays, MonthsGrow

\* A pending change is put down.
LEMMA ChangeNoted ==
    ASSUME CreditsInv, NEW p \in Procs, task[p].at = "allocating", task[p].how = "change",
           NEW s \in Subjects, s = task[p].subject,
           alloc' = [alloc EXCEPT ![s].pending =
                       [to |-> task[p].monthly, from |-> MonthOf(task[p].day) + 1]],
           UNCHANGED <<today, lots, drawn>>, Done(p)
    PROVE  CreditsInv'
  <1> DEFINE c == task[p].monthly
             m == MonthOf(task[p].day)
             pending == [to |-> c, from |-> m + 1]
  <1>1. /\ task[p] # Idle /\ StillSo(task[p]) /\ TypeOK /\ LotsInv
        /\ m \in Nat /\ m \in Months /\ m + 1 \in Months /\ task[p].day \in Days
    BY TaskAgrees
  <1>2. c \in Nat
    BY <1>1, TypedTask DEF AllocateTask
  <1>3. /\ s \in Allocated /\ PoolAllows(s, c) /\ \A l \in LotIds : lots[l].month <= m
    BY <1>1 DEF StillSo, HowOn
  <1>4. /\ alloc[s] \in Allocation /\ alloc \in [Subjects -> Allocation \union {NoAllocation}]
        /\ MonthOf(LastDay) \in Nat
    BY <1>1, <1>3, TypedAllocations DEF TypeOK
  <1>5. pending \in Change /\ pending # NoChange
    <2>1. m + 1 # MonthOf(LastDay) + 2
      BY <1>1, MonthsOfDays
    <2> QED
      BY <1>1, <1>2, <2>1 DEF Change, NoChange
  <1>6. pending.to = c /\ pending.from = m + 1
    OBVIOUS
  <1> HIDE DEF pending, c, m
  <1>7. /\ alloc'[s] = [alloc[s] EXCEPT !.pending = pending]
        /\ \A r \in Subjects \ {s} : alloc'[r] = alloc[r]
        /\ alloc' \in [Subjects -> Allocation \union {NoAllocation}]
        /\ alloc'[s] \in Allocation
    <2>1. [alloc[s] EXCEPT !.pending = pending] \in Allocation
      BY <1>4, <1>5 DEF Allocation
    <2>2. alloc' = [alloc EXCEPT ![s] = [alloc[s] EXCEPT !.pending = pending]]
      BY <1>4 DEF pending, c, m
    <2> QED
      BY <1>4, <2>1, <2>2
  <1>8. alloc'[s].pending = pending /\ alloc'[s].monthly = alloc[s].monthly
    BY <1>4, <1>7 DEF Allocation
  <1>9. Allocated' = Allocated
    BY <1>3, <1>7, AllocationsAreSome DEF Allocated
  <1>10. /\ \A q \in Procs : task'[q] = Idle
         /\ task' \in [Procs -> {Idle} \union AllocateTask \union CycleTask]
    BY <1>1, IdleTasks
  <1>11. TypeOK'
    BY <1>1, <1>7, <1>10 DEF TypeOK
  <1>12. PromisedTo(s)' = c
    BY <1>3, <1>5, <1>6, <1>8, <1>9 DEF PromisedTo
  <1>13. PoolNeverOverAllocated'
    BY <1>1, <1>2, <1>3, <1>7, <1>11, <1>12, PoolIsKept DEF CreditsInv
  <1>14. LotIds' = LotIds
    BY DEF LotIds
  <1>15. ChangesWait'
    <2> SUFFICES ASSUME NEW r \in Allocated, alloc'[r].pending # NoChange,
                        NEW l \in LotIds, MonthlyLot(l), lots[l].subject = r
                 PROVE  lots[l].month < alloc'[r].pending.from
      BY <1>9, <1>14 DEF ChangesWait, MonthlyLot
    <2>1. CASE r = s
      BY <1>1, <1>3, <1>6, <1>8, <2>1, TypedLots
    <2>2. CASE r # s
      BY <1>1, <1>7, <2>2 DEF LotsInv, ChangesWait, Allocated
    <2> QED
      BY <2>1, <2>2
  <1>16. NothingOfNothing'
    <2> SUFFICES ASSUME NEW r \in Allocated, alloc'[r].monthly = 0,
                        NEW l \in LotIds, lots[l].subject = r
                 PROVE  ~Alive(l)
      BY <1>9, <1>14 DEF NothingOfNothing, Alive, Dead, MonthlyLot
    <2>1. alloc[r].monthly = 0
      BY <1>7, <1>8 DEF Allocated
    <2> QED
      BY <1>1, <2>1 DEF LotsInv, NothingOfNothing
  <1>17. LotsInv'
    <2>1. /\ MonthsBegun' /\ OneMonthlyLot' /\ OneAlive' /\ CarriedOnce' /\ LedgerExplainsLots'
          /\ DrawnOfLots'
      BY <1>1 DEF LotsInv, MonthsBegun, OneMonthlyLot, OneAlive, CarriedOnce, LedgerExplainsLots,
                  DrawnOfLots, LotIds, Alive, Dead, MonthlyLot, RolledLot, Draw
    <2>2. GrantsAreAllocated'
      BY <1>1, <1>9, <1>14 DEF LotsInv, GrantsAreAllocated, MonthlyLot
    <2> QED
      BY <1>15, <1>16, <2>1, <2>2 DEF LotsInv
  <1> QED
    BY <1>10, <1>11, <1>13, <1>17, AllStayIdle DEF CreditsInv

\* An allocation starts: neither has the subject a grant of the month, nor a lot that is alive.
LEMMA NoGrantYet ==
    ASSUME LotsInv, NEW s \in Subjects, NEW day, HowOn(s, day) # "change"
    PROVE  /\ ~MonthlyLotExists(s, MonthOf(day))
           /\ \A l \in LotIds : lots[l].subject = s => ~Alive(l)
  <1>1. CASE s \notin Allocated
    BY <1>1 DEF LotsInv, GrantsAreAllocated, MonthlyLotExists, MonthlyLot, Alive
  <1>2. CASE s \in Allocated
    BY <1>2 DEF LotsInv, NothingOfNothing, HowOn
  <1> QED
    BY <1>1, <1>2

LEMMA AllocationStarts ==
    ASSUME CreditsInv, NEW p \in Procs, task[p].at = "allocating", task[p].how # "change",
           NEW s \in Subjects, s = task[p].subject,
           NEW c \in Nat, c = task[p].monthly, NEW m \in Months, m = MonthOf(task[p].day),
           NEW starting \in Allocation, starting.monthly = c, starting.pending = NoChange,
           NEW new \in Lot, new.subject = s, new.source = "monthly", new.month = m,
           new.remaining = new.granted, new.expired = 0, c = 0 => new.granted = 0,
           alloc' = [alloc EXCEPT ![s] = starting], lots' = Append(lots, new),
           today' = today, drawn' = drawn, Done(p)
    PROVE  CreditsInv'
  <1>0. PICK n : n = Len(lots) + 1
    OBVIOUS
  <1>1. /\ task[p] # Idle /\ StillSo(task[p]) /\ TypeOK /\ LotsInv
        /\ m \in Nat /\ m <= MonthOf(today) /\ MonthOf(today) \in Nat
    BY TaskAgrees
  <1>4. /\ HowOn(s, task[p].day) # "change" /\ PoolAllows(s, c) /\ \A l \in LotIds : lots[l].month <= m
    BY <1>1 DEF StillSo
  <1>5. /\ ~MonthlyLotExists(s, m) /\ \A l \in LotIds : lots[l].subject = s => ~Alive(l)
    BY <1>1, <1>4, NoGrantYet
  <1>8. /\ lots' \in Seq(Lot)
        /\ LotIds' = LotIds \union {n} /\ n \notin LotIds
        /\ \A l \in LotIds : lots'[l] = lots[l]
        /\ lots'[n] = new
        /\ MonthsBegun' /\ LedgerExplainsLots' /\ DrawnOfLots'
    BY <1>0, <1>1, LotAdded
  <1>9. /\ alloc'[s] = starting /\ \A r \in Subjects \ {s} : alloc'[r] = alloc[r]
        /\ alloc' \in [Subjects -> Allocation \union {NoAllocation}]
    BY <1>1 DEF TypeOK
  <1>10. Allocated' = Allocated \union {s}
    BY <1>9, AllocationsAreSome DEF Allocated
  <1>11. /\ \A q \in Procs : task'[q] = Idle
         /\ task' \in [Procs -> {Idle} \union AllocateTask \union CycleTask]
    BY <1>1, IdleTasks
  <1>12. TypeOK'
    BY <1>1, <1>8, <1>9, <1>11 DEF TypeOK
  <1>13. PromisedTo(s)' = c
    BY <1>9, <1>10 DEF PromisedTo
  <1>14. PoolNeverOverAllocated'
    BY <1>1, <1>4, <1>9, <1>12, <1>13, PoolIsKept DEF CreditsInv
  <1>15. /\ lots'[n].subject = s /\ lots'[n].source = "monthly" /\ lots'[n].month = m
         /\ lots'[n].granted = new.granted
    BY <1>8
  <1>16. MonthlyLot(n)' /\ ~RolledLot(n)'
    BY <1>15 DEF MonthlyLot, RolledLot
  <1>17. \A l \in LotIds : /\ MonthlyLot(l)' <=> MonthlyLot(l)
                           /\ RolledLot(l)' <=> RolledLot(l)
                           /\ Alive(l)' <=> Alive(l)
    BY <1>8 DEF MonthlyLot, RolledLot, Alive, Dead
  <1>18. \A l \in LotIds : lots[l].subject = s => ~Alive(l)'
    BY <1>5, <1>17
  <1>19. OneMonthlyLot'
    <2>1. \A l \in LotIds : ~(lots[l].source = "monthly" /\ lots[l].subject = s /\ lots[l].month = m)
      BY <1>5 DEF MonthlyLotExists
    <2>2. \A l \in LotIds : ~(lots'[l].source = "monthly" /\ lots'[l].subject = s /\ lots'[l].month = m)
      BY <1>8, <2>1
    <2>3. OneMonthlyLot
      BY <1>1 DEF LotsInv
    <2> SUFFICES ASSUME NEW k \in LotIds', NEW l \in LotIds',
                        lots'[k].source = "monthly", lots'[l].source = "monthly",
                        lots'[k].subject = lots'[l].subject, lots'[k].month = lots'[l].month
                 PROVE  k = l
      BY DEF OneMonthlyLot
    <2>4. CASE k = n \/ l = n
      BY <1>8, <1>15, <2>2, <2>4
    <2>5. CASE k # n /\ l # n
      BY <1>8, <2>3, <2>5 DEF OneMonthlyLot
    <2> QED
      BY <2>4, <2>5
  <1>20. GrantsAreAllocated'
    BY <1>1, <1>8, <1>10, <1>15, <1>17 DEF LotsInv, GrantsAreAllocated
  <1>21. ChangesWait'
    <2> SUFFICES ASSUME NEW r \in Allocated', alloc'[r].pending # NoChange,
                        NEW l \in LotIds', MonthlyLot(l)', lots'[l].subject = r
                 PROVE  lots'[l].month < alloc'[r].pending.from
      BY DEF ChangesWait
    <2>1. r # s
      BY <1>9
    <2>2. r \in Allocated /\ alloc'[r] = alloc[r] /\ l \in LotIds
      BY <1>8, <1>9, <1>10, <1>15, <2>1 DEF Allocated
    <2> QED
      BY <1>1, <1>8, <1>17, <2>2 DEF LotsInv, ChangesWait
  <1>22. NothingOfNothing'
    <2> SUFFICES ASSUME NEW r \in Allocated', alloc'[r].monthly = 0,
                        NEW l \in LotIds', lots'[l].subject = r
                 PROVE  ~Alive(l)'
      BY DEF NothingOfNothing
    <2>1. CASE r = s /\ l = n
      <3>1. new.granted = 0 /\ lots'[n].granted = new.granted
        BY <1>9, <1>15, <2>1
      <3>2. ~(lots'[l].granted > 0)
        BY <2>1, <3>1
      <3> QED
        BY <3>2 DEF Alive
    <2>2. CASE r = s /\ l # n
      BY <1>8, <1>18, <2>2
    <2>3. CASE r # s
      <3>1. r \in Allocated /\ alloc'[r] = alloc[r] /\ l \in LotIds
        BY <1>8, <1>9, <1>10, <1>15, <2>3 DEF Allocated
      <3> QED
        BY <1>1, <1>8, <1>17, <3>1 DEF LotsInv, NothingOfNothing
    <2> QED
      BY <2>1, <2>2, <2>3
  <1>23. OneAlive'
    <2> SUFFICES ASSUME NEW k \in LotIds', NEW l \in LotIds', Alive(k)', Alive(l)',
                        lots'[k].subject = lots'[l].subject
                 PROVE  k = l
      BY DEF OneAlive
    <2>1. CASE k = n \/ l = n
      BY <1>8, <1>15, <1>18, <2>1
    <2>2. CASE k # n /\ l # n
      BY <1>1, <1>8, <1>17, <2>2 DEF LotsInv, OneAlive
    <2> QED
      BY <2>1, <2>2
  <1>24. CarriedOnce'
    <2>1. \A r \in LotIds' : RolledLot(r)' => r \in LotIds /\ RolledLot(r) /\ lots'[r] = lots[r]
      BY <1>8, <1>16, <1>17
    <2>2. \A r \in LotIds : ~(m < lots[r].month)
      BY <1>1, <1>4, TypedLots
    <2>3. ASSUME NEW r \in LotIds', NEW l \in LotIds', RolledLot(r)', MonthlyLot(l)',
                 lots'[r].subject = lots'[l].subject, lots'[l].month < lots'[r].month
          PROVE  lots'[l].remaining = 0
      <3>1. l \in LotIds /\ MonthlyLot(l) /\ lots'[l] = lots[l]
        BY <1>8, <1>15, <1>17, <2>1, <2>2, <2>3
      <3>2. r \in LotIds /\ RolledLot(r) /\ lots'[r] = lots[r]
        BY <2>1, <2>3
      <3> QED
        BY <1>1, <2>3, <3>1, <3>2 DEF LotsInv, CarriedOnce
    <2>4. \A r \in LotIds' : RolledLot(r)' => lots'[r].granted <= RolloverCap
      BY <1>1, <2>1 DEF LotsInv, CarriedOnce
    <2>5. \A q, r \in LotIds' :
              RolledLot(q)' /\ RolledLot(r)' /\ lots'[q].subject = lots'[r].subject
              /\ lots'[q].month = lots'[r].month => q = r
      BY <1>1, <2>1 DEF LotsInv, CarriedOnce
    <2> QED
      BY <2>3, <2>4, <2>5 DEF CarriedOnce
  <1> QED
    BY <1>8, <1>11, <1>12, <1>14, <1>19, <1>20, <1>21, <1>22, <1>23, <1>24, AllStayIdle
       DEF CreditsInv, LotsInv

LEMMA AllocationCommits ==
    ASSUME CreditsInv, NEW p \in Workers, AllocateCommit(p)
    PROVE  CreditsInv'
  <1> DEFINE s == task[p].subject
  <1>1. p \in Procs /\ task[p].at = "allocating" /\ Done(p) /\ UNCHANGED <<today, drawn>>
    BY DEF AllocateCommit, Procs
  <1>2. s \in Subjects /\ task[p].how \in {"new", "restart", "change"}
    BY <1>1, TaskAgrees, TypedTask DEF AllocateTask
  <1>3. CASE task[p].how # "change"
    <2> DEFINE c == task[p].monthly
               m == MonthOf(task[p].day)
               new == NewLot(s, "monthly", Prorated(c, task[p].day), m)
               starting == [monthly |-> c, pending |-> NoChange]
    <2>1. c \in Nat /\ m \in Months /\ task[p].day \in Nat
      BY <1>1, TaskAgrees, TypedTask, MonthsOfDays DEF AllocateTask
    <2>2. Prorated(c, task[p].day) \in Nat /\ (c = 0 => Prorated(c, task[p].day) = 0)
      BY <2>1, ProratedIsCredits
    <2>3. starting \in Allocation /\ starting.monthly = c /\ starting.pending = NoChange
      BY <2>1 DEF Allocation
    <2>4. /\ new \in Lot /\ new.subject = s /\ new.source = "monthly" /\ new.month = m
          /\ new.remaining = new.granted /\ new.expired = 0 /\ (c = 0 => new.granted = 0)
      BY <1>2, <2>1, <2>2, NewLotIsLot
    <2>5. alloc' = [alloc EXCEPT ![s] = starting] /\ lots' = Append(lots, new)
      BY <1>3 DEF AllocateCommit
    <2> HIDE DEF c, m, new, starting
    <2>6. c = task[p].monthly /\ m = MonthOf(task[p].day)
      BY DEF c, m
    <2> QED
      BY <1>1, <1>2, <1>3, <2>1, <2>3, <2>4, <2>5, <2>6, AllocationStarts
  <1>4. CASE task[p].how = "change"
    BY <1>1, <1>2, <1>4, ChangeNoted DEF AllocateCommit
  <1> QED
    BY <1>3, <1>4
-----------------------------------------------------------------------------
(* spend and refund_booking *)

\* A lot gives no more than it has.
LEMMA TakesWhatThereIs ==
    ASSUME NEW L, IsFiniteSet(DOMAIN L), \A k \in DOMAIN L : L[k].remaining \in Nat,
           NEW l \in DOMAIN L, NEW s, NEW credits \in Nat
    PROVE  Take(L, s, credits, l) \in 0..L[l].remaining
  <1> DEFINE ids == {k \in ValidLots(L, s) : DrawnBefore(L, k, l)}
             f == [k \in ids |-> L[k].remaining]
             wanted == credits - Holding(L, ids)
  <1>1. ids \subseteq DOMAIN L /\ IsFiniteSet(ids)
    <2>1. ids \subseteq DOMAIN L
      BY DEF ValidLots
    <2> QED
      BY <2>1, FS_Subset
  <1>2. \A k \in ids : f[k] \in Int
    BY <1>1
  <1>3. Holding(L, ids) = SumFunctionOnSet(f, ids)
    BY DEF Holding
  <1> HIDE DEF f
  <1>4. Holding(L, ids) \in Int
    BY <1>1, <1>2, <1>3, SumsAreNumbers
  <1>5. wanted \in Int
    BY <1>4
  <1>6. Take(L, s, credits, l) = IF l \notin ValidLots(L, s) \/ wanted <= 0 THEN 0
                                 ELSE IF wanted < L[l].remaining THEN wanted ELSE L[l].remaining
    BY DEF Take
  <1> HIDE DEF wanted, ids
  <1> QED
    BY <1>5, <1>6

\* What Redraw makes of a lot.
LEMMA LotRedrawn ==
    ASSUME TypeOK, NEW b \in Charges, NEW s \in Subjects, NEW c \in Nat, Redraw(b, s, c),
           NEW l \in LotIds
    PROVE  \E back, take \in Nat :
              /\ lots'[l] = [lots[l] EXCEPT !.remaining = lots[l].remaining + back - take]
              /\ drawn'[b][l] = Draw(b, l) - back + take
              /\ back <= Draw(b, l) /\ take <= lots[l].remaining + back
              /\ lots[l].month < MonthOf(today) => back = 0
  <1> DEFINE L == RefundedLots(b)
             take == Take(L, s, c, l)
  <1>1. lots' = [k \in LotIds |-> [L[k] EXCEPT !.remaining = @ - Take(L, s, c, k)]]
    BY DEF Redraw
  <1>2. drawn' = [drawn EXCEPT ![b] =
                    [k \in LotIds |-> Draw(b, k) - Returned(b, k) + Take(L, s, c, k)]]
    BY DEF Redraw
  <1>3. DOMAIN L = LotIds /\ \A k \in LotIds : L[k] = [lots[k] EXCEPT !.remaining = @ + Returned(b, k)]
    BY DEF RefundedLots
  <1>4. \A k \in LotIds : /\ Returned(b, k) \in Nat /\ Returned(b, k) <= Draw(b, k)
                          /\ lots[k].month < MonthOf(today) => Returned(b, k) = 0
    <2> SUFFICES ASSUME NEW k \in LotIds
                 PROVE  /\ Returned(b, k) \in Nat /\ Returned(b, k) <= Draw(b, k)
                        /\ lots[k].month < MonthOf(today) => Returned(b, k) = 0
      OBVIOUS
    <2>1. Draw(b, k) \in Nat /\ lots[k].month \in Nat
      BY TypedLots, TypedDraws
    <2>2. MonthOf(today) \in Nat
      BY MonthsOfDays DEF TypeOK, Months
    <2> QED
      BY <2>1, <2>2 DEF Returned, Unexpired
  <1>5. \A k \in LotIds : L[k].remaining = lots[k].remaining + Returned(b, k)
    BY <1>3, TypedLots DEF Lot
  <1>6. take \in 0..L[l].remaining
    <2>1. IsFiniteSet(DOMAIN L) /\ \A k \in DOMAIN L : L[k].remaining \in Nat
      BY <1>3, <1>4, <1>5, TypedLots
    <2> HIDE DEF L
    <2> QED
      BY <1>3, <2>1, TakesWhatThereIs
  <1>7. lots'[l] = [L[l] EXCEPT !.remaining = @ - take]
    BY <1>1
  <1>8. drawn'[b][l] = Draw(b, l) - Returned(b, l) + take
    BY <1>2 DEF TypeOK
  <1> DEFINE back == Returned(b, l)
  <1> HIDE DEF L, take, back
  <1>10. back \in Nat /\ take \in Nat /\ back <= Draw(b, l) /\ take <= lots[l].remaining + back
    BY <1>4, <1>5, <1>6, TypedLots DEF back
  <1>9. lots'[l] = [lots[l] EXCEPT !.remaining = lots[l].remaining + back - take]
    <2> DEFINE more == lots[l].remaining + back
               rest == lots[l].remaining + back - take
    <2>1. lots[l] \in Lot /\ more - take = rest
      BY <1>10, TypedLots
    <2>2. L[l] = [lots[l] EXCEPT !.remaining = more] /\ L[l].remaining = more
      BY <1>3, <1>5 DEF back
    <2> HIDE DEF more, rest
    <2>3. lots'[l] = [L[l] EXCEPT !.remaining = rest]
      BY <1>7, <2>1, <2>2
    <2>4. lots'[l] = [lots[l] EXCEPT !.remaining = rest]
      BY <2>1, <2>2, <2>3 DEF Lot
    <2> QED
      BY <2>4 DEF rest
  <1>11. drawn'[b][l] = Draw(b, l) - back + take /\ (lots[l].month < MonthOf(today) => back = 0)
    BY <1>4, <1>8 DEF back
  <1> QED
    BY <1>9, <1>10, <1>11

LEMMA Redrawn ==
    ASSUME CreditsInv, ~Overlapping, NEW p \in Procs, CanStart(p),
           NEW b \in Charges, NEW s \in Subjects, NEW c \in Nat, Redraw(b, s, c),
           UNCHANGED <<today, alloc, task>>
    PROVE  CreditsInv'
  <1>1. TypeOK /\ LotsInv
    BY DEF CreditsInv
  <1>2. DOMAIN lots' = LotIds /\ LotIds' = LotIds /\ Len(lots') = Len(lots) /\ lots' \in Seq(Lot)
    <2>1. \A l \in LotIds : lots'[l] \in Lot
      <3> SUFFICES ASSUME NEW l \in LotIds PROVE lots'[l] \in Lot
        OBVIOUS
      <3>1. PICK back, take \in Nat :
               /\ lots'[l] = [lots[l] EXCEPT !.remaining = lots[l].remaining + back - take]
               /\ take <= lots[l].remaining + back
        BY <1>1, LotRedrawn
      <3> DEFINE rest == lots[l].remaining + back - take
      <3>2. lots[l] \in Lot /\ rest \in Nat
        BY <1>1, <3>1, TypedLots
      <3> HIDE DEF rest
      <3>3. lots'[l] = [lots[l] EXCEPT !.remaining = rest]
        BY <3>1 DEF rest
      <3> QED
        BY <3>2, <3>3 DEF Lot
    <2>2. DOMAIN lots' = 1..Len(lots) /\ Len(lots) \in Nat /\ lots' = [l \in 1..Len(lots) |-> lots'[l]]
      BY <1>1, TypedLots DEF Redraw, LotIds
    <2> QED
      BY <2>1, <2>2 DEF LotIds
  <1>3. drawn' \in [Charges -> Seq(Nat)] /\ Len(drawn'[b]) = Len(lots)
        /\ \A a \in Charges \ {b} : drawn'[a] = drawn[a]
    <2> DEFINE new == [k \in LotIds |-> Draw(b, k) - Returned(b, k) + Take(RefundedLots(b), s, c, k)]
    <2>1. drawn' = [drawn EXCEPT ![b] = new] /\ drawn \in [Charges -> Seq(Nat)]
      BY <1>1 DEF Redraw, TypeOK
    <2>2. \A k \in LotIds : new[k] \in Nat
      <3> SUFFICES ASSUME NEW k \in LotIds PROVE drawn'[b][k] \in Nat
        BY <2>1
      <3>1. PICK back, take \in Nat : drawn'[b][k] = Draw(b, k) - back + take /\ back <= Draw(b, k)
        BY <1>1, LotRedrawn
      <3>2. Draw(b, k) \in Nat
        BY <1>1, TypedLots, TypedDraws
      <3> QED
        BY <3>1, <3>2
    <2>3. new = [k \in 1..Len(lots) |-> new[k]] /\ Len(lots) \in Nat
      BY <1>1, TypedLots DEF LotIds
    <2> HIDE DEF new
    <2>4. new \in Seq(Nat) /\ Len(new) = Len(lots)
      BY <2>2, <2>3 DEF LotIds
    <2> QED
      BY <2>1, <2>4
  <1>4. TypeOK'
    BY <1>1, <1>2, <1>3 DEF TypeOK
  <1>5. \A q \in Procs : task'[q] = Idle
    BY AllIdle
  <1>6. ASSUME NEW l \in LotIds
        PROVE  /\ lots'[l].subject = lots[l].subject /\ lots'[l].source = lots[l].source
               /\ lots'[l].month = lots[l].month /\ lots'[l].granted = lots[l].granted
               /\ lots[l].remaining = 0 /\ lots[l].month < MonthOf(today) => lots'[l].remaining = 0
               /\ lots'[l].remaining = lots'[l].granted - lots'[l].expired
                     - SumFunctionOnSet([a \in Charges |-> Draw(a, l)'], Charges)
    <2>1. PICK back, take \in Nat :
             /\ lots'[l] = [lots[l] EXCEPT !.remaining = lots[l].remaining + back - take]
             /\ drawn'[b][l] = Draw(b, l) - back + take
             /\ back <= Draw(b, l) /\ take <= lots[l].remaining + back
             /\ lots[l].month < MonthOf(today) => back = 0
      BY <1>1, LotRedrawn
    <2>2. lots[l] \in Lot /\ lots[l].remaining \in Nat /\ lots[l].granted \in Nat /\ lots[l].expired \in Nat
      BY <1>1, TypedLots
    <2>3. /\ lots'[l].subject = lots[l].subject /\ lots'[l].source = lots[l].source
          /\ lots'[l].month = lots[l].month /\ lots'[l].granted = lots[l].granted
          /\ lots'[l].expired = lots[l].expired
          /\ lots'[l].remaining = lots[l].remaining + back - take
      BY <2>1, <2>2 DEF Lot
    <2>4. lots[l].remaining = 0 /\ lots[l].month < MonthOf(today) => lots'[l].remaining = 0
      BY <2>1, <2>2, <2>3
    <2> DEFINE f == [a \in Charges |-> Draw(a, l)]
               g == [a \in Charges |-> Draw(a, l)']
    <2>5. \A a \in Charges : f[a] = Draw(a, l) /\ g[a] = Draw(a, l)'
      OBVIOUS
    <2>6. \A a \in Charges \ {b} : Draw(a, l)' = Draw(a, l)
      BY <1>3 DEF Draw
    <2>7. \A a \in Charges : Draw(a, l) \in Nat
      BY <1>1, TypedLots, TypedDraws
    <2>8. Draw(b, l)' = Draw(b, l) - back + take
      <3>1. l \in DOMAIN drawn'[b]
        BY <1>3 DEF LotIds
      <3> QED
        BY <2>1, <3>1 DEF Draw
    <2> HIDE DEF f, g
    <2>9. \A a \in Charges : f[a] \in Int /\ g[a] \in Int
      BY <2>1, <2>5, <2>6, <2>7, <2>8
    <2>10. /\ SumFunctionOnSet(f, Charges) \in Int
           /\ SumFunctionOnSet(g, Charges) = SumFunctionOnSet(f, Charges) - f[b] + g[b]
      BY <2>5, <2>6, <2>9, Countable, SumWithOneChanged
    <2>11. lots[l].remaining = lots[l].granted - lots[l].expired - SumFunctionOnSet(f, Charges)
      BY <1>1 DEF LotsInv, LedgerExplainsLots, f
    <2>12. lots'[l].remaining = lots'[l].granted - lots'[l].expired - SumFunctionOnSet(g, Charges)
      BY <2>1, <2>2, <2>3, <2>5, <2>7, <2>8, <2>10, <2>11
    <2> QED
      BY <2>3, <2>4, <2>12 DEF g
  <1>10. \A l \in LotIds :
            /\ lots'[l].subject = lots[l].subject /\ lots'[l].source = lots[l].source
            /\ lots'[l].month = lots[l].month /\ lots'[l].granted = lots[l].granted
            /\ lots[l].remaining = 0 /\ lots[l].month < MonthOf(today) => lots'[l].remaining = 0
    BY <1>6
  <1>7. \A l \in LotIds : /\ MonthlyLot(l)' <=> MonthlyLot(l)
                          /\ RolledLot(l)' <=> RolledLot(l)
                          /\ Alive(l)' => Alive(l)
    BY <1>10 DEF MonthlyLot, RolledLot, Alive, Dead
  <1>8. LotsInv'
    <2>1. MonthsBegun' /\ OneMonthlyLot'
      BY <1>1, <1>2, <1>10 DEF LotsInv, MonthsBegun, OneMonthlyLot
    <2>2. GrantsAreAllocated' /\ ChangesWait'
      BY <1>1, <1>2, <1>10, <1>7 DEF LotsInv, GrantsAreAllocated, ChangesWait, Allocated
    <2>3. NothingOfNothing' /\ OneAlive'
      <3>1. NothingOfNothing'
        BY <1>1, <1>2, <1>10, <1>7 DEF LotsInv, NothingOfNothing, Allocated
      <3>2. OneAlive'
        BY <1>1, <1>2, <1>10, <1>7 DEF LotsInv, OneAlive
      <3> QED
        BY <3>1, <3>2
    <2>4. CarriedOnce'
      <3>1. ASSUME NEW r \in LotIds, NEW l \in LotIds, RolledLot(r)', MonthlyLot(l)',
                   lots'[r].subject = lots'[l].subject, lots'[l].month < lots'[r].month
            PROVE  lots'[l].remaining = 0
        <4>1. lots[l].remaining = 0 /\ lots[l].month < lots[r].month
          BY <1>1, <1>10, <1>7, <3>1 DEF LotsInv, CarriedOnce
        <4>2. lots[r].month <= MonthOf(today) /\ lots[r].month \in Nat /\ lots[l].month \in Nat
              /\ MonthOf(today) \in Nat
          BY <1>1, TypedLots, MonthsOfDays DEF LotsInv, MonthsBegun, TypeOK, Months
        <4> QED
          BY <1>10, <4>1, <4>2
      <3>2. \A r \in LotIds : RolledLot(r)' => lots'[r].granted <= RolloverCap
        BY <1>1, <1>10, <1>7 DEF LotsInv, CarriedOnce
      <3>3. \A q, r \in LotIds :
                RolledLot(q)' /\ RolledLot(r)' /\ lots'[q].subject = lots'[r].subject
                /\ lots'[q].month = lots'[r].month => q = r
        BY <1>1, <1>10, <1>7 DEF LotsInv, CarriedOnce
      <3> QED
        BY <1>2, <3>1, <3>2, <3>3 DEF CarriedOnce
    <2>5. LedgerExplainsLots'
      BY <1>2, <1>6 DEF LedgerExplainsLots
    <2>6. DrawnOfLots'
      <3>1. \A a \in Charges : Len(drawn'[a]) <= Len(lots)
        <4>1. Len(lots) \in Nat
          BY <1>1, TypedLots
        <4>2. \A a \in Charges : Len(drawn[a]) <= Len(lots)
          BY <1>1 DEF LotsInv, DrawnOfLots
        <4> SUFFICES ASSUME NEW a \in Charges PROVE Len(drawn'[a]) <= Len(lots)
          OBVIOUS
        <4>3. CASE a = b
          BY <1>3, <4>1, <4>3
        <4>4. CASE a # b
          BY <1>3, <4>2, <4>4
        <4> QED
          BY <4>3, <4>4
      <3> QED
        BY <1>2, <3>1 DEF DrawnOfLots
    <2> QED
      BY <2>1, <2>2, <2>3, <2>4, <2>5, <2>6 DEF LotsInv
  <1>9. PoolNeverOverAllocated'
    BY DEF CreditsInv, PoolNeverOverAllocated, Committed, PromisedTo, Allocated
  <1> QED
    BY <1>4, <1>5, <1>8, <1>9, AllStayIdle DEF CreditsInv

LEMMA CreditsSpent ==
    ASSUME CreditsInv, ~Overlapping, NEW p \in Workers,
           \/ \E b \in Charges, s \in Subjects, c \in Amounts : Spend(p, b, s, c)
           \/ \E b \in Charges, c \in Amounts : RefundOrReprice(p, b, c)
    PROVE  CreditsInv'
  <1>1. p \in Procs
    BY DEF Procs
  <1>2. PICK b \in Charges, c \in Amounts :
           \/ \E s \in Subjects : Spend(p, b, s, c)
           \/ RefundOrReprice(p, b, c)
    OBVIOUS
  <1>3. SubjectsOf(b) \subseteq Subjects
    BY TypedLots DEF SubjectsOf, CreditsInv
  <1>4. PICK s \in Subjects : Redraw(b, s, c)
    BY <1>2, <1>3 DEF Spend, RefundOrReprice
  <1>5. c \in Nat
    BY CreditsAreCounted
  <1>6. CanStart(p) /\ UNCHANGED <<today, alloc, task>>
    BY <1>2 DEF Spend, RefundOrReprice
  <1> QED
    BY <1>1, <1>4, <1>5, <1>6, Redrawn
-----------------------------------------------------------------------------
(* run_cycle *)

LEMMA ListedOnce ==
    ASSUME NEW S, IsFiniteSet(S)
    PROVE  /\ SetToSeq(S) \in Seq(S) /\ Len(SetToSeq(S)) \in Nat
           /\ DOMAIN SetToSeq(S) = 1..Len(SetToSeq(S))
           /\ \A k \in DOMAIN SetToSeq(S) : SetToSeq(S)[k] \in S
           /\ \A k, m \in DOMAIN SetToSeq(S) : SetToSeq(S)[k] = SetToSeq(S)[m] => k = m
  <1>1. Cardinality(S) \in Nat /\ ExistsBijection(1..Cardinality(S), S)
    BY FS_CardinalityType
  <1>2. \E f \in [1..Cardinality(S) -> S] : IsInjective(f)
    <2>1. PICK f : f \in Bijection(1..Cardinality(S), S)
      BY <1>1 DEF ExistsBijection
    <2>2. f \in [1..Cardinality(S) -> S] /\ \A a, b \in 1..Cardinality(S) : f[a] = f[b] => a = b
      BY <2>1 DEF Bijection, Injection, IsInjective
    <2> QED
      BY <2>2 DEF IsInjective
  <1>3. SetToSeq(S) \in [1..Cardinality(S) -> S] /\ IsInjective(SetToSeq(S))
    BY <1>2 DEF SetToSeq
  <1>4. SetToSeq(S) \in Seq(S)
    BY <1>1, <1>3
  <1> QED
    BY <1>3, <1>4 DEF IsInjective

LEMMA TwoParts ==
    ASSUME NEW S, NEW A \in Seq(S), NEW B \in Seq(S)
    PROVE  /\ A \o B \in Seq(S) /\ Len(A \o B) = Len(A) + Len(B)
           /\ Len(A) \in Nat /\ Len(B) \in Nat
           /\ \A i \in 1..Len(A) : (A \o B)[i] = A[i]
           /\ \A i \in 1..Len(B) : (A \o B)[Len(A) + i] = B[i]
           /\ \A k \in 1..Len(A \o B) :
                 k \notin 1..Len(A) => k - Len(A) \in 1..Len(B) /\ (A \o B)[k] = B[k - Len(A)]
  OBVIOUS

\* The lots of which something is carried over, and the row that is granted to each.
CarriersOn(day) ==
    {l \in LotIds : LeftOn(day)[l] > 0 /\ Carry(lots[l], LeftOn(day)[l]) > 0}
RowsCarried(day, from) ==
    [i \in DOMAIN from |->
        NewLot(lots[from[i]].subject, "rollover", Carry(lots[from[i]], LeftOn(day)[from[i]]), MonthOf(day))]
RowsGranted(day, to) ==
    [i \in DOMAIN to |->
        NewLot(to[i], "monthly", Started(alloc[to[i]], day).monthly, MonthOf(day))]
RowsExpired(day) == [l \in LotIds |-> Expire(lots[l], LeftOn(day)[l])]

LEMMA CycleWrites ==
    ASSUME CreditsInv, NEW p \in Crons, CycleCommit(p), NEW day, day = task[p].day
    PROVE  /\ lots' = RowsExpired(day) \o RowsCarried(day, SetToSeq(CarriersOn(day)))
                      \o RowsGranted(day, SetToSeq(GranteesOn(day)))
           /\ alloc' = [s \in Subjects |->
                          IF s \in Allocated THEN StartedRow(alloc[s], alloc[s], day) ELSE alloc[s]]
           /\ Done(p) /\ UNCHANGED <<today, drawn>> /\ task[p].at = "cycling" /\ p \in Procs
  <1> DEFINE t == task[p]
             leftOf(l) == IF l \in DOMAIN t.left THEN t.left[l] ELSE 0
             carried == SetToSeq({l \in LotIds : leftOf(l) > 0 /\ Carry(lots[l], leftOf(l)) > 0})
             granted == SetToSeq(t.grantees)
  <1>1. /\ t.at = "cycling" /\ Done(p) /\ UNCHANGED <<today, drawn>> /\ p \in Procs
    BY DEF CycleCommit, Procs
  <1>2. StillSo(t)
    BY <1>1, TaskAgrees
  <1>3. t.read = alloc /\ t.left = LeftOn(day) /\ t.grantees = GranteesOn(day)
    BY <1>1, <1>2 DEF StillSo
  <1>4. \A l \in LotIds : leftOf(l) = LeftOn(day)[l]
    BY <1>3 DEF LeftOn
  <1>5. lots' =
            [l \in LotIds |-> Expire(lots[l], leftOf(l))]
            \o [i \in DOMAIN carried |->
                  NewLot(lots[carried[i]].subject, "rollover",
                         Carry(lots[carried[i]], leftOf(carried[i])), MonthOf(t.day))]
            \o [i \in DOMAIN granted |->
                  NewLot(granted[i], "monthly",
                         Started(t.read[granted[i]], t.day).monthly, MonthOf(t.day))]
    BY DEF CycleCommit
  <1>6. alloc' = [s \in Subjects |->
                      IF t.read[s] # NoAllocation THEN StartedRow(alloc[s], t.read[s], t.day)
                      ELSE alloc[s]]
    BY DEF CycleCommit
  <1> DEFINE E == [l \in LotIds |-> Expire(lots[l], leftOf(l))]
             C == [i \in DOMAIN carried |->
                  NewLot(lots[carried[i]].subject, "rollover",
                         Carry(lots[carried[i]], leftOf(carried[i])), MonthOf(t.day))]
             G == [i \in DOMAIN granted |->
                  NewLot(granted[i], "monthly",
                         Started(t.read[granted[i]], t.day).monthly, MonthOf(t.day))]
  <1>7. lots' = E \o C \o G
    BY <1>5
  <1>8. E = RowsExpired(day)
    <2> HIDE DEF leftOf
    <2> QED
      BY <1>4 DEF RowsExpired
  <1>9. carried = SetToSeq(CarriersOn(day))
    <2> HIDE DEF leftOf
    <2>1. {l \in LotIds : leftOf(l) > 0 /\ Carry(lots[l], leftOf(l)) > 0} = CarriersOn(day)
      BY <1>4 DEF CarriersOn
    <2> QED
      BY <2>1
  <1>10. C = RowsCarried(day, carried)
    <2>1. \A i \in DOMAIN carried : carried[i] \in LotIds
      <3>1. CarriersOn(day) \subseteq LotIds /\ IsFiniteSet(CarriersOn(day))
        BY TypedLots, FS_Subset DEF CarriersOn, CreditsInv
      <3> QED
        BY <1>9, <3>1, ListedOnce
    <2> HIDE DEF leftOf, carried
    <2> QED
      BY <1>4, <2>1 DEF RowsCarried
  <1>11. G = RowsGranted(day, SetToSeq(GranteesOn(day)))
    BY <1>3 DEF RowsGranted
  <1>12. alloc' = [s \in Subjects |->
                     IF s \in Allocated THEN StartedRow(alloc[s], alloc[s], day) ELSE alloc[s]]
    BY <1>3, <1>6 DEF Allocated
  <1> HIDE DEF E, C, G, carried
  <1> QED
    BY <1>1, <1>7, <1>8, <1>9, <1>10, <1>11, <1>12

\* A lot of which something is carried over is a monthly one, and alive.
LEMMA CarriersAreAlive ==
    ASSUME CreditsInv, NEW day \in Days, NEW l \in CarriersOn(day)
    PROVE  /\ l \in LotIds /\ Alive(l) /\ lots[l].subject \in Subjects
           /\ lots[l].remaining > 0 /\ lots[l].month < MonthOf(day)
           /\ Carry(lots[l], LeftOn(day)[l]) \in Nat /\ Carry(lots[l], LeftOn(day)[l]) <= RolloverCap
  <1>1. TypeOK /\ LotsInv
    BY DEF CreditsInv
  <1>2. /\ l \in LotIds /\ LeftOn(day)[l] > 0 /\ Carry(lots[l], LeftOn(day)[l]) > 0
    BY DEF CarriersOn
  <1>3. /\ lots[l].remaining \in Nat /\ lots[l].granted \in Nat /\ lots[l].expired \in Nat
        /\ lots[l].subject \in Subjects /\ l \in Nat
    BY <1>1, <1>2, TypedLots
  <1>4. LeftOn(day)[l] = lots[l].remaining /\ lots[l].remaining > 0
    BY <1>2, <1>3 DEF LeftOn
  <1>11. lots[l].month < MonthOf(day)
    BY <1>2, <1>3 DEF LeftOn, Finished
  <1>5. lots[l].source = "monthly"
    BY <1>2 DEF Carry
  <1>6. Carry(lots[l], LeftOn(day)[l]) \in Nat /\ Carry(lots[l], LeftOn(day)[l]) <= RolloverCap
    BY <1>3, <1>4, <1>5, CreditsAreCounted DEF Carry
  <1> DEFINE f == [b \in Charges |-> Draw(b, l)]
  <1>7. \A b \in Charges : f[b] \in Nat
    BY <1>1, <1>3, TypedDraws
  <1>8. lots[l].remaining = lots[l].granted - lots[l].expired - SumFunctionOnSet(f, Charges)
    BY <1>1, <1>2 DEF LotsInv, LedgerExplainsLots
  <1> HIDE DEF f
  <1>9. SumFunctionOnSet(f, Charges) \in Nat
    BY <1>7, Countable, SumsAreNumbers
  <1>10. lots[l].granted > 0
    BY <1>3, <1>4, <1>8, <1>9
  <1> QED
    BY <1>2, <1>3, <1>4, <1>5, <1>6, <1>10, <1>11 DEF Alive, Dead, MonthlyLot

LEMMA CarriedRows ==
    ASSUME CreditsInv, NEW day \in Days
    PROVE  LET C == RowsCarried(day, SetToSeq(CarriersOn(day)))
           IN /\ C \in Seq(Lot)
              /\ \A i \in 1..Len(C) :
                    /\ C[i].source = "rollover" /\ C[i].month = MonthOf(day)
                    /\ C[i].remaining = C[i].granted /\ C[i].expired = 0
                    /\ C[i].granted <= RolloverCap
                    /\ \E l \in CarriersOn(day) : C[i].subject = lots[l].subject
              /\ \A i, j \in 1..Len(C) : C[i].subject = C[j].subject => i = j
  <1> DEFINE from == SetToSeq(CarriersOn(day))
             C == RowsCarried(day, from)
             row(i) == NewLot(lots[from[i]].subject, "rollover",
                              Carry(lots[from[i]], LeftOn(day)[from[i]]), MonthOf(day))
  <1>1. TypeOK /\ LotsInv /\ MonthOf(day) \in Months
    BY MonthsOfDays DEF CreditsInv
  <1>2. CarriersOn(day) \subseteq LotIds /\ IsFiniteSet(CarriersOn(day))
    BY <1>1, TypedLots, FS_Subset DEF CarriersOn
  <1>3. /\ Len(from) \in Nat /\ DOMAIN from = 1..Len(from)
        /\ \A i \in 1..Len(from) : from[i] \in CarriersOn(day)
        /\ \A i, j \in 1..Len(from) : from[i] = from[j] => i = j
    BY <1>2, ListedOnce
  <1> HIDE DEF from
  <1>4. C = [i \in 1..Len(from) |-> row(i)]
    BY <1>3 DEF RowsCarried
  <1>5. ASSUME NEW i \in 1..Len(from)
        PROVE  /\ C[i] \in Lot /\ C[i].subject = lots[from[i]].subject
               /\ C[i].source = "rollover" /\ C[i].month = MonthOf(day)
               /\ C[i].remaining = C[i].granted /\ C[i].expired = 0 /\ C[i].granted <= RolloverCap
               /\ from[i] \in CarriersOn(day) /\ from[i] \in LotIds /\ Alive(from[i])
    <2>1. /\ from[i] \in CarriersOn(day) /\ from[i] \in LotIds /\ Alive(from[i])
          /\ lots[from[i]].subject \in Subjects
          /\ Carry(lots[from[i]], LeftOn(day)[from[i]]) \in Nat
          /\ Carry(lots[from[i]], LeftOn(day)[from[i]]) <= RolloverCap
      BY <1>3, CarriersAreAlive
    <2>2. C[i] = row(i)
      BY <1>4
    <2> HIDE DEF C
    <2>3. /\ C[i] \in Lot /\ C[i].subject = lots[from[i]].subject
          /\ C[i].source = "rollover" /\ C[i].month = MonthOf(day)
          /\ C[i].granted = Carry(lots[from[i]], LeftOn(day)[from[i]])
          /\ C[i].remaining = C[i].granted /\ C[i].expired = 0
      BY <1>1, <2>1, <2>2, NewLotIsLot
    <2> QED
      BY <2>1, <2>3
  <1>6. C = [i \in 1..Len(from) |-> C[i]]
    BY <1>4
  <1> HIDE DEF C
  <1>7. C \in Seq(Lot) /\ Len(C) = Len(from)
    <2>1. \A i \in 1..Len(from) : C[i] \in Lot
      BY <1>5
    <2>2. C \in [1..Len(from) -> Lot]
      BY <1>6, <2>1
    <2> QED
      BY <1>3, <2>2, LenProperties, SeqDef
  <1>8. \A i, j \in 1..Len(C) : C[i].subject = C[j].subject => i = j
    <2> SUFFICES ASSUME NEW i \in 1..Len(C), NEW j \in 1..Len(C), C[i].subject = C[j].subject
                 PROVE  i = j
      OBVIOUS
    <2>1. /\ Alive(from[i]) /\ Alive(from[j]) /\ from[i] \in LotIds /\ from[j] \in LotIds
          /\ lots[from[i]].subject = lots[from[j]].subject
      BY <1>5, <1>7
    <2>2. from[i] = from[j]
      BY <1>1, <2>1 DEF LotsInv, OneAlive
    <2> QED
      BY <1>3, <1>7, <2>2
  <1>9. \A i \in 1..Len(C) :
            /\ C[i].source = "rollover" /\ C[i].month = MonthOf(day)
            /\ C[i].remaining = C[i].granted /\ C[i].expired = 0
            /\ C[i].granted <= RolloverCap
            /\ \E l \in CarriersOn(day) : C[i].subject = lots[l].subject
    <2> SUFFICES ASSUME NEW i \in 1..Len(C)
                 PROVE  /\ C[i].source = "rollover" /\ C[i].month = MonthOf(day)
                        /\ C[i].remaining = C[i].granted /\ C[i].expired = 0
                        /\ C[i].granted <= RolloverCap
                        /\ \E l \in CarriersOn(day) : C[i].subject = lots[l].subject
      OBVIOUS
    <2> QED
      BY <1>5, <1>7
  <1>10. C = RowsCarried(day, SetToSeq(CarriersOn(day)))
    BY DEF C, from
  <1> QED
    BY <1>7, <1>8, <1>9, <1>10

LEMMA GrantedRows ==
    ASSUME CreditsInv, NEW day \in Days
    PROVE  LET G == RowsGranted(day, SetToSeq(GranteesOn(day)))
           IN /\ G \in Seq(Lot)
              /\ \A i \in 1..Len(G) :
                    /\ G[i].source = "monthly" /\ G[i].month = MonthOf(day)
                    /\ G[i].remaining = G[i].granted /\ G[i].expired = 0
                    /\ G[i].subject \in GranteesOn(day)
              /\ \A i, j \in 1..Len(G) : G[i].subject = G[j].subject => i = j
  <1> DEFINE to == SetToSeq(GranteesOn(day))
             G == RowsGranted(day, to)
             credits(s) == Started(alloc[s], day).monthly
  <1>1. TypeOK /\ MonthOf(day) \in Months
    BY MonthsOfDays DEF CreditsInv
  <1>2. GranteesOn(day) \subseteq Subjects /\ IsFiniteSet(GranteesOn(day))
    <2>1. GranteesOn(day) \subseteq Subjects
      BY DEF GranteesOn, Allocated
    <2> QED
      BY <2>1, Countable, FS_Subset
  <1>3. /\ Len(to) \in Nat /\ DOMAIN to = 1..Len(to)
        /\ \A i \in 1..Len(to) : to[i] \in GranteesOn(day)
        /\ \A i, j \in 1..Len(to) : to[i] = to[j] => i = j
    BY <1>2, ListedOnce
  <1>4. \A s \in GranteesOn(day) : credits(s) \in Nat
    <2> SUFFICES ASSUME NEW s \in GranteesOn(day) PROVE credits(s) \in Nat
      OBVIOUS
    <2>1. alloc[s].monthly \in Nat /\ alloc[s].pending.to \in Nat
      BY <1>1, TypedAllocations DEF GranteesOn
    <2> QED
      BY <2>1 DEF Started
  <1> HIDE DEF to, credits
  <1>5. G = [i \in 1..Len(to) |-> NewLot(to[i], "monthly", credits(to[i]), MonthOf(day))]
    BY <1>3 DEF RowsGranted, credits
  <1>6. ASSUME NEW i \in 1..Len(to)
        PROVE  /\ G[i] \in Lot /\ G[i].subject = to[i]
               /\ G[i].source = "monthly" /\ G[i].month = MonthOf(day)
               /\ G[i].remaining = G[i].granted /\ G[i].expired = 0
               /\ to[i] \in GranteesOn(day)
    <2>1. to[i] \in GranteesOn(day) /\ to[i] \in Subjects /\ credits(to[i]) \in Nat
      BY <1>2, <1>3, <1>4
    <2>2. G[i] = NewLot(to[i], "monthly", credits(to[i]), MonthOf(day))
      BY <1>5
    <2> HIDE DEF G
    <2> QED
      BY <1>1, <2>1, <2>2, NewLotIsLot
  <1>7. G = [i \in 1..Len(to) |-> G[i]]
    BY <1>5
  <1> HIDE DEF G
  <1>8. G \in Seq(Lot) /\ Len(G) = Len(to)
    <2>1. \A i \in 1..Len(to) : G[i] \in Lot
      BY <1>6
    <2>2. G \in [1..Len(to) -> Lot]
      BY <1>7, <2>1
    <2> QED
      BY <1>3, <2>2, LenProperties, SeqDef
  <1>9. \A i \in 1..Len(G) :
            /\ G[i].source = "monthly" /\ G[i].month = MonthOf(day)
            /\ G[i].remaining = G[i].granted /\ G[i].expired = 0
            /\ G[i].subject \in GranteesOn(day) /\ G[i].subject = to[i]
    <2> SUFFICES ASSUME NEW i \in 1..Len(G)
                 PROVE  /\ G[i].source = "monthly" /\ G[i].month = MonthOf(day)
                        /\ G[i].remaining = G[i].granted /\ G[i].expired = 0
                        /\ G[i].subject \in GranteesOn(day) /\ G[i].subject = to[i]
      OBVIOUS
    <2> QED
      BY <1>6, <1>8
  <1>10. \A i, j \in 1..Len(G) : G[i].subject = G[j].subject => i = j
    BY <1>3, <1>8, <1>9
  <1>11. G = RowsGranted(day, SetToSeq(GranteesOn(day)))
    BY DEF G, to
  <1> QED
    BY <1>8, <1>9, <1>10, <1>11

LEMMA ExpiredRows ==
    ASSUME TypeOK, NEW day \in Days
    PROVE  LET E == RowsExpired(day)
           IN /\ E \in Seq(Lot) /\ Len(E) = Len(lots)
              /\ \A l \in LotIds :
                    /\ E[l].subject = lots[l].subject /\ E[l].source = lots[l].source
                    /\ E[l].month = lots[l].month /\ E[l].granted = lots[l].granted
                    /\ E[l].remaining + E[l].expired = lots[l].remaining + lots[l].expired
                    /\ E[l].remaining <= lots[l].remaining
                    /\ lots[l].month < MonthOf(day) => E[l].remaining = 0
  <1> DEFINE E == RowsExpired(day)
  <1>1. Len(lots) \in Nat /\ E = [l \in 1..Len(lots) |-> E[l]]
    BY TypedLots DEF RowsExpired, LotIds
  <1>2. ASSUME NEW l \in LotIds
        PROVE  /\ E[l] \in Lot
               /\ E[l].subject = lots[l].subject /\ E[l].source = lots[l].source
               /\ E[l].month = lots[l].month /\ E[l].granted = lots[l].granted
               /\ E[l].remaining + E[l].expired = lots[l].remaining + lots[l].expired
               /\ E[l].remaining <= lots[l].remaining
               /\ lots[l].month < MonthOf(day) => E[l].remaining = 0
    <2> DEFINE left == LeftOn(day)[l]
    <2>1. /\ lots[l] \in Lot /\ lots[l].remaining \in Nat /\ lots[l].expired \in Nat
      BY TypedLots
    <2>2. left = (IF Finished(lots[l], day) THEN lots[l].remaining ELSE 0)
      BY DEF LeftOn
    <2>3. E[l] = Expire(lots[l], left)
      BY DEF RowsExpired
    <2> HIDE DEF left, E
    <2>4. CASE Finished(lots[l], day)
      <3>1. left = lots[l].remaining /\ left > 0 /\ left \in Nat
        BY <2>1, <2>2, <2>4 DEF Finished
      <3>2. E[l] = [lots[l] EXCEPT !.remaining = 0, !.expired = lots[l].expired + left]
        BY <2>3, <3>1 DEF Expire
      <3> DEFINE sum == lots[l].expired + left
      <3>3. sum \in Nat
        BY <2>1, <3>1
      <3>4. E[l] = [lots[l] EXCEPT !.remaining = 0, !.expired = sum]
        BY <3>2
      <3>7. sum = lots[l].expired + lots[l].remaining
        BY <3>1
      <3> HIDE DEF sum
      <3>5. /\ E[l] \in Lot /\ E[l].remaining = 0 /\ E[l].expired = sum
            /\ E[l].subject = lots[l].subject /\ E[l].source = lots[l].source
            /\ E[l].month = lots[l].month /\ E[l].granted = lots[l].granted
        <4> DEFINE half == [lots[l] EXCEPT !.remaining = 0]
        <4>1. /\ half \in Lot /\ half.remaining = 0 /\ half.subject = lots[l].subject
              /\ half.source = lots[l].source /\ half.month = lots[l].month
              /\ half.granted = lots[l].granted
          BY <2>1 DEF Lot
        <4>2. E[l] = [half EXCEPT !.expired = sum]
          BY <3>4
        <4> HIDE DEF half
        <4> QED
          BY <3>3, <4>1, <4>2 DEF Lot
      <3> QED
        BY <2>1, <3>5, <3>7
    <2>5. CASE ~Finished(lots[l], day)
      <3>1. E[l] = lots[l]
        BY <2>2, <2>3, <2>5 DEF Expire
      <3>2. lots[l].month < MonthOf(day) => lots[l].remaining = 0
        BY <2>1, <2>5 DEF Finished
      <3> QED
        BY <2>1, <3>1, <3>2
    <2> QED
      BY <2>4, <2>5
  <1> HIDE DEF E
  <1>3. E \in Seq(Lot) /\ Len(E) = Len(lots)
    <2>1. E \in [1..Len(lots) -> Lot]
      BY <1>1, <1>2 DEF LotIds
    <2> QED
      BY <1>1, <2>1, LenProperties, SeqDef
  <1>4. E = RowsExpired(day)
    BY DEF E
  <1>5. \A l \in LotIds :
            /\ E[l].subject = lots[l].subject /\ E[l].source = lots[l].source
            /\ E[l].month = lots[l].month /\ E[l].granted = lots[l].granted
            /\ E[l].remaining + E[l].expired = lots[l].remaining + lots[l].expired
            /\ E[l].remaining <= lots[l].remaining
            /\ lots[l].month < MonthOf(day) => E[l].remaining = 0
    BY <1>2
  <1> QED
    BY <1>3, <1>4, <1>5

\* L is A, then B, then C.
Joined(S, A, B, C, L) ==
    /\ L \in Seq(S) /\ Len(A) \in Nat /\ Len(B) \in Nat /\ Len(L) \in Nat /\ Len(A) <= Len(L)
    /\ \A i \in 1..Len(A) : L[i] = A[i]
    /\ \A k \in 1..Len(L) : k \notin 1..Len(A) =>
          \/ \E i \in 1..Len(B) : k = Len(A) + i /\ L[k] = B[i]
          \/ \E i \in 1..Len(C) : k = Len(A) + Len(B) + i /\ L[k] = C[i]

LEMMA ThreeParts ==
    ASSUME NEW S, NEW A \in Seq(S), NEW B \in Seq(S), NEW C \in Seq(S)
    PROVE  Joined(S, A, B, C, A \o B \o C)
  <1> DEFINE D == A \o B
  <1>1. /\ D \in Seq(S) /\ Len(D) = Len(A) + Len(B) /\ Len(A) \in Nat /\ Len(B) \in Nat
        /\ \A i \in 1..Len(A) : D[i] = A[i]
        /\ \A k \in 1..Len(D) :
              k \notin 1..Len(A) => k - Len(A) \in 1..Len(B) /\ D[k] = B[k - Len(A)]
    BY TwoParts
  <1>2. PICK L : L = A \o B \o C /\ L = D \o C
    OBVIOUS
  <1> HIDE DEF D
  <1>3. /\ L \in Seq(S) /\ Len(L) = Len(D) + Len(C) /\ Len(C) \in Nat
        /\ \A i \in 1..Len(D) : L[i] = D[i]
        /\ \A k \in 1..Len(L) :
              k \notin 1..Len(D) => k - Len(D) \in 1..Len(C) /\ L[k] = C[k - Len(D)]
    <2>1. D \in Seq(S)
      BY <1>1
    <2>2. /\ D \o C \in Seq(S) /\ Len(D \o C) = Len(D) + Len(C) /\ Len(C) \in Nat
          /\ \A i \in 1..Len(D) : (D \o C)[i] = D[i]
          /\ \A k \in 1..Len(D \o C) :
                k \notin 1..Len(D) => k - Len(D) \in 1..Len(C) /\ (D \o C)[k] = C[k - Len(D)]
      BY <2>1, TwoParts
    <2> QED
      BY <1>2, <2>2
  <1>4. \A i \in 1..Len(A) : L[i] = A[i]
    BY <1>1, <1>3
  <1>5. ASSUME NEW k \in 1..Len(L), k \notin 1..Len(A)
        PROVE  \/ \E i \in 1..Len(B) : k = Len(A) + i /\ L[k] = B[i]
               \/ \E i \in 1..Len(C) : k = Len(A) + Len(B) + i /\ L[k] = C[i]
    <2>1. CASE k \in 1..Len(D)
      <3>1. k - Len(A) \in 1..Len(B) /\ L[k] = B[k - Len(A)] /\ k = Len(A) + (k - Len(A))
        BY <1>1, <1>3, <1>5, <2>1
      <3> QED
        BY <3>1
    <2>2. CASE k \notin 1..Len(D)
      <3>1. k - Len(D) \in 1..Len(C) /\ L[k] = C[k - Len(D)] /\ k = Len(A) + Len(B) + (k - Len(D))
        BY <1>1, <1>3, <1>5, <2>2
      <3> QED
        BY <3>1
    <2> QED
      BY <2>1, <2>2
  <1>6. Len(L) \in Nat /\ Len(A) <= Len(L)
    BY <1>1, <1>3
  <1>7. Joined(S, A, B, C, L)
    BY <1>1, <1>3, <1>4, <1>5, <1>6 DEF Joined
  <1> QED
    BY <1>2, <1>7

\* What the job leaves of the lots there were, and the lots it adds.
LEMMA CycleRows ==
    ASSUME CreditsInv, NEW p \in Crons, CycleCommit(p), NEW day \in Days, day = task[p].day
    PROVE  /\ lots' \in Seq(Lot) /\ LotIds \subseteq LotIds' /\ Len(lots) <= Len(lots')
           /\ Len(lots) \in Nat /\ Len(lots') \in Nat
           /\ \A l \in LotIds :
                 /\ lots'[l].subject = lots[l].subject /\ lots'[l].source = lots[l].source
                 /\ lots'[l].month = lots[l].month /\ lots'[l].granted = lots[l].granted
                 /\ lots'[l].remaining + lots'[l].expired = lots[l].remaining + lots[l].expired
                 /\ lots'[l].remaining <= lots[l].remaining
                 /\ lots[l].month < MonthOf(day) => lots'[l].remaining = 0
           /\ \A k \in LotIds' : k \notin LotIds =>
                 /\ k \in Nat /\ k > Len(lots) /\ lots'[k].month = MonthOf(day)
                 /\ lots'[k].remaining = lots'[k].granted /\ lots'[k].expired = 0
                 /\ \/ lots'[k].source = "monthly" /\ lots'[k].subject \in GranteesOn(day)
                    \/ /\ lots'[k].source = "rollover" /\ lots'[k].granted <= RolloverCap
                       /\ \E l \in CarriersOn(day) : lots'[k].subject = lots[l].subject
           /\ \A j, k \in LotIds' :
                 /\ j \notin LotIds /\ k \notin LotIds
                 /\ lots'[j].source = lots'[k].source /\ lots'[j].subject = lots'[k].subject
                 => j = k
  <1> DEFINE E == RowsExpired(day)
             C == RowsCarried(day, SetToSeq(CarriersOn(day)))
             G == RowsGranted(day, SetToSeq(GranteesOn(day)))
  <1>1. lots' = E \o C \o G
    BY CycleWrites
  <1>2. /\ E \in Seq(Lot) /\ Len(E) = Len(lots)
        /\ \A l \in LotIds :
              /\ E[l].subject = lots[l].subject /\ E[l].source = lots[l].source
              /\ E[l].month = lots[l].month /\ E[l].granted = lots[l].granted
              /\ E[l].remaining + E[l].expired = lots[l].remaining + lots[l].expired
              /\ E[l].remaining <= lots[l].remaining
              /\ lots[l].month < MonthOf(day) => E[l].remaining = 0
    BY ExpiredRows DEF CreditsInv
  <1>3. /\ C \in Seq(Lot)
        /\ \A i \in 1..Len(C) :
              /\ C[i].source = "rollover" /\ C[i].month = MonthOf(day)
              /\ C[i].remaining = C[i].granted /\ C[i].expired = 0
              /\ C[i].granted <= RolloverCap
              /\ \E l \in CarriersOn(day) : C[i].subject = lots[l].subject
        /\ \A i, j \in 1..Len(C) : C[i].subject = C[j].subject => i = j
    BY CarriedRows
  <1>4. /\ G \in Seq(Lot)
        /\ \A i \in 1..Len(G) :
              /\ G[i].source = "monthly" /\ G[i].month = MonthOf(day)
              /\ G[i].remaining = G[i].granted /\ G[i].expired = 0
              /\ G[i].subject \in GranteesOn(day)
        /\ \A i, j \in 1..Len(G) : G[i].subject = G[j].subject => i = j
    BY GrantedRows
  <1> HIDE DEF E, C, G
  <1>5. /\ lots' \in Seq(Lot) /\ Len(E) \in Nat /\ Len(C) \in Nat /\ Len(lots') \in Nat
        /\ Len(E) <= Len(lots')
        /\ \A i \in 1..Len(E) : lots'[i] = E[i]
        /\ \A k \in 1..Len(lots') : k \notin 1..Len(E) =>
              \/ \E i \in 1..Len(C) : k = Len(E) + i /\ lots'[k] = C[i]
              \/ \E i \in 1..Len(G) : k = Len(E) + Len(C) + i /\ lots'[k] = G[i]
    <2>1. PICK L : L = lots'
      OBVIOUS
    <2>2. E \in Seq(Lot) /\ C \in Seq(Lot) /\ G \in Seq(Lot) /\ L = E \o C \o G
      BY <1>1, <1>2, <1>3, <1>4, <2>1
    <2>3. /\ L \in Seq(Lot) /\ Len(E) \in Nat /\ Len(C) \in Nat /\ Len(L) \in Nat
          /\ Len(E) <= Len(L)
          /\ \A i \in 1..Len(E) : L[i] = E[i]
          /\ \A k \in 1..Len(L) : k \notin 1..Len(E) =>
                \/ \E i \in 1..Len(C) : k = Len(E) + i /\ L[k] = C[i]
                \/ \E i \in 1..Len(G) : k = Len(E) + Len(C) + i /\ L[k] = G[i]
      <3>1. Joined(Lot, E, C, G, E \o C \o G)
        BY <2>2, ThreeParts
      <3>2. Joined(Lot, E, C, G, L)
        BY <2>2, <3>1
      <3> QED
        BY <3>2 DEF Joined
    <2> QED
      BY <2>1, <2>3
  <1>6. LotIds = 1..Len(E) /\ LotIds' = 1..Len(lots')
    BY <1>2 DEF LotIds
  <1>7. LotIds \subseteq LotIds'
    BY <1>5, <1>6
  <1>8. \A k \in LotIds' : k \notin LotIds =>
           \/ \E i \in 1..Len(C) : k = Len(E) + i /\ lots'[k] = C[i]
           \/ \E i \in 1..Len(G) : k = Len(E) + Len(C) + i /\ lots'[k] = G[i]
    BY <1>5, <1>6
  <1>9. ASSUME NEW k \in LotIds', k \notin LotIds
        PROVE  /\ k \in Nat /\ k > Len(lots) /\ lots'[k].month = MonthOf(day)
               /\ lots'[k].remaining = lots'[k].granted /\ lots'[k].expired = 0
               /\ \/ lots'[k].source = "monthly" /\ lots'[k].subject \in GranteesOn(day)
                  \/ /\ lots'[k].source = "rollover" /\ lots'[k].granted <= RolloverCap
                     /\ \E l \in CarriersOn(day) : lots'[k].subject = lots[l].subject
    <2>1. k \in Nat /\ k > Len(lots)
      BY <1>2, <1>5, <1>6, <1>9
    <2>2. CASE \E i \in 1..Len(C) : k = Len(E) + i /\ lots'[k] = C[i]
      BY <1>3, <2>1, <2>2
    <2>3. CASE \E i \in 1..Len(G) : k = Len(E) + Len(C) + i /\ lots'[k] = G[i]
      BY <1>4, <2>1, <2>3
    <2> QED
      BY <1>8, <1>9, <2>2, <2>3
  <1>10. ASSUME NEW j \in LotIds', NEW k \in LotIds', j \notin LotIds, k \notin LotIds,
                lots'[j].source = lots'[k].source, lots'[j].subject = lots'[k].subject
         PROVE  j = k
    <2>1. CASE lots'[j].source = "rollover"
      <3>1. \A i \in 1..Len(G) : G[i].source # "rollover"
        BY <1>4
      <3>2. PICK a \in 1..Len(C) : j = Len(E) + a /\ lots'[j] = C[a]
        BY <1>8, <1>10, <2>1, <3>1
      <3>3. PICK b \in 1..Len(C) : k = Len(E) + b /\ lots'[k] = C[b]
        BY <1>8, <1>10, <2>1, <3>1
      <3>4. a = b
        BY <1>3, <1>10, <3>2, <3>3
      <3> QED
        BY <3>2, <3>3, <3>4
    <2>2. CASE lots'[j].source # "rollover"
      <3>1. \A i \in 1..Len(C) : C[i].source = "rollover"
        BY <1>3
      <3>2. PICK a \in 1..Len(G) : j = Len(E) + Len(C) + a /\ lots'[j] = G[a]
        BY <1>8, <1>10, <2>2, <3>1
      <3>3. PICK b \in 1..Len(G) : k = Len(E) + Len(C) + b /\ lots'[k] = G[b]
        BY <1>8, <1>10, <2>2, <3>1
      <3>4. a = b
        BY <1>4, <1>10, <3>2, <3>3
      <3> QED
        BY <3>2, <3>3, <3>4
    <2> QED
      BY <2>1, <2>2
  <1>11. \A l \in LotIds : lots'[l] = E[l]
    BY <1>5, <1>6
  <1>12. Len(lots) <= Len(lots') /\ Len(lots) \in Nat
    BY <1>2, <1>5
  <1> QED
    BY <1>2, <1>5, <1>7, <1>9, <1>10, <1>11, <1>12

\* The pending changes that are due start, and what is promised stays as it was.
LEMMA CycleAllocations ==
    ASSUME TypeOK, NEW day \in Days,
           alloc' = [s \in Subjects |->
                       IF s \in Allocated THEN StartedRow(alloc[s], alloc[s], day) ELSE alloc[s]]
    PROVE  /\ alloc' \in [Subjects -> Allocation \union {NoAllocation}]
           /\ Allocated' = Allocated
           /\ \A s \in Allocated :
                 \/ Due(alloc[s], day) /\ alloc'[s].monthly = alloc[s].pending.to
                    /\ alloc'[s].pending = NoChange
                 \/ ~Due(alloc[s], day) /\ alloc'[s] = alloc[s]
           /\ \A s \in Allocated : alloc'[s].monthly = Started(alloc[s], day).monthly
           /\ \A s \in Subjects : PromisedTo(s)' = PromisedTo(s)
  <1>1. \A s \in Subjects : alloc'[s] = IF s \in Allocated THEN StartedRow(alloc[s], alloc[s], day) ELSE alloc[s]
    OBVIOUS
  <1>2. ASSUME NEW s \in Allocated
        PROVE  /\ alloc'[s] \in Allocation
               /\ \/ /\ Due(alloc[s], day) /\ alloc'[s].monthly = alloc[s].pending.to
                     /\ alloc'[s].pending = NoChange /\ alloc[s].pending # NoChange
                  \/ ~Due(alloc[s], day) /\ alloc'[s] = alloc[s]
    <2>1. /\ s \in Subjects /\ alloc[s] \in Allocation /\ alloc[s].monthly \in Nat
          /\ alloc[s].pending.to \in Nat
      BY TypedAllocations
    <2>2. alloc'[s] = StartedRow(alloc[s], alloc[s], day)
      BY <1>1, <2>1
    <2>3. CASE Due(alloc[s], day)
      <3>1. alloc'[s] = [monthly |-> alloc[s].pending.to, pending |-> NoChange]
        BY <2>2, <2>3 DEF StartedRow
      <3>2. alloc[s].pending # NoChange
        BY <2>3, DueIsAChange
      <3> QED
        BY <2>1, <2>3, <3>1, <3>2 DEF Allocation
    <2>4. CASE ~Due(alloc[s], day)
      BY <2>1, <2>2, <2>4 DEF StartedRow
    <2> QED
      BY <2>3, <2>4
  <1>3. alloc' \in [Subjects -> Allocation \union {NoAllocation}]
    <2>1. \A s \in Subjects : alloc'[s] \in Allocation \union {NoAllocation}
      BY <1>1, <1>2 DEF Allocated
    <2> QED
      BY <2>1
  <1>4. Allocated' = Allocated
    BY <1>1, <1>2, AllocationsAreSome DEF Allocated
  <1>5. \A s \in Allocated : alloc'[s].monthly = Started(alloc[s], day).monthly
    BY <1>2 DEF Started
  <1>6. \A s \in Subjects : PromisedTo(s)' = PromisedTo(s)
    BY <1>2, <1>4 DEF PromisedTo
  <1> QED
    BY <1>2, <1>3, <1>4, <1>5, <1>6

LEMMA CycleCommits ==
    ASSUME CreditsInv, NEW p \in Crons, CycleCommit(p)
    PROVE  CreditsInv'
  <1>0. PICK day : day = task[p].day
    OBVIOUS
  <1>1. /\ p \in Procs /\ task[p].at = "cycling" /\ Done(p) /\ UNCHANGED <<today, drawn>>
        /\ alloc' = [s \in Subjects |->
                       IF s \in Allocated THEN StartedRow(alloc[s], alloc[s], day) ELSE alloc[s]]
    BY <1>0, CycleWrites
  <1>2. /\ task[p] # Idle /\ StillSo(task[p]) /\ TypeOK /\ LotsInv
        /\ day \in Days /\ MonthOf(day) \in Months
        /\ MonthOf(day) <= MonthOf(today) /\ MonthOf(day) \in Nat /\ MonthOf(today) \in Nat
    BY <1>0, <1>1, TaskAgrees
  <1>3. PICK m \in Nat : m = MonthOf(day)
    BY <1>2
  <1>4. /\ m <= MonthOf(today) /\ MonthOf(today) \in Nat /\ \A l \in LotIds : lots[l].month <= m
    BY <1>0, <1>2, <1>3 DEF StillSo
  <1>5. /\ lots' \in Seq(Lot) /\ LotIds \subseteq LotIds' /\ Len(lots) <= Len(lots')
        /\ Len(lots) \in Nat /\ Len(lots') \in Nat
        /\ \A l \in LotIds :
              /\ lots'[l].subject = lots[l].subject /\ lots'[l].source = lots[l].source
              /\ lots'[l].month = lots[l].month /\ lots'[l].granted = lots[l].granted
              /\ lots'[l].remaining + lots'[l].expired = lots[l].remaining + lots[l].expired
              /\ lots'[l].remaining <= lots[l].remaining
              /\ lots[l].month < m => lots'[l].remaining = 0
        /\ \A k \in LotIds' : k \notin LotIds =>
              /\ k \in Nat /\ k > Len(lots) /\ lots'[k].month = m
              /\ lots'[k].remaining = lots'[k].granted /\ lots'[k].expired = 0
              /\ \/ lots'[k].source = "monthly" /\ lots'[k].subject \in GranteesOn(day)
                 \/ /\ lots'[k].source = "rollover" /\ lots'[k].granted <= RolloverCap
                    /\ \E l \in CarriersOn(day) : lots'[k].subject = lots[l].subject
        /\ \A j, k \in LotIds' :
              /\ j \notin LotIds /\ k \notin LotIds
              /\ lots'[j].source = lots'[k].source /\ lots'[j].subject = lots'[k].subject
              => j = k
    BY <1>0, <1>2, <1>3, CycleRows
  <1>6. /\ alloc' \in [Subjects -> Allocation \union {NoAllocation}]
        /\ Allocated' = Allocated
        /\ \A s \in Allocated :
              \/ Due(alloc[s], day) /\ alloc'[s].monthly = alloc[s].pending.to
                 /\ alloc'[s].pending = NoChange
              \/ ~Due(alloc[s], day) /\ alloc'[s] = alloc[s]
        /\ \A s \in Allocated : alloc'[s].monthly = Started(alloc[s], day).monthly
        /\ \A s \in Subjects : PromisedTo(s)' = PromisedTo(s)
    BY <1>1, <1>2, CycleAllocations
  <1>7. /\ \A q \in Procs : task'[q] = Idle
        /\ task' \in [Procs -> {Idle} \union AllocateTask \union CycleTask]
    BY <1>1, <1>2, IdleTasks
  <1>8. TypeOK'
    BY <1>1, <1>2, <1>5, <1>6, <1>7 DEF TypeOK
  <1>9. PoolNeverOverAllocated'
    <2>1. Committed' = Committed
      BY <1>6 DEF Committed
    <2> QED
      BY <2>1 DEF CreditsInv, PoolNeverOverAllocated
  <1>10. \A l \in LotIds :
            /\ lots[l].month \in Nat /\ lots[l].remaining \in Nat /\ lots[l].expired \in Nat
            /\ lots[l].granted \in Nat
    BY <1>2, TypedLots
  <1>11. \A l \in LotIds' :
            /\ lots'[l].month \in Nat /\ lots'[l].remaining \in Nat /\ lots'[l].expired \in Nat
            /\ lots'[l].granted \in Nat
    <2>1. Months \subseteq Nat
      BY DEF Months
    <2>2. \A l \in LotIds' : lots'[l] \in Lot
      BY <1>5 DEF LotIds
    <2> QED
      BY <2>1, <2>2 DEF Lot
  <1>12. \A l \in LotIds : /\ MonthlyLot(l)' <=> MonthlyLot(l)
                           /\ RolledLot(l)' <=> RolledLot(l)
    BY <1>5 DEF MonthlyLot, RolledLot
  <1>13. \A l \in LotIds : Alive(l)' => Alive(l)
    <2>1. \A l \in LotIds : Dead(l) => Dead(l)'
      BY <1>1, <1>5, <1>10, <1>11 DEF Dead
    <2> QED
      BY <1>5, <1>12, <2>1 DEF Alive
  <1>14. ASSUME NEW k \in LotIds', k \notin LotIds, MonthlyLot(k)'
         PROVE  /\ lots'[k].subject \in Allocated /\ lots'[k].month = m
                /\ Started(alloc[lots'[k].subject], day).monthly > 0
                /\ \A l \in LotIds : MonthlyLot(l) /\ lots[l].subject = lots'[k].subject
                                     => lots[l].month < m
    <2>1. lots'[k].subject \in GranteesOn(day) /\ lots'[k].month = m
      BY <1>5, <1>14 DEF MonthlyLot
    <2>2. ~MonthlyLotExists(lots'[k].subject, m)
      BY <1>3, <2>1 DEF GranteesOn
    <2>3. \A l \in LotIds : MonthlyLot(l) /\ lots[l].subject = lots'[k].subject => lots[l].month # m
      BY <2>2 DEF MonthlyLotExists, MonthlyLot
    <2>4. \A l \in LotIds : MonthlyLot(l) /\ lots[l].subject = lots'[k].subject => lots[l].month < m
      BY <1>4, <1>10, <2>3
    <2> QED
      BY <2>1, <2>4 DEF GranteesOn
  <1>15. MonthsBegun'
    BY <1>1, <1>4, <1>5, <1>10 DEF MonthsBegun
  <1>16. OneMonthlyLot'
    <2> SUFFICES ASSUME NEW k \in LotIds', NEW l \in LotIds', MonthlyLot(k)', MonthlyLot(l)',
                        lots'[k].subject = lots'[l].subject, lots'[k].month = lots'[l].month
                 PROVE  k = l
      BY DEF OneMonthlyLot, MonthlyLot
    <2>1. CASE k \in LotIds /\ l \in LotIds
      BY <1>2, <1>5, <1>12, <2>1 DEF LotsInv, OneMonthlyLot, MonthlyLot
    <2>2. CASE k \notin LotIds /\ l \notin LotIds
      BY <1>5, <2>2 DEF MonthlyLot
    <2>3. CASE k \notin LotIds /\ l \in LotIds
      BY <1>5, <1>10, <1>12, <1>14, <2>3
    <2>4. CASE k \in LotIds /\ l \notin LotIds
      BY <1>5, <1>10, <1>12, <1>14, <2>4
    <2> QED
      BY <2>1, <2>2, <2>3, <2>4
  <1>17. GrantsAreAllocated'
    <2> SUFFICES ASSUME NEW l \in LotIds', MonthlyLot(l)' PROVE lots'[l].subject \in Allocated
      BY <1>6 DEF GrantsAreAllocated
    <2>1. CASE l \in LotIds
      BY <1>2, <1>5, <1>12, <2>1 DEF LotsInv, GrantsAreAllocated
    <2> QED
      BY <1>14, <2>1
  <1>18. ChangesWait'
    <2> SUFFICES ASSUME NEW s \in Allocated, alloc'[s].pending # NoChange,
                        NEW l \in LotIds', MonthlyLot(l)', lots'[l].subject = s
                 PROVE  lots'[l].month < alloc'[s].pending.from
      BY <1>6 DEF ChangesWait
    <2>1. ~Due(alloc[s], day) /\ alloc'[s] = alloc[s]
      BY <1>6
    <2>2. lots'[l].month <= m
      BY <1>4, <1>5
    <2>3. alloc[s].pending.from \in Nat
      BY <1>2, TypedAllocations
    <2> QED
      BY <1>3, <1>11, <2>1, <2>2, <2>3 DEF Due
  <1>19. ASSUME NEW l \in LotIds, lots[l].month < m PROVE ~Alive(l)'
    <2>1. lots'[l].remaining = 0 /\ lots'[l].month < MonthOf(today)
      BY <1>4, <1>5, <1>10, <1>19
    <2> QED
      BY <1>1, <2>1 DEF Alive, Dead
  <1>20. NothingOfNothing'
    <2> SUFFICES ASSUME NEW s \in Allocated, alloc'[s].monthly = 0,
                        NEW l \in LotIds', lots'[l].subject = s, Alive(l)'
                 PROVE  FALSE
      BY <1>6 DEF NothingOfNothing
    <2>1. MonthlyLot(l)'
      BY DEF Alive
    <2>2. l \in LotIds
      BY <1>6, <1>14, <2>1
    <2>3. MonthlyLot(l) /\ lots[l].subject = s /\ Alive(l)
      BY <1>5, <1>12, <1>13, <2>1, <2>2
    <2>4. CASE Due(alloc[s], day)
      <3>1. /\ alloc[s].pending # NoChange /\ alloc[s].pending.from <= m
            /\ alloc[s].pending.from \in Nat
        BY <1>2, <1>3, <2>4, DueIsAChange, TypedAllocations DEF Due
      <3>2. lots[l].month < m
        BY <1>2, <1>10, <2>2, <2>3, <3>1 DEF LotsInv, ChangesWait
      <3> QED
        BY <1>19, <2>2, <3>2
    <2>5. CASE ~Due(alloc[s], day)
      BY <1>2, <1>6, <2>2, <2>3, <2>5 DEF LotsInv, NothingOfNothing
    <2> QED
      BY <2>4, <2>5
  <1>21. OneAlive'
    <2> SUFFICES ASSUME NEW k \in LotIds', NEW l \in LotIds', Alive(k)', Alive(l)',
                        lots'[k].subject = lots'[l].subject
                 PROVE  k = l
      BY DEF OneAlive
    <2>0. MonthlyLot(k)' /\ MonthlyLot(l)'
      BY DEF Alive
    <2>1. CASE k \in LotIds /\ l \in LotIds
      BY <1>2, <1>5, <1>13, <2>1 DEF LotsInv, OneAlive
    <2>2. CASE k \notin LotIds /\ l \notin LotIds
      BY <1>5, <2>0, <2>2 DEF MonthlyLot
    <2>3. CASE k \notin LotIds /\ l \in LotIds
      BY <1>5, <1>12, <1>14, <1>19, <2>0, <2>3
    <2>4. CASE k \in LotIds /\ l \notin LotIds
      BY <1>5, <1>12, <1>14, <1>19, <2>0, <2>4
    <2> QED
      BY <2>1, <2>2, <2>3, <2>4
  <1>22. CarriedOnce'
    <2>1. \A r \in LotIds' : RolledLot(r)' => lots'[r].granted <= RolloverCap
      <3> SUFFICES ASSUME NEW r \in LotIds', RolledLot(r)' PROVE lots'[r].granted <= RolloverCap
        OBVIOUS
      <3>1. CASE r \in LotIds
        BY <1>2, <1>5, <1>12, <3>1 DEF LotsInv, CarriedOnce
      <3>2. CASE r \notin LotIds
        BY <1>5, <3>2 DEF RolledLot
      <3> QED
        BY <3>1, <3>2
    <2>2. ASSUME NEW q \in LotIds', NEW r \in LotIds', q \notin LotIds, r \in LotIds,
                 RolledLot(q)', RolledLot(r)',
                 lots'[q].subject = lots'[r].subject, lots'[q].month = lots'[r].month
          PROVE  FALSE
      <3>1. PICK l \in CarriersOn(day) : lots'[q].subject = lots[l].subject
        BY <1>5, <2>2 DEF RolledLot
      <3>2. l \in LotIds /\ MonthlyLot(l) /\ lots[l].remaining > 0 /\ lots[l].month < m
        BY <1>2, <1>3, CarriersAreAlive DEF Alive
      <3>3. RolledLot(r) /\ lots[r].subject = lots[l].subject /\ lots[r].month = m
        BY <1>5, <1>12, <2>2, <3>1
      <3>4. lots[l].remaining = 0
        BY <1>2, <2>2, <3>2, <3>3 DEF LotsInv, CarriedOnce
      <3> QED
        BY <3>2, <3>4
    <2>3. \A q, r \in LotIds' :
              RolledLot(q)' /\ RolledLot(r)' /\ lots'[q].subject = lots'[r].subject
              /\ lots'[q].month = lots'[r].month => q = r
      <3> SUFFICES ASSUME NEW q \in LotIds', NEW r \in LotIds', RolledLot(q)', RolledLot(r)',
                          lots'[q].subject = lots'[r].subject, lots'[q].month = lots'[r].month
                   PROVE  q = r
        OBVIOUS
      <3>1. CASE q \in LotIds /\ r \in LotIds
        BY <1>2, <1>5, <1>12, <3>1 DEF LotsInv, CarriedOnce
      <3>2. CASE q \notin LotIds /\ r \notin LotIds
        BY <1>5, <3>2 DEF RolledLot
      <3> QED
        BY <2>2, <3>1, <3>2
    <2>4. ASSUME NEW r \in LotIds', NEW l \in LotIds', RolledLot(r)', MonthlyLot(l)',
                 lots'[r].subject = lots'[l].subject, lots'[l].month < lots'[r].month
          PROVE  lots'[l].remaining = 0
      <3>1. lots'[r].month <= m
        BY <1>4, <1>5
      <3>2. lots'[l].month < m
        BY <1>11, <2>4, <3>1
      <3>3. l \in LotIds
        BY <1>5, <3>2
      <3> QED
        BY <1>5, <3>2, <3>3
    <2> QED
      BY <2>1, <2>3, <2>4 DEF CarriedOnce
  <1>23. LedgerExplainsLots'
    <2> SUFFICES ASSUME NEW l \in LotIds'
                 PROVE  lots'[l].remaining = lots'[l].granted - lots'[l].expired
                                             - SumFunctionOnSet([b \in Charges |-> Draw(b, l)], Charges)
      BY <1>1 DEF LedgerExplainsLots, Draw
    <2>1. CASE l \in LotIds
      <3> DEFINE f == [b \in Charges |-> Draw(b, l)]
      <3>1. lots[l].remaining = lots[l].granted - lots[l].expired - SumFunctionOnSet(f, Charges)
        BY <1>2, <2>1 DEF LotsInv, LedgerExplainsLots
      <3>2. \A b \in Charges : f[b] \in Nat
        BY <1>2, <2>1, TypedLots, TypedDraws
      <3> HIDE DEF f
      <3>3. SumFunctionOnSet(f, Charges) \in Nat
        BY <3>2, Countable, SumsAreNumbers
      <3>4. lots'[l].remaining = lots'[l].granted - lots'[l].expired - SumFunctionOnSet(f, Charges)
        <4>1. /\ lots'[l].granted = lots[l].granted
              /\ lots'[l].remaining + lots'[l].expired = lots[l].remaining + lots[l].expired
          BY <1>5, <2>1
        <4>2. /\ lots[l].remaining \in Nat /\ lots[l].expired \in Nat /\ lots[l].granted \in Nat
              /\ lots'[l].remaining \in Nat /\ lots'[l].expired \in Nat
          BY <1>10, <1>11, <2>1
        <4> QED
          BY <3>1, <3>3, <4>1, <4>2
      <3> QED
        BY <3>4 DEF f
    <2>2. CASE l \notin LotIds
      <3>1. l \in Nat /\ l > Len(lots)
        BY <1>5, <2>2
      <3>2. \A b \in Charges : Draw(b, l) = 0
        BY <1>2, <3>1, TypedDraws DEF LotsInv
      <3>3. SumFunctionOnSet([b \in Charges |-> Draw(b, l)], Charges) = 0
        BY <1>2, <3>1, <3>2, NothingDrawnIsNothing
      <3> QED
        BY <1>5, <1>11, <2>2, <3>3
    <2> QED
      BY <2>1, <2>2
  <1>24. DrawnOfLots'
    <2>1. \A b \in Charges : Len(drawn[b]) \in Nat
      BY <1>2 DEF TypeOK
    <2> QED
      BY <1>1, <1>2, <1>5, <2>1 DEF LotsInv, DrawnOfLots
  <1> QED
    BY <1>7, <1>8, <1>9, <1>15, <1>16, <1>17, <1>18, <1>20, <1>21, <1>22, <1>23, <1>24, AllStayIdle
       DEF CreditsInv, LotsInv
-----------------------------------------------------------------------------
(* Every step *)

LEMMA CreditsStart == Init => CreditsInv
  <1> SUFFICES ASSUME Init PROVE CreditsInv
    OBVIOUS
  <1>1. lots = <<>> /\ today = 0 /\ alloc = [s \in Subjects |-> NoAllocation]
        /\ drawn = [b \in Charges |-> <<>>] /\ task = [p \in Procs |-> Idle]
    BY DEF Init
  <1>2. TypeOK
    <2>1. today \in Days
      BY <1>1, MonthsHaveDays DEF Days
    <2> QED
      BY <1>1, <2>1 DEF TypeOK
  <1>3. LotIds = {} /\ Len(lots) = 0
    BY <1>1 DEF LotIds
  <1>4. Allocated = {}
    BY <1>1 DEF Allocated
  <1>5. LotsInv
    <2>1. DrawnOfLots
      BY <1>1, <1>3 DEF DrawnOfLots
    <2> QED
      BY <1>3, <1>4, <2>1
         DEF LotsInv, MonthsBegun, OneMonthlyLot, GrantsAreAllocated, ChangesWait, NothingOfNothing,
             OneAlive, CarriedOnce, LedgerExplainsLots
  <1>6. PoolNeverOverAllocated
    <2> DEFINE f == [s \in Subjects |-> PromisedTo(s)]
    <2>1. \A s \in Subjects : f[s] = 0
      BY <1>4 DEF PromisedTo
    <2>2. Committed = SumFunctionOnSet(f, Subjects)
      BY DEF Committed
    <2> HIDE DEF f
    <2>3. Committed = 0
      BY <2>1, <2>2, Countable, SumOfNothing
    <2> QED
      BY <2>3, CreditsAreCounted DEF PoolNeverOverAllocated
  <1>7. Alone /\ TasksAgree
    BY <1>1 DEF Alone, TasksAgree
  <1> QED
    BY <1>2, <1>5, <1>6, <1>7 DEF CreditsInv

LEMMA NothingChanges ==
    ASSUME CreditsInv, UNCHANGED <<today, alloc, lots, drawn, task>>
    PROVE  CreditsInv'
  <1>1. LotIds' = LotIds /\ Allocated' = Allocated /\ Committed' = Committed
    BY DEF LotIds, Allocated, Committed, PromisedTo
  <1>2. TypeOK' /\ Alone' /\ PoolNeverOverAllocated'
    BY <1>1 DEF CreditsInv, TypeOK, Alone, PoolNeverOverAllocated
  <1>3. TasksAgree'
    <2> SUFFICES ASSUME NEW q \in Procs, task[q] # Idle PROVE StillSo(task[q])'
      BY DEF TasksAgree
    <2>1. StillSo(task[q])
      BY DEF CreditsInv, TasksAgree
    <2> QED
      BY <1>1, <2>1 DEF StillSo, LotIds, HowOn, LeftOn, GranteesOn, PoolAllows, PromisedTo, Allocated,
                        Committed, MonthlyLotExists
  <1>4. LotsInv'
    BY DEF CreditsInv, LotsInv, MonthsBegun, OneMonthlyLot, GrantsAreAllocated, ChangesWait, NothingOfNothing,
           OneAlive, CarriedOnce, LedgerExplainsLots, DrawnOfLots,
           PromisedTo, Allocated, LotIds, MonthlyLot, RolledLot, Alive, Dead, Draw
  <1> QED
    BY <1>2, <1>3, <1>4 DEF CreditsInv

LEMMA CreditsStep ==
    ASSUME CreditsInv, ~Overlapping, [Next]_vars
    PROVE  CreditsInv'
  <1>1. CASE UNCHANGED vars
    <2>1. UNCHANGED <<today, alloc, lots, drawn, task>>
      BY <1>1 DEF vars
    <2> QED
      BY <2>1, NothingChanges
  <1>2. CASE Tick
    BY <1>2, DayGoesBy
  <1>3. ASSUME NEW p \in Workers, Request(p) PROVE CreditsInv'
    <2>1. ASSUME NEW s \in Subjects, NEW c \in Amounts, AllocateLoad(p, s, c) PROVE CreditsInv'
      BY <2>1, CreditsAreCounted, AllocationBegins DEF AllocateLoad
    <2>2. ASSUME NEW s \in Subjects, NEW c \in Amounts, AutoAllocateLoad(p, s, c) PROVE CreditsInv'
      <3>1. CanStart(p) /\ PoolAllows(s, 0) /\ BeginAllocation(p, s, 0) /\ 0 \in Nat
        BY <2>2 DEF AutoAllocateLoad
      <3> QED
        BY <3>1, AllocationBegins
    <2>3. CASE AllocateCommit(p)
      BY <2>3, AllocationCommits
    <2>4. ASSUME NEW s \in Subjects, NEW c \in Amounts, GrantBonus(p, s, c) PROVE CreditsInv'
      BY <2>4, BonusGranted
    <2>5. CASE \/ \E b \in Charges, s \in Subjects, c \in Amounts : Spend(p, b, s, c)
               \/ \E b \in Charges, c \in Amounts : RefundOrReprice(p, b, c)
      BY <2>5, CreditsSpent
    <2> QED
      BY <1>3, <2>1, <2>2, <2>3, <2>4, <2>5 DEF Request
  <1>4. ASSUME NEW p \in Crons, Job(p) PROVE CreditsInv'
    BY <1>4, CycleBegins, CycleCommits DEF Job
  <1>5. ASSUME NEW p \in Procs, Fail(p) PROVE CreditsInv'
    BY <1>5, TaskChanges DEF Fail, Done
  <1> QED
    BY <1>1, <1>2, <1>3, <1>4, <1>5 DEF Next

\* Of what is carried over, a subject has at most one lot in a month.
LEMMA RolloverKeepsToTheCap ==
    ASSUME CreditsInv
    PROVE  RolloverWithinCap
  <1> SUFFICES ASSUME NEW s \in Subjects, NEW m \in Months
               PROVE  LET rolled == {l \in LotIds : /\ lots[l].subject = s /\ lots[l].source = "rollover"
                                                    /\ lots[l].month = m}
                      IN SumFunctionOnSet([l \in rolled |-> lots[l].granted], rolled) <= RolloverCap
    BY DEF RolloverWithinCap
  <1> DEFINE rolled == {l \in LotIds : /\ lots[l].subject = s /\ lots[l].source = "rollover"
                                       /\ lots[l].month = m}
             f == [l \in rolled |-> lots[l].granted]
  <1>1. IsFiniteSet(rolled) /\ rolled \subseteq LotIds
    BY TypedLots, FS_Subset DEF CreditsInv
  <1>2. \A l \in rolled : f[l] \in Nat /\ f[l] <= RolloverCap
    BY TypedLots DEF CreditsInv, LotsInv, CarriedOnce, RolledLot
  <1>3. \A k, l \in rolled : k = l
    BY DEF CreditsInv, LotsInv, CarriedOnce, RolledLot
  <1>4. RolloverCap \in Nat
    BY CreditsAreCounted
  <1> HIDE DEF f, rolled
  <1>5. CASE rolled = {}
    <2>1. SumFunctionOnSet(f, rolled) = 0
      BY <1>5, SumOfNone
    <2> QED
      BY <1>4, <2>1 DEF f, rolled
  <1>6. CASE rolled # {}
    <2>1. PICK l \in rolled : TRUE
      BY <1>6
    <2>2. rolled \ {l} = {}
      BY <1>3
    <2>3. SumFunctionOnSet(f, rolled) = f[l] + SumFunctionOnSet(f, rolled \ {l})
      BY <1>1, <1>2, SumWithout
    <2>4. SumFunctionOnSet(f, rolled) <= RolloverCap
      BY <1>2, <1>4, <2>2, <2>3, SumOfNone
    <2> QED
      BY <2>4 DEF f, rolled
  <1> QED
    BY <1>5, <1>6

LEMMA CreditsHold == ~Overlapping /\ Spec => []CreditsInv
  <1> SUFFICES ASSUME ~Overlapping PROVE Spec => []CreditsInv
    OBVIOUS
  <1>1. CreditsInv /\ [Next]_vars => CreditsInv'
    BY CreditsStep
  <1> QED
    BY <1>1, CreditsStart, PTL DEF Spec

LEMMA CreditsOfBackOffice == ~Overlapping => (BackOfficeSpec => []CreditsInv)
  <1> SUFFICES ASSUME ~Overlapping PROVE BackOfficeSpec => []CreditsInv
    OBVIOUS
  <1>1. BackOfficeInit => CreditsInv
    BY CreditsStart DEF BackOfficeInit
  <1>2. CreditsInv /\ [BackOfficeNext]_backOfficeVars => CreditsInv'
    <2> SUFFICES ASSUME CreditsInv, [BackOfficeNext]_backOfficeVars PROVE CreditsInv'
      OBVIOUS
    <2>1. [Next]_vars
      BY DEF BackOfficeNext, backOfficeVars
    <2> QED
      BY <2>1, CreditsStep
  <1> QED
    BY <1>1, <1>2, PTL DEF BackOfficeSpec

\* Where one handler waits for another, the credits of any number of subjects, bookings and
\* months add up: whatever allocate, credits_bonus, spend, refund and run_cycle do in turn, also
\* when one dies half way, a subject has one monthly lot a month, each lot holds its grant less
\* what its entries say, what is carried into a month keeps to rollover_cap, and in block mode the
\* pool is not given away twice.
THEOREM CreditsAddUp == ~Overlapping => (BackOfficeSpec => []CreditsSound)
  <1>1. CreditsInv => CreditsSound
    BY RolloverKeepsToTheCap DEF CreditsInv, LotsInv, CreditsSound
  <1> QED
    BY <1>1, CreditsOfBackOffice, PTL
-----------------------------------------------------------------------------
(* Stored files.  The inductive invariant: one request at a time has rows that it has yet to  *)
(* commit; with the documents they are within what the plan allowed when the last of their    *)
(* files was stored; the keys of files are never used twice, so that a photo that is deleted  *)
(* takes its own file only.                                                                   *)

FileRows == [key: Nat, size: Nat]
Plan == StorageLimits \union {NoLimit}

StoreTypes ==
    /\ stored \in [keys: SUBSET Nat, made: Nat]
    /\ documents \in SUBSET FileRows /\ IsFiniteSet(documents)
    /\ photos \in SUBSET [key: Nat, place: Nat] /\ IsFiniteSet(photos)
    /\ limit \in Plan
    /\ fileRequests \in [Requests -> [op: {"none", "document", "photo", "delete"}, size: Nat, count: Nat,
                                      todo: Int, rows: SUBSET FileRows, photo: Nat, within: Plan]]
    /\ \A r \in Requests : IsFiniteSet(fileRequests[r].rows)

Uploading(r) == fileRequests[r].rows # {}

OneUploads == \A q, r \in Requests : Uploading(q) /\ Uploading(r) => q = r

WithinPlan ==
    \A r \in Requests : Uploading(r) =>
        \/ fileRequests[r].within = NoLimit
        \/ Store!storage_used(documents \union fileRequests[r].rows) <= fileRequests[r].within

FilesThere ==
    /\ \A k \in stored.keys : k <= stored.made
    /\ \A d \in documents : d.key \in stored.keys
    /\ \A r \in Requests : \A d \in fileRequests[r].rows : d.key \in stored.keys
    /\ \A p \in photos : p.key <= stored.made

KeysApart ==
    /\ \A d \in documents, p \in photos : d.key # p.key
    /\ \A r \in Requests : \A d \in fileRequests[r].rows :
          (\A e \in documents : d.key # e.key) /\ (\A p \in photos : d.key # p.key)

FilesInv == StoreTypes /\ OneUploads /\ WithinPlan /\ FilesThere /\ KeysApart

LEMMA StoreCounts ==
    /\ \A S : Store!Cardinality(S) = Cardinality(S)
    /\ \A f, S : Store!SumFunctionOnSet(f, S) = SumFunctionOnSet(f, S)
  <1>1. \A S : Store!Cardinality(S) = Cardinality(S)
    BY DEF Store!Cardinality, Cardinality
  <1>2. ASSUME NEW f, NEW S
        PROVE  Store!SumFunctionOnSet(f, S) = TheFold(f, S)[S]
    BY Zenon DEF Store!SumFunctionOnSet, Store!FoldFunctionOnSet, Store!MapThenFoldSet, TheFold,
                 Fold, Picked, Rest
  <1>3. ASSUME NEW f, NEW S
        PROVE  Store!SumFunctionOnSet(f, S) = SumFunctionOnSet(f, S)
    BY <1>2, SumIsFold, Zenon
  <1> QED
    BY <1>1, <1>3

LEMMA ImageIsFinite ==
    ASSUME NEW S, IsFiniteSet(S), NEW f, f = [x \in S |-> f[x]]
    PROVE  IsFiniteSet({f[x] : x \in S})
  <1> DEFINE T == {f[x] : x \in S}
  <1>1. f \in [S -> T] /\ \A y \in T : \E x \in S : f[x] = y
    OBVIOUS
  <1> HIDE DEF T
  <1>2. f \in Surjection(S, T)
    BY <1>1 DEF Surjection
  <1>3. IsFiniteSet(T)
    BY <1>2, FS_Surjection
  <1> QED
    BY <1>3 DEF T

LEMMA OneMoreIsStored ==
    ASSUME NEW S, IsFiniteSet(S), \A d \in S : d.size \in Nat, NEW n, n \notin S, n.size \in Nat
    PROVE  /\ Store!storage_used(S) \in Nat
           /\ Store!storage_used(S \union {n}) = Store!storage_used(S) + n.size
  <1> DEFINE T == S \union {n}
             f == [d \in S |-> d.size]
             g == [d \in T |-> d.size]
  <1>1. IsFiniteSet(T) /\ T \ {n} = S /\ n \in T
    BY FS_AddElement
  <1>2. (\A d \in T : g[d] \in Int) /\ g[n] = n.size /\ (\A d \in S : g[d] = f[d])
    OBVIOUS
  <1>3. \A d \in S : f[d] \in Nat /\ f[d] \in Int
    OBVIOUS
  <1> HIDE DEF T, f, g
  <1>4. SumFunctionOnSet(f, S) \in Nat
    BY <1>3, SumsAreNumbers
  <1>5. SumFunctionOnSet(g, T) = g[n] + SumFunctionOnSet(g, T \ {n})
    BY <1>1, <1>2, SumWithout
  <1>6. SumFunctionOnSet(g, S) = SumFunctionOnSet(f, S)
    BY <1>2, SumOfTheSame
  <1>7. SumFunctionOnSet(g, T) = SumFunctionOnSet(f, S) + n.size
    BY <1>1, <1>2, <1>4, <1>5, <1>6
  <1>8. Store!storage_used(S) = SumFunctionOnSet(f, S) /\ Store!storage_used(T) = SumFunctionOnSet(g, T)
    BY StoreCounts, Zenon DEF Store!storage_used, f, g
  <1>9. T = S \union {n}
    BY DEF T
  <1> QED
    BY <1>4, <1>7, <1>8, <1>9

LEMMA NoUpload ==
    /\ Store!Idle = [op |-> "none", size |-> 0, count |-> 0, todo |-> 0, rows |-> {}, photo |-> 0,
                     within |-> NoLimit]
    /\ Store!Idle.rows = {}
    /\ Store!Idle \in [op: {"none", "document", "photo", "delete"}, size: Nat, count: Nat,
                       todo: Int, rows: SUBSET FileRows, photo: Nat, within: Plan]
  BY DEF Store!Idle, Plan

LEMMA RowsOfRequests ==
    ASSUME NEW op, NEW size, NEW count, NEW todo, NEW rows, NEW photo, NEW within,
           NEW q, q = [op |-> op, size |-> size, count |-> count, todo |-> todo, rows |-> rows,
                       photo |-> photo, within |-> within]
    PROVE  /\ \A o : [q EXCEPT !.op = o] =
                [op |-> o, size |-> size, count |-> count, todo |-> todo, rows |-> rows,
                 photo |-> photo, within |-> within]
           /\ \A s : [q EXCEPT !.size = s] =
                [op |-> op, size |-> s, count |-> count, todo |-> todo, rows |-> rows,
                 photo |-> photo, within |-> within]
           /\ \A c : [q EXCEPT !.count = c] =
                [op |-> op, size |-> size, count |-> c, todo |-> todo, rows |-> rows,
                 photo |-> photo, within |-> within]
           /\ \A n : [q EXCEPT !.todo = n] =
                [op |-> op, size |-> size, count |-> count, todo |-> n, rows |-> rows,
                 photo |-> photo, within |-> within]
           /\ \A d : [q EXCEPT !.rows = d] =
                [op |-> op, size |-> size, count |-> count, todo |-> todo, rows |-> d,
                 photo |-> photo, within |-> within]
           /\ \A p : [q EXCEPT !.photo = p] =
                [op |-> op, size |-> size, count |-> count, todo |-> todo, rows |-> rows,
                 photo |-> p, within |-> within]
           /\ \A w : [q EXCEPT !.within = w] =
                [op |-> op, size |-> size, count |-> count, todo |-> todo, rows |-> rows,
                 photo |-> photo, within |-> w]
  OBVIOUS

LEMMA FilesInit == Store!Init => FilesInv
  <1> SUFFICES ASSUME Store!Init PROVE FilesInv
    OBVIOUS
  <1>1. /\ stored = [keys |-> {}, made |-> 0] /\ documents = {} /\ photos = {}
        /\ limit \in StorageLimits /\ fileRequests = [r \in Requests |-> Store!Idle]
    BY DEF Store!Init
  <1>2. IsFiniteSet({})
    BY FS_EmptySet
  <1>3. StoreTypes
    <2>1. stored \in [keys: SUBSET Nat, made: Nat]
      BY <1>1
    <2>2. \A r \in Requests : fileRequests[r] = Store!Idle
      BY <1>1
    <2> QED
      BY <1>1, <1>2, <2>1, <2>2, NoUpload DEF StoreTypes, Plan
  <1>4. \A r \in Requests : fileRequests[r].rows = {}
    BY <1>1, NoUpload
  <1>5. stored.keys = {}
    BY <1>1
  <1> QED
    BY <1>1, <1>3, <1>4, <1>5
       DEF FilesInv, OneUploads, Uploading, WithinPlan, FilesThere, KeysApart

\* Where nothing is stored or committed.
LEMMA FilesKept ==
    ASSUME FilesInv, StoreTypes', documents' = documents, stored' = stored,
           \A p \in photos' : \E q \in photos : p.key = q.key,
           \A r \in Requests : \/ fileRequests'[r].rows = {}
                               \/ /\ fileRequests'[r].rows = fileRequests[r].rows
                                  /\ fileRequests'[r].within = fileRequests[r].within
    PROVE  FilesInv'
  <1>1. OneUploads'
    BY DEF FilesInv, OneUploads, Uploading
  <1>2. WithinPlan'
    BY DEF FilesInv, WithinPlan, Uploading
  <1>3. FilesThere'
    BY DEF FilesInv, FilesThere
  <1>4. KeysApart'
    BY DEF FilesInv, KeysApart
  <1> QED
    BY <1>1, <1>2, <1>3, <1>4 DEF FilesInv

\* One request is left with another row, or none, of the right shape.
LEMMA RequestsTyped ==
    ASSUME FilesInv, NEW r \in Requests, NEW q,
           q \in [op: {"none", "document", "photo", "delete"}, size: Nat, count: Nat,
                  todo: Int, rows: SUBSET FileRows, photo: Nat, within: Plan],
           IsFiniteSet(q.rows), fileRequests' = [fileRequests EXCEPT ![r] = q]
    PROVE  /\ fileRequests' \in [Requests -> [op: {"none", "document", "photo", "delete"},
                                              size: Nat, count: Nat, todo: Int,
                                              rows: SUBSET FileRows, photo: Nat, within: Plan]]
           /\ \A s \in Requests : IsFiniteSet(fileRequests'[s].rows)
           /\ fileRequests'[r] = q /\ \A s \in Requests \ {r} : fileRequests'[s] = fileRequests[s]
  <1>1. /\ fileRequests \in [Requests -> [op: {"none", "document", "photo", "delete"}, size: Nat,
                                          count: Nat, todo: Int, rows: SUBSET FileRows,
                                          photo: Nat, within: Plan]]
        /\ \A s \in Requests : IsFiniteSet(fileRequests[s].rows)
    BY DEF FilesInv, StoreTypes
  <1>2. fileRequests'[r] = q /\ \A s \in Requests \ {r} : fileRequests'[s] = fileRequests[s]
    BY <1>1
  <1> QED
    BY <1>1, <1>2

LEMMA UploadBegins ==
    ASSUME FilesInv, NEW r \in Requests, NEW op \in {"document", "photo"}, NEW size \in Nat,
           NEW todo \in Nat, Store!Begin(r, op, size, todo)
    PROVE  FilesInv'
  <1> DEFINE q == [op |-> op, size |-> size, count |-> Cardinality(photos), todo |-> todo,
                   rows |-> {}, photo |-> 0, within |-> NoLimit]
  <1>1. /\ fileRequests' = [fileRequests EXCEPT ![r] =
              [Store!Idle EXCEPT !.op = op, !.size = size, !.todo = todo,
                                 !.count = Cardinality(photos)]]
        /\ UNCHANGED <<stored, documents, photos, limit>>
    BY StoreCounts DEF Store!Begin
  <1>2. [Store!Idle EXCEPT !.op = op, !.size = size, !.todo = todo, !.count = Cardinality(photos)] = q
    <2>1. PICK a : a = [Store!Idle EXCEPT !.op = op]
      OBVIOUS
    <2>2. PICK b : b = [a EXCEPT !.size = size]
      OBVIOUS
    <2>3. PICK c : c = [b EXCEPT !.todo = todo]
      OBVIOUS
    <2>4. a = [op |-> op, size |-> 0, count |-> 0, todo |-> 0, rows |-> {}, photo |-> 0, within |-> NoLimit]
      BY <2>1, NoUpload, RowsOfRequests
    <2>5. b = [op |-> op, size |-> size, count |-> 0, todo |-> 0, rows |-> {}, photo |-> 0,
               within |-> NoLimit]
      BY <2>2, <2>4, RowsOfRequests
    <2>6. c = [op |-> op, size |-> size, count |-> 0, todo |-> todo, rows |-> {}, photo |-> 0,
               within |-> NoLimit]
      BY <2>3, <2>5, RowsOfRequests
    <2>7. [c EXCEPT !.count = Cardinality(photos)] = q
      BY <2>6, RowsOfRequests
    <2> QED
      BY <2>1, <2>2, <2>3, <2>7
  <1>3. Cardinality(photos) \in Nat
    BY FS_CardinalityType DEF FilesInv, StoreTypes
  <1>4. /\ q \in [op: {"none", "document", "photo", "delete"}, size: Nat, count: Nat,
                  todo: Int, rows: SUBSET FileRows, photo: Nat, within: Plan]
        /\ q.rows = {} /\ IsFiniteSet(q.rows)
    BY <1>3, FS_EmptySet DEF Plan
  <1>5. fileRequests' = [fileRequests EXCEPT ![r] = q]
    BY <1>1, <1>2
  <1> HIDE DEF q
  <1>6. StoreTypes' /\ fileRequests'[r] = q
        /\ \A s \in Requests \ {r} : fileRequests'[s] = fileRequests[s]
    BY <1>1, <1>4, <1>5, RequestsTyped DEF FilesInv, StoreTypes
  <1> QED
    BY <1>1, <1>4, <1>6, FilesKept

\* A request ends without a document; one that deletes a photo has its row left to delete.
LEMMA RequestEnds ==
    ASSUME FilesInv, NEW r \in Requests, fileRequests' = [fileRequests EXCEPT ![r] = Store!Idle],
           UNCHANGED <<stored, documents, limit>>, photos' \in SUBSET photos
    PROVE  FilesInv'
  <1>1. IsFiniteSet(photos') /\ IsFiniteSet({})
    BY FS_Subset, FS_EmptySet DEF FilesInv, StoreTypes
  <1>2. StoreTypes' /\ fileRequests'[r] = Store!Idle
        /\ \A s \in Requests \ {r} : fileRequests'[s] = fileRequests[s]
    BY <1>1, NoUpload, RequestsTyped DEF FilesInv, StoreTypes
  <1> QED
    BY <1>2, NoUpload, FilesKept

StoresOne(r) ==
    /\ stored' = [keys |-> stored.keys \union {Store!Key}, made |-> Store!Key]
    /\ fileRequests' = [fileRequests EXCEPT
            ![r].todo = @ - 1,
            ![r].rows = @ \union {[key |-> Store!Key, size |-> fileRequests[r].size]},
            ![r].within = limit]
    /\ UNCHANGED <<documents, photos, limit>>

LEMMA FileStored ==
    ASSUME FilesInv, NEW r \in Requests, ~Store!Locked(r), Store!Fits(r), StoresOne(r)
    PROVE  FilesInv'
  <1> DEFINE q == fileRequests[r]
             k == stored.made + 1
             new == [key |-> k, size |-> q.size]
             after == [q EXCEPT !.todo = q.todo - 1, !.rows = q.rows \union {new}, !.within = limit]
             S == documents \union q.rows
  <1>0. /\ stored' = [keys |-> stored.keys \union {Store!Key}, made |-> Store!Key]
        /\ fileRequests' = [fileRequests EXCEPT
               ![r].todo = @ - 1,
               ![r].rows = @ \union {[key |-> Store!Key, size |-> fileRequests[r].size]},
               ![r].within = limit]
        /\ UNCHANGED <<documents, photos, limit>>
    BY DEF StoresOne
  <1>1. /\ q \in [op: {"none", "document", "photo", "delete"}, size: Nat, count: Nat,
                  todo: Int, rows: SUBSET FileRows, photo: Nat, within: Plan]
        /\ IsFiniteSet(q.rows) /\ limit \in Plan /\ stored.made \in Nat
        /\ documents \in SUBSET FileRows /\ IsFiniteSet(documents)
        /\ stored.keys \in SUBSET Nat
    BY DEF FilesInv, StoreTypes
  <1>2. Store!Key = k /\ k \in Nat
    BY <1>1 DEF Store!Key
  <1>3. fileRequests' = [fileRequests EXCEPT ![r] = after]
    BY <1>0, <1>2 DEF FilesInv, StoreTypes
  <1>4. new \in FileRows /\ new.key = k /\ new.size = q.size
    BY <1>1, <1>2 DEF FileRows
  <1> HIDE DEF new
  <1>5. /\ after = [op |-> q.op, size |-> q.size, count |-> q.count, todo |-> q.todo - 1,
                    rows |-> q.rows \union {new}, photo |-> q.photo, within |-> limit]
        /\ after \in [op: {"none", "document", "photo", "delete"}, size: Nat, count: Nat,
                      todo: Int, rows: SUBSET FileRows, photo: Nat, within: Plan]
        /\ after.rows = q.rows \union {new} /\ after.within = limit
    <2>1. after = [op |-> q.op, size |-> q.size, count |-> q.count, todo |-> q.todo - 1,
                   rows |-> q.rows \union {new}, photo |-> q.photo, within |-> limit]
      <3>1. PICK row : row = q
        OBVIOUS
      <3>2. PICK a : a = [row EXCEPT !.todo = row.todo - 1]
        OBVIOUS
      <3>3. PICK b : b = [a EXCEPT !.rows = row.rows \union {new}]
        OBVIOUS
      <3>4. row = [op |-> row.op, size |-> row.size, count |-> row.count, todo |-> row.todo,
                   rows |-> row.rows, photo |-> row.photo, within |-> row.within]
        BY <1>1, <3>1
      <3>5. a = [op |-> row.op, size |-> row.size, count |-> row.count, todo |-> row.todo - 1,
                 rows |-> row.rows, photo |-> row.photo, within |-> row.within]
        BY <3>2, <3>4, RowsOfRequests
      <3>6. b = [op |-> row.op, size |-> row.size, count |-> row.count, todo |-> row.todo - 1,
                 rows |-> row.rows \union {new}, photo |-> row.photo, within |-> row.within]
        BY <3>3, <3>5, RowsOfRequests
      <3>7. [b EXCEPT !.within = limit] =
                [op |-> row.op, size |-> row.size, count |-> row.count, todo |-> row.todo - 1,
                 rows |-> row.rows \union {new}, photo |-> row.photo, within |-> limit]
        BY <3>6, RowsOfRequests
      <3> QED
        BY <3>1, <3>2, <3>3, <3>7 DEF after
    <2>2. q.rows \union {new} \in SUBSET FileRows /\ q.todo - 1 \in Int
      BY <1>1, <1>4
    <2> HIDE DEF after
    <2> QED
      BY <1>1, <2>1, <2>2
  <1>6. IsFiniteSet(after.rows)
    BY <1>1, <1>5, FS_AddElement
  <1> HIDE DEF after
  <1>7. StoreTypes' /\ fileRequests'[r] = after
        /\ \A s \in Requests \ {r} : fileRequests'[s] = fileRequests[s]
    <2>1. stored' \in [keys: SUBSET Nat, made: Nat]
      BY <1>0, <1>1, <1>2
    <2> QED
      BY <1>0, <1>3, <1>5, <1>6, <2>1, RequestsTyped DEF FilesInv, StoreTypes
  <1>8. \A s \in Requests \ {r} : fileRequests[s].rows = {}
    BY DEF Store!Locked
  <1>9. OneUploads'
    BY <1>7, <1>8 DEF OneUploads, Uploading
  <1>10. /\ \A d \in documents : d.key # k
         /\ \A d \in q.rows : d.key # k
         /\ \A p \in photos : p.key # k
    BY <1>1 DEF FilesInv, FilesThere, StoreTypes
  <1>11. WithinPlan'
    <2>1. IsFiniteSet(S) /\ \A d \in S : d.size \in Nat
      BY <1>1, FS_Union DEF FileRows
    <2>2. new \notin S
      BY <1>4, <1>10
    <2>3. /\ Store!storage_used(S) \in Nat
          /\ Store!storage_used(S \union {new}) = Store!storage_used(S) + q.size
      <3> HIDE DEF S
      <3> QED
        BY <1>1, <1>4, <2>1, <2>2, OneMoreIsStored
    <2>4. documents \union after.rows = S \union {new}
      BY <1>5
    <2>5. limit = NoLimit \/ Store!storage_used(S) + q.size <= limit
      BY DEF Store!Fits
    <2>6. limit = NoLimit \/ Store!storage_used(documents' \union after.rows) <= limit
      BY <1>0, <2>3, <2>4, <2>5
    <2>7. \A s \in Requests : Uploading(s)' => s = r
      BY <1>7, <1>8 DEF Uploading
    <2>8. after.within = limit /\ fileRequests'[r] = after
      BY <1>5, <1>7
    <2> QED
      BY <1>0, <2>6, <2>7, <2>8 DEF WithinPlan
  <1>12. stored'.keys = stored.keys \union {k} /\ stored'.made = k
    BY <1>0, <1>2
  <1>13. FilesThere'
    <2>1. \A j \in stored'.keys : j <= stored'.made
      BY <1>1, <1>12 DEF FilesInv, FilesThere
    <2>2. \A s \in Requests : \A d \in fileRequests'[s].rows : d.key \in stored'.keys
      BY <1>4, <1>5, <1>7, <1>12 DEF FilesInv, FilesThere
    <2>3. \A p \in photos : p.key <= stored'.made
      <3>1. \A p \in photos : p.key \in Nat
        BY DEF FilesInv, StoreTypes
      <3> QED
        BY <1>1, <1>12, <3>1 DEF FilesInv, FilesThere
    <2> QED
      BY <1>0, <1>12, <2>1, <2>2, <2>3 DEF FilesInv, FilesThere
  <1>14. KeysApart'
    <2>1. \A s \in Requests : \A d \in fileRequests'[s].rows : d = new \/ d \in fileRequests[s].rows
      BY <1>5, <1>7
    <2>2. (\A e \in documents : new.key # e.key) /\ (\A p \in photos : new.key # p.key)
      BY <1>4, <1>10
    <2> QED
      BY <1>0, <2>1, <2>2 DEF FilesInv, KeysApart
  <1> QED
    BY <1>7, <1>9, <1>11, <1>13, <1>14 DEF FilesInv

\* Rows that are committed are the documents' or the photos'.
LEMMA RowsCommitted ==
    ASSUME FilesInv, NEW r \in Requests, Store!Commit(r)
    PROVE  FilesInv'
  <1> DEFINE q == fileRequests[r]
             keys == {d.key : d \in q.rows}
             Photo(d) == [key |-> d.key, place |-> q.count]
             made == {Photo(d) : d \in q.rows}
  <1>1. /\ q.rows # {} /\ fileRequests' = [fileRequests EXCEPT ![r] = Store!Idle]
        /\ UNCHANGED <<stored, limit>>
        /\ \/ photos' = photos \union made /\ documents' = documents
           \/ documents' = documents \union q.rows /\ photos' = photos
    BY DEF Store!Commit
  <1>2. /\ q.count \in Nat /\ q.rows \in SUBSET FileRows /\ IsFiniteSet(q.rows)
        /\ documents \in SUBSET FileRows /\ IsFiniteSet(documents)
        /\ photos \in SUBSET [key: Nat, place: Nat] /\ IsFiniteSet(photos)
    BY DEF FilesInv, StoreTypes
  <1>3. /\ made \in SUBSET [key: Nat, place: Nat]
        /\ \A p \in made : \E d \in q.rows : p.key = d.key
    BY <1>2 DEF FileRows
  <1>4. IsFiniteSet(made)
    <2> DEFINE f == [d \in q.rows |-> Photo(d)]
    <2>1. f = [d \in q.rows |-> f[d]] /\ made = {f[d] : d \in q.rows}
      OBVIOUS
    <2> HIDE DEF f, made
    <2> QED
      BY <1>2, <2>1, ImageIsFinite
  <1> HIDE DEF made
  <1>5. /\ IsFiniteSet(documents') /\ IsFiniteSet(photos')
        /\ documents' \in SUBSET FileRows /\ photos' \in SUBSET [key: Nat, place: Nat]
    <2>1. photos \union made \in SUBSET [key: Nat, place: Nat] /\ IsFiniteSet(photos \union made)
      BY <1>2, <1>3, <1>4, FS_Union
    <2>2. documents \union q.rows \in SUBSET FileRows /\ IsFiniteSet(documents \union q.rows)
      BY <1>2, FS_Union
    <2> QED
      BY <1>1, <1>2, <2>1, <2>2
  <1>6. StoreTypes' /\ fileRequests'[r] = Store!Idle
        /\ \A s \in Requests \ {r} : fileRequests'[s] = fileRequests[s]
    BY <1>1, <1>5, NoUpload, FS_EmptySet, RequestsTyped DEF FilesInv, StoreTypes
  <1>7. \A s \in Requests : fileRequests'[s].rows = {}
    BY <1>1, <1>6, NoUpload DEF FilesInv, OneUploads, Uploading
  <1>8. FilesThere'
    <2>1. \A d \in q.rows : d.key \in stored.keys /\ d.key <= stored.made
      BY DEF FilesInv, FilesThere
    <2>2. \A p \in photos' : p.key <= stored.made
      BY <1>1, <1>3, <2>1 DEF FilesInv, FilesThere
    <2>3. \A d \in documents' : d.key \in stored.keys
      BY <1>1, <2>1 DEF FilesInv, FilesThere
    <2> QED
      BY <1>1, <1>7, <2>2, <2>3 DEF FilesInv, FilesThere
  <1>9. KeysApart'
    <2>1. /\ \A d \in q.rows : /\ \A e \in documents : d.key # e.key
                               /\ \A p \in photos : d.key # p.key
          /\ \A d \in documents, p \in photos : d.key # p.key
      BY DEF FilesInv, KeysApart
    <2>2. \A d \in documents', p \in photos' : d.key # p.key
      BY <1>1, <1>3, <2>1
    <2> QED
      BY <1>7, <2>2 DEF KeysApart
  <1> QED
    BY <1>6, <1>7, <1>8, <1>9 DEF FilesInv, OneUploads, Uploading, WithinPlan

LEMMA PhotoFileGoes ==
    ASSUME FilesInv, NEW r \in Requests, NEW p \in photos, Store!DeletePhotoFile(r, p)
    PROVE  FilesInv'
  <1> DEFINE q == [op |-> "delete", size |-> 0, count |-> 0, todo |-> 0, rows |-> {},
                   photo |-> p.key, within |-> NoLimit]
  <1>1. /\ stored' = [stored EXCEPT !.keys = @ \ {p.key}]
        /\ fileRequests' = [fileRequests EXCEPT ![r] = [Store!Idle EXCEPT !.op = "delete",
                                                                          !.photo = p.key]]
        /\ UNCHANGED <<documents, photos, limit>>
    BY DEF Store!DeletePhotoFile
  <1>2. p.key \in Nat /\ stored \in [keys: SUBSET Nat, made: Nat]
    BY DEF FilesInv, StoreTypes
  <1>3. [Store!Idle EXCEPT !.op = "delete", !.photo = p.key] = q
    <2>1. PICK a : a = [Store!Idle EXCEPT !.op = "delete"]
      OBVIOUS
    <2>2. a = [op |-> "delete", size |-> 0, count |-> 0, todo |-> 0, rows |-> {}, photo |-> 0,
               within |-> NoLimit]
      BY <2>1, NoUpload, RowsOfRequests
    <2>3. [a EXCEPT !.photo = p.key] = q
      BY <2>2, RowsOfRequests
    <2> QED
      BY <2>1, <2>3
  <1>4. /\ q \in [op: {"none", "document", "photo", "delete"}, size: Nat, count: Nat,
                  todo: Int, rows: SUBSET FileRows, photo: Nat, within: Plan]
        /\ q.rows = {} /\ IsFiniteSet(q.rows)
    BY <1>2, FS_EmptySet DEF Plan
  <1>5. fileRequests' = [fileRequests EXCEPT ![r] = q]
    BY <1>1, <1>3
  <1> HIDE DEF q
  <1>6. /\ stored' \in [keys: SUBSET Nat, made: Nat]
        /\ stored'.keys = stored.keys \ {p.key} /\ stored'.made = stored.made
    BY <1>1, <1>2
  <1>7. StoreTypes' /\ fileRequests'[r] = q
        /\ \A s \in Requests \ {r} : fileRequests'[s] = fileRequests[s]
    BY <1>1, <1>4, <1>5, <1>6, RequestsTyped DEF FilesInv, StoreTypes
  <1>8. \A s \in Requests : \A d \in fileRequests'[s].rows :
            d \in fileRequests[s].rows /\ fileRequests'[s] = fileRequests[s]
    BY <1>4, <1>7
  <1>9. OneUploads' /\ WithinPlan'
    BY <1>1, <1>8 DEF FilesInv, OneUploads, WithinPlan, Uploading
  <1>10. FilesThere' /\ KeysApart'
    BY <1>1, <1>6, <1>8 DEF FilesInv, FilesThere, KeysApart
  <1> QED
    BY <1>7, <1>9, <1>10 DEF FilesInv

\* The others are put in their places.
LEMMA CoverIsMade ==
    ASSUME FilesInv, NEW cover, Store!MakeCover(cover)
    PROVE  FilesInv'
  <1> DEFINE place(p) == IF p = cover THEN 0
                         ELSE 1 + Store!Cardinality({q \in photos \ {cover} : Store!Before(q, p)})
             put(p) == [p EXCEPT !.place = place(p)]
  <1>1. photos' = {put(p) : p \in photos} /\ UNCHANGED <<stored, documents, limit, fileRequests>>
    BY DEF Store!MakeCover
  <1>2. photos \in SUBSET [key: Nat, place: Nat] /\ IsFiniteSet(photos)
    BY DEF FilesInv, StoreTypes
  <1>3. \A p \in photos : place(p) \in Nat
    <2> SUFFICES ASSUME NEW p \in photos
                 PROVE  Store!Cardinality({q \in photos \ {cover} : Store!Before(q, p)}) \in Nat
      OBVIOUS
    <2>1. IsFiniteSet({q \in photos \ {cover} : Store!Before(q, p)})
      BY <1>2, FS_Subset
    <2> QED
      BY <2>1, StoreCounts, FS_CardinalityType
  <1> HIDE DEF place
  <1>4. \A p \in photos : put(p) \in [key: Nat, place: Nat] /\ put(p).key = p.key
    BY <1>2, <1>3 DEF put
  <1> HIDE DEF put
  <1>5. IsFiniteSet(photos')
    <2> DEFINE f == [p \in photos |-> put(p)]
    <2>1. f = [p \in photos |-> f[p]] /\ photos' = {f[p] : p \in photos}
      BY <1>1
    <2> HIDE DEF f
    <2> QED
      BY <1>2, <2>1, ImageIsFinite
  <1>6. photos' \in SUBSET [key: Nat, place: Nat] /\ \A p \in photos' : \E q \in photos : p.key = q.key
    BY <1>1, <1>4
  <1>7. StoreTypes'
    BY <1>1, <1>5, <1>6 DEF FilesInv, StoreTypes
  <1> QED
    BY <1>1, <1>6, <1>7, FilesKept

LEMMA FilesStep == FilesInv /\ [Store!Next]_fileVars => FilesInv'
  <1> SUFFICES ASSUME FilesInv, [Store!Next]_fileVars PROVE FilesInv'
    OBVIOUS
  <1>1. ASSUME NEW r \in Requests, NEW size \in Sizes,
               \/ Store!OperatorDocuments(r, size) \/ Store!CompanyDocuments(r, size)
               \/ Store!ExpenseReceipt(r, size) \/ Store!StoreContract(r, size)
               \/ \E files \in 1..3 : Store!OwnerDetails(r, size, files)
        PROVE  FilesInv'
    <2>1. size \in Nat
      BY StorageIsCounted
    <2>2. PICK files \in 1..3 : Store!Begin(r, "document", size, files)
      BY <1>1 DEF Store!OperatorDocuments, Store!CompanyDocuments, Store!ExpenseReceipt,
                  Store!StoreContract, Store!OwnerDetails
    <2>3. files \in Nat
      OBVIOUS
    <2> QED
      BY <2>1, <2>2, <2>3, UploadBegins
  <1>2. ASSUME NEW r \in Requests, Store!AddPhoto(r) PROVE FilesInv'
    <2>1. 1 \in Nat
      OBVIOUS
    <2> QED
      BY <1>2, <2>1, UploadBegins DEF Store!AddPhoto
  <1>3. ASSUME NEW r \in Requests, Store!Upload(r) PROVE FilesInv'
    <2>1. CASE Store!Fits(r)
      <3>1. ~Store!Locked(r) /\ StoresOne(r)
        BY <1>3, <2>1, Zenon DEF Store!Upload, StoresOne
      <3> QED
        BY <2>1, <3>1, FileStored
    <2>2. CASE ~Store!Fits(r)
      BY <1>3, <2>2, RequestEnds DEF Store!Upload
    <2> QED
      BY <2>1, <2>2
  <1>4. ASSUME NEW r \in Requests, Store!DeletePhotoRow(r) \/ Store!Die(r) PROVE FilesInv'
    BY <1>4, RequestEnds DEF Store!DeletePhotoRow, Store!Die
  <1>5. CASE (\E new \in StorageLimits \union {NoLimit} : Store!LimitChanges(new)) \/ UNCHANGED fileVars
    <2>1. UNCHANGED <<stored, documents, photos, fileRequests>> /\ limit' \in Plan
      BY <1>5 DEF Store!LimitChanges, fileVars, Plan, FilesInv, StoreTypes
    <2>2. StoreTypes'
      BY <2>1 DEF FilesInv, StoreTypes
    <2> QED
      BY <2>1, <2>2, FilesKept
  <1> QED
    BY <1>1, <1>2, <1>3, <1>4, <1>5, RowsCommitted, PhotoFileGoes, CoverIsMade DEF Store!Next

\* Documents change with the commit of an upload alone.
LEMMA DocumentsAreCommitted ==
    ASSUME FilesInv, Store!Next, documents' # documents
    PROVE  /\ \E r \in Requests :
                 /\ fileRequests[r].rows # {} /\ fileRequests'[r] = Store!Idle
                 /\ \/ fileRequests[r].within = NoLimit
                    \/ Store!storage_used(documents') <= fileRequests[r].within
           /\ \A d \in documents' : d.key \in stored.keys
  <1>1. PICK r \in Requests : Store!Commit(r)
    <2>1. ASSUME NEW r \in Requests, NEW size, NEW files,
                 \/ Store!OperatorDocuments(r, size) \/ Store!CompanyDocuments(r, size)
                 \/ Store!ExpenseReceipt(r, size) \/ Store!StoreContract(r, size)
                 \/ Store!OwnerDetails(r, size, files) \/ Store!AddPhoto(r)
          PROVE  documents' = documents
      BY <2>1 DEF Store!OperatorDocuments, Store!CompanyDocuments, Store!ExpenseReceipt,
                  Store!StoreContract, Store!OwnerDetails, Store!Begin, Store!AddPhoto
    <2>2. ASSUME NEW r \in Requests, NEW p,
                 \/ Store!Upload(r) \/ Store!DeletePhotoFile(r, p) \/ Store!DeletePhotoRow(r)
                 \/ Store!Die(r)
          PROVE  documents' = documents
      BY <2>2 DEF Store!Upload, Store!DeletePhotoFile, Store!DeletePhotoRow, Store!Die
    <2>3. ASSUME NEW x, Store!MakeCover(x) \/ Store!LimitChanges(x)
          PROVE  documents' = documents
      BY <2>3 DEF Store!MakeCover, Store!LimitChanges
    <2> QED
      BY <2>1, <2>2, <2>3, Zenon DEF Store!Next
  <1>2. /\ fileRequests[r].rows # {} /\ fileRequests' = [fileRequests EXCEPT ![r] = Store!Idle]
        /\ documents' = documents \union fileRequests[r].rows
    BY <1>1 DEF Store!Commit
  <1>3. fileRequests'[r] = Store!Idle
    BY <1>2 DEF FilesInv, StoreTypes
  <1>4. \/ fileRequests[r].within = NoLimit
        \/ Store!storage_used(documents') <= fileRequests[r].within
    BY <1>2 DEF FilesInv, WithinPlan, Uploading
  <1>5. \A d \in documents' : d.key \in stored.keys
    BY <1>2 DEF FilesInv, FilesThere
  <1> QED
    BY <1>2, <1>3, <1>4, <1>5

\* However uploads of an operator overlap, fail or meet a plan that shrinks, a document that is added
\* leaves what is stored within what the plan allowed when its file was stored, and every document
\* has its file, whatever is deleted (StorageService.upload, the pages that upload, delete_photo).
THEOREM StorageKeepsToThePlan == BackOfficeSpec => StoredWithinLimit
  <1> DEFINE Within ==
        documents' # documents =>
            /\ \E r \in Requests :
                /\ fileRequests[r].rows # {} /\ fileRequests'[r] = Store!Idle
                /\ fileRequests[r].within = NoLimit \/ Store!storage_used(documents') <= fileRequests[r].within
            /\ \A d \in documents' : d.key \in stored.keys
  <1>1. BackOfficeInit => FilesInv
    BY FilesInit DEF BackOfficeInit
  <1>2. [BackOfficeNext]_backOfficeVars => [Store!Next]_fileVars
    BY DEF BackOfficeNext, backOfficeVars
  <1>3. FilesInv /\ [BackOfficeNext]_backOfficeVars => [Within]_(Store!vars)
    <2> SUFFICES ASSUME FilesInv, [BackOfficeNext]_backOfficeVars, ~UNCHANGED Store!vars
                 PROVE  Within
      OBVIOUS
    <2>1. Store!Next
      BY <1>2 DEF fileVars, Store!vars
    <2> QED
      BY <2>1, DocumentsAreCommitted
  <1> HIDE DEF Within
  <1>4. BackOfficeSpec => [][Within]_(Store!vars)
    BY <1>1, <1>2, <1>3, FilesStep, PTL DEF BackOfficeSpec
  <1> QED
    BY <1>4 DEF StoredWithinLimit, Store!StoredWithinLimit, Within
=============================================================================
