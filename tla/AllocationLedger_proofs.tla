----------------------- MODULE AllocationLedger_proofs ----------------------
(***************************************************************************)
(* Proofs about AllocationLedger for every value of its constants.         *)
(***************************************************************************)
EXTENDS AllocationLedger, FiniteSetTheorems, TLAPS

-----------------------------------------------------------------------------
(* Sums of amounts over finite sets of rows, as MapThenSumSet computes     *)
(* them: a fold that takes the elements in an order of its own choice.     *)
(* The lemmas say that the order does not matter, and what one added,      *)
(* removed or changed row does to a sum.                                   *)

\* Induction over the naturals, for a set in place of a predicate.
LEMMA NatSetInduction ==
    ASSUME NEW P, 0 \in P, \A n \in Nat : n \in P => n + 1 \in P
    PROVE  Nat \subseteq P
<1> DEFINE T == Nat \ P
           R == OpToRel(<, Nat)
<1> SUFFICES ASSUME T # {} PROVE FALSE
  OBVIOUS
<1>1. PICK m \in T : \A y \in T : <<y, m>> \notin R
  <2>1. IsWellFoundedOn(R, Nat)
    BY NatLessThanWellFounded
  <2>2. T \subseteq Nat
    OBVIOUS
  <2> HIDE DEF T, R
  <2> QED
    BY <2>1, <2>2, WFMin
<1>2. m \in Nat \ {0} /\ m - 1 \in Nat
  OBVIOUS
<1>3. m - 1 \in P
  <2>1. <<m - 1, m>> \in R
    BY <1>2 DEF OpToRel
  <2> QED
    BY <1>1, <1>2, <2>1
<1> QED
  BY <1>2, <1>3

\* A sum whose summands are given by a function.
SumOver(f, S) == MapThenSumSet(LAMBDA x : f[x], S)

\* The element the fold takes next.
Chosen(s) == CHOOSE x \in s : TRUE

\* h is the function the fold defines recursively over the subsets of S.
Equation(h, f, S) ==
    h = [s \in SUBSET S |-> IF s = {} THEN 0 ELSE f[Chosen(s)] + h[s \ {Chosen(s)}]]

\* The fold is some solution of its recursion.
LEMMA SumDef ==
    ASSUME NEW f, NEW S
    PROVE  SumOver(f, S) = (CHOOSE h : Equation(h, f, S))[S]
BY DEF SumOver, MapThenSumSet, MapThenFoldSet, Chosen, Equation

\* The fold takes an element of the set.
LEMMA ChosenIn ==
    ASSUME NEW s, s # {}
    PROVE  Chosen(s) \in s
BY DEF Chosen

\* The recursion has a solution, built up by the size of the subsets.
LEMMA EquationSolved ==
    ASSUME NEW S, IsFiniteSet(S), NEW f, \A x \in S : f[x] \in Int
    PROVE  \E h \in [SUBSET S -> Int] : Equation(h, f, S)
<1> DEFINE Val(h, s) == IF s = {} THEN 0 ELSE f[Chosen(s)] + h[s \ {Chosen(s)}]
           Upto(n) == {h \in [SUBSET S -> Int] :
                         \A s \in SUBSET S : Cardinality(s) <= n => h[s] = Val(h, s)}
           P == {n \in Nat : Upto(n) # {}}
<1>1. \A s \in SUBSET S : /\ IsFiniteSet(s) /\ Cardinality(s) \in Nat
                          /\ Cardinality(s) = 0 <=> s = {}
  BY FS_Subset, FS_CardinalityType, FS_EmptySet
<1>2. \A s \in SUBSET S : s # {} =>
        /\ Chosen(s) \in S /\ s \ {Chosen(s)} \in SUBSET S
        /\ Cardinality(s \ {Chosen(s)}) = Cardinality(s) - 1
  BY <1>1, ChosenIn, FS_RemoveElement
<1>3. ASSUME NEW h \in [SUBSET S -> Int], NEW s \in SUBSET S PROVE Val(h, s) \in Int
  <2>1. s # {} => f[Chosen(s)] \in Int /\ h[s \ {Chosen(s)}] \in Int
    BY <1>2
  <2> QED
    BY <2>1
<1>4. 0 \in P
  <2> DEFINE h == [s \in SUBSET S |-> 0]
  <2>1. h \in Upto(0)
    BY <1>1
  <2> QED
    BY <2>1
<1>5. ASSUME NEW n \in Nat, n \in P PROVE n + 1 \in P
  <2>1. PICK h \in [SUBSET S -> Int] :
          \A s \in SUBSET S : Cardinality(s) <= n => h[s] = Val(h, s)
    BY <1>5
  <2> HIDE DEF Val
  <2> DEFINE g == [s \in SUBSET S |-> Val(h, s)]
  <2>2. g \in [SUBSET S -> Int]
    BY <1>3, <2>1
  <2>3. \A s \in SUBSET S : Cardinality(s) <= n => g[s] = h[s]
    BY <2>1
  <2>4. ASSUME NEW s \in SUBSET S, Cardinality(s) <= n + 1 PROVE g[s] = Val(g, s)
    <3>1. g[s] = Val(h, s)
      OBVIOUS
    <3>2. s # {} => g[s \ {Chosen(s)}] = h[s \ {Chosen(s)}]
      <4>1. s # {} => Cardinality(s \ {Chosen(s)}) <= n
        BY <1>1, <1>2, <2>4
      <4> QED
        BY <4>1, <1>2, <2>3
    <3> HIDE DEF g
    <3> QED
      BY <3>1, <3>2 DEF Val
  <2> HIDE DEF g
  <2>5. g \in Upto(n + 1)
    BY <2>2, <2>4
  <2> QED
    BY <2>5
<1>6. Cardinality(S) \in P
  <2> HIDE DEF P
  <2>1. Nat \subseteq P
    BY <1>4, <1>5, NatSetInduction
  <2> QED
    BY <2>1, <1>1
<1>7. PICK h \in [SUBSET S -> Int] :
        \A s \in SUBSET S : Cardinality(s) <= Cardinality(S) => h[s] = Val(h, s)
  BY <1>6
<1>8. \A s \in SUBSET S : Cardinality(s) <= Cardinality(S)
  BY FS_Subset
<1>9. h = [s \in SUBSET S |-> Val(h, s)]
  <2> HIDE DEF Val
  <2> QED
    BY <1>7, <1>8
<1> QED
  BY <1>9 DEF Equation

\* The value of a solution at s does not depend on the set it is a solution for.
LEMMA EquationUnique ==
    ASSUME NEW S, IsFiniteSet(S), NEW T \in SUBSET S, NEW f, NEW g, NEW h,
           Equation(g, f, S), Equation(h, f, T)
    PROVE  g[T] = h[T]
<1> DEFINE P == {n \in Nat : \A s \in SUBSET T : Cardinality(s) <= n => g[s] = h[s]}
<1>1. \A s \in SUBSET T : /\ IsFiniteSet(s) /\ Cardinality(s) \in Nat
                          /\ Cardinality(s) = 0 <=> s = {}
                          /\ s \in SUBSET S
  BY FS_Subset, FS_CardinalityType, FS_EmptySet
<1>2. \A s \in SUBSET T : s # {} =>
        s \ {Chosen(s)} \in SUBSET T /\ Cardinality(s \ {Chosen(s)}) = Cardinality(s) - 1
  BY <1>1, ChosenIn, FS_RemoveElement
<1>3. \A s \in SUBSET T :
        /\ g[s] = IF s = {} THEN 0 ELSE f[Chosen(s)] + g[s \ {Chosen(s)}]
        /\ h[s] = IF s = {} THEN 0 ELSE f[Chosen(s)] + h[s \ {Chosen(s)}]
  BY <1>1 DEF Equation
<1>4. 0 \in P
  BY <1>1, <1>3
<1>5. ASSUME NEW n \in Nat, n \in P PROVE n + 1 \in P
  <2> SUFFICES ASSUME NEW s \in SUBSET T, Cardinality(s) <= n + 1, s # {} PROVE g[s] = h[s]
    BY <1>3
  <2>1. g[s \ {Chosen(s)}] = h[s \ {Chosen(s)}]
    BY <1>1, <1>2, <1>5
  <2> QED
    BY <1>3, <2>1
<1>6. Nat \subseteq P
  <2> HIDE DEF P
  <2> QED
    BY <1>4, <1>5, NatSetInduction
<1> QED
  BY <1>1, <1>6

\* The sum is the value of any solution.
LEMMA SumSolves ==
    ASSUME NEW S, IsFiniteSet(S), NEW f, \A x \in S : f[x] \in Int,
           NEW h, Equation(h, f, S)
    PROVE  SumOver(f, S) = h[S]
<1> DEFINE c == CHOOSE g : Equation(g, f, S)
<1>1. Equation(c, f, S)
  OBVIOUS
<1>2. SumOver(f, S) = c[S]
  BY SumDef
<1> HIDE DEF c
<1> QED
  BY <1>1, <1>2, EquationUnique

\* The recursion of the fold.
LEMMA SumUnfold ==
    ASSUME NEW S, IsFiniteSet(S), NEW f, \A x \in S : f[x] \in Int
    PROVE  /\ SumOver(f, S) \in Int
           /\ SumOver(f, S) = IF S = {} THEN 0 ELSE f[Chosen(S)] + SumOver(f, S \ {Chosen(S)})
<1>1. PICK h \in [SUBSET S -> Int] : Equation(h, f, S)
  BY EquationSolved
<1>2. SumOver(f, S) = h[S]
  BY <1>1, SumSolves
<1>3. ASSUME S # {} PROVE h[S \ {Chosen(S)}] = SumOver(f, S \ {Chosen(S)})
  <2> DEFINE T == S \ {Chosen(S)}
  <2>1. T \in SUBSET S /\ IsFiniteSet(T) /\ \A x \in T : f[x] \in Int
    BY FS_Subset
  <2> HIDE DEF T
  <2>2. PICK g \in [SUBSET T -> Int] : Equation(g, f, T)
    BY <2>1, EquationSolved
  <2>3. SumOver(f, T) = g[T]
    BY <2>1, <2>2, SumSolves
  <2>4. h[T] = g[T]
    BY <1>1, <2>1, <2>2, EquationUnique
  <2> QED
    BY <2>3, <2>4 DEF T
<1>4. h[S] = IF S = {} THEN 0 ELSE f[Chosen(S)] + h[S \ {Chosen(S)}]
  BY <1>1 DEF Equation
<1> QED
  BY <1>1, <1>2, <1>3, <1>4

\* Nothing adds up to zero.
LEMMA SumEmpty == ASSUME NEW f PROVE SumOver(f, {}) = 0
BY SumUnfold, FS_EmptySet

\* Any element may be taken first, whatever the order of the fold.
LEMMA SumAdd ==
    ASSUME NEW S, IsFiniteSet(S), NEW f, \A x \in S : f[x] \in Int, NEW x \in S
    PROVE  SumOver(f, S) = f[x] + SumOver(f, S \ {x})
<1> DEFINE Taken(T) == \A y \in T : SumOver(f, T) = f[y] + SumOver(f, T \ {y})
           P == {n \in Nat : \A T \in SUBSET S : Cardinality(T) <= n => Taken(T)}
<1>1. \A T \in SUBSET S : /\ IsFiniteSet(T) /\ Cardinality(T) \in Nat
                          /\ Cardinality(T) = 0 <=> T = {}
  BY FS_Subset, FS_CardinalityType, FS_EmptySet
<1>2. \A T \in SUBSET S : /\ SumOver(f, T) \in Int
                          /\ T # {} => SumOver(f, T) = f[Chosen(T)] + SumOver(f, T \ {Chosen(T)})
  BY <1>1, SumUnfold
<1>3. \A T \in SUBSET S : \A y \in T :
        T \ {y} \in SUBSET S /\ Cardinality(T \ {y}) = Cardinality(T) - 1
  BY <1>1, FS_RemoveElement
<1>4. 0 \in P
  <2>1. \A T \in SUBSET S : Cardinality(T) <= 0 => T = {}
    BY <1>1
  <2>2. Taken({})
    OBVIOUS
  <2> HIDE DEF Taken
  <2> QED
    BY <2>1, <2>2
<1>5. ASSUME NEW n \in Nat, n \in P PROVE n + 1 \in P
  <2>1. \A T \in SUBSET S : Cardinality(T) <= n => Taken(T)
    <3> HIDE DEF Taken
    <3> QED
      BY <1>5
  <2>2. ASSUME NEW T \in SUBSET S, Cardinality(T) <= n + 1, NEW y \in T
        PROVE  SumOver(f, T) = f[y] + SumOver(f, T \ {y})
    <3> DEFINE c == Chosen(T)
    <3>1. c \in T
      BY ChosenIn
    <3>2. SumOver(f, T) = f[c] + SumOver(f, T \ {c})
      BY <1>2
    <3> HIDE DEF c
    <3>3. CASE c = y
      BY <3>2, <3>3
    <3>4. CASE c # y
      <4>1. /\ T \ {c} \in SUBSET S /\ Cardinality(T \ {c}) <= n /\ y \in T \ {c}
            /\ T \ {y} \in SUBSET S /\ Cardinality(T \ {y}) <= n /\ c \in T \ {y}
        BY <1>1, <1>3, <2>2, <3>1, <3>4
      <4>2. SumOver(f, T \ {c}) = f[y] + SumOver(f, (T \ {c}) \ {y})
        BY <2>1, <4>1
      <4>3. SumOver(f, T \ {y}) = f[c] + SumOver(f, (T \ {y}) \ {c})
        BY <2>1, <4>1
      <4>4. (T \ {c}) \ {y} = (T \ {y}) \ {c} /\ (T \ {y}) \ {c} \in SUBSET S
        OBVIOUS
      <4>5. SumOver(f, (T \ {y}) \ {c}) \in Int /\ f[y] \in Int /\ f[c] \in Int
        BY <1>2, <4>4, <3>1
      <4> DEFINE r == SumOver(f, (T \ {y}) \ {c})
      <4>6. SumOver(f, T) = f[c] + (f[y] + r)
        BY <3>2, <4>2, <4>4
      <4>7. SumOver(f, T \ {y}) = f[c] + r /\ r \in Int
        BY <4>3, <4>5
      <4> HIDE DEF r
      <4> QED
        BY <4>5, <4>6, <4>7
    <3> QED
      BY <3>3, <3>4
  <2>3. \A T \in SUBSET S : Cardinality(T) <= n + 1 => Taken(T)
    BY <2>2
  <2> HIDE DEF Taken
  <2> QED
    BY <2>3
<1>6. Nat \subseteq P
  <2> HIDE DEF P
  <2> QED
    BY <1>4, <1>5, NatSetInduction
<1>7. Taken(S)
  <2> HIDE DEF Taken
  <2> QED
    BY <1>1, <1>6
<1> QED
  BY <1>7

\* Only the summands of the set count.
LEMMA SumEqual ==
    ASSUME NEW S, IsFiniteSet(S), NEW f, NEW g, \A x \in S : f[x] \in Int /\ f[x] = g[x]
    PROVE  SumOver(f, S) = SumOver(g, S)
<1>1. PICK h \in [SUBSET S -> Int] : Equation(h, f, S)
  BY EquationSolved
<1>2. Equation(h, g, S)
  <2>1. \A s \in SUBSET S : s # {} => f[Chosen(s)] = g[Chosen(s)]
    BY ChosenIn
  <2> QED
    BY <1>1, <2>1 DEF Equation
<1> QED
  BY <1>1, <1>2, SumSolves

\* Natural summands have a natural sum.
LEMMA SumNat ==
    ASSUME NEW S, IsFiniteSet(S), NEW f, \A x \in S : f[x] \in Nat
    PROVE  SumOver(f, S) \in Nat
<1> DEFINE P == {n \in Nat : \A T \in SUBSET S : Cardinality(T) <= n => SumOver(f, T) \in Nat}
<1>1. \A T \in SUBSET S : /\ IsFiniteSet(T) /\ Cardinality(T) \in Nat
                          /\ Cardinality(T) = 0 <=> T = {}
  BY FS_Subset, FS_CardinalityType, FS_EmptySet
<1>2. \A T \in SUBSET S : \A y \in T :
        T \ {y} \in SUBSET S /\ Cardinality(T \ {y}) = Cardinality(T) - 1
  BY <1>1, FS_RemoveElement
<1>3. 0 \in P
  <2>1. \A T \in SUBSET S : Cardinality(T) <= 0 => T = {}
    BY <1>1
  <2> QED
    BY <2>1, SumEmpty
<1>4. ASSUME NEW n \in Nat, n \in P PROVE n + 1 \in P
  <2>1. ASSUME NEW T \in SUBSET S, Cardinality(T) <= n + 1, T # {} PROVE SumOver(f, T) \in Nat
    <3>1. PICK y \in T : TRUE
      BY <2>1
    <3>2. T \ {y} \in SUBSET S /\ Cardinality(T \ {y}) <= n
      BY <1>1, <1>2, <2>1
    <3>3. SumOver(f, T \ {y}) \in Nat
      BY <1>4, <3>2
    <3>4. SumOver(f, T) = f[y] + SumOver(f, T \ {y})
      BY <1>1, SumAdd
    <3> QED
      BY <3>3, <3>4
  <2> QED
    BY <2>1, SumEmpty
<1>5. Nat \subseteq P
  <2> HIDE DEF P
  <2> QED
    BY <1>3, <1>4, NatSetInduction
<1> QED
  BY <1>1, <1>5

\* One row changes its amount.
LEMMA SumChange ==
    ASSUME NEW S, IsFiniteSet(S), NEW f, NEW g, NEW x \in S,
           \A y \in S : f[y] \in Int /\ g[y] \in Int, \A y \in S \ {x} : g[y] = f[y]
    PROVE  SumOver(g, S) = SumOver(f, S) - f[x] + g[x]
<1> DEFINE T == S \ {x}
<1>1. T \in SUBSET S /\ IsFiniteSet(T)
  BY FS_Subset
<1>2. SumOver(f, S) = f[x] + SumOver(f, T)
  BY SumAdd
<1>3. SumOver(g, S) = g[x] + SumOver(g, T)
  BY SumAdd
<1>4. SumOver(f, T) = SumOver(g, T)
  BY <1>1, SumEqual
<1>5. SumOver(f, T) \in Int
  BY <1>1, SumUnfold
<1> HIDE DEF T
<1> QED
  BY <1>2, <1>3, <1>4, <1>5

\* Rows that count as zero may be left out.
LEMMA SumFilter ==
    ASSUME NEW S, IsFiniteSet(S), NEW T \in SUBSET S, NEW f, NEW g,
           \A x \in S : g[x] \in Int,
           \A x \in T : f[x] = g[x], \A x \in S \ T : g[x] = 0
    PROVE  SumOver(f, T) = SumOver(g, S)
<1> DEFINE P == {n \in Nat : \A U \in SUBSET S :
                   T \subseteq U /\ Cardinality(U) <= n => SumOver(g, U) = SumOver(g, T)}
<1>1. \A U \in SUBSET S : /\ IsFiniteSet(U) /\ Cardinality(U) \in Nat
                          /\ Cardinality(U) = 0 <=> U = {}
                          /\ SumOver(g, U) \in Int
  BY FS_Subset, FS_CardinalityType, FS_EmptySet, SumUnfold
<1>2. \A U \in SUBSET S : \A y \in U :
        U \ {y} \in SUBSET S /\ Cardinality(U \ {y}) = Cardinality(U) - 1
  BY <1>1, FS_RemoveElement
<1>3. 0 \in P
  <2>1. \A U \in SUBSET S : T \subseteq U /\ Cardinality(U) <= 0 => U = T
    BY <1>1
  <2> QED
    BY <2>1
<1>4. ASSUME NEW n \in Nat, n \in P PROVE n + 1 \in P
  <2> SUFFICES ASSUME NEW U \in SUBSET S, T \subseteq U, Cardinality(U) <= n + 1, U # T
               PROVE  SumOver(g, U) = SumOver(g, T)
    OBVIOUS
  <2>1. PICK y \in U : y \notin T
    OBVIOUS
  <2>2. SumOver(g, U) = g[y] + SumOver(g, U \ {y})
    BY <1>1, SumAdd
  <2>3. U \ {y} \in SUBSET S /\ Cardinality(U \ {y}) <= n /\ T \subseteq U \ {y}
    BY <1>1, <1>2, <2>1
  <2>4. SumOver(g, U \ {y}) = SumOver(g, T)
    BY <1>4, <2>3
  <2> QED
    BY <1>1, <2>1, <2>2, <2>4
<1>5. Nat \subseteq P
  <2> HIDE DEF P
  <2> QED
    BY <1>3, <1>4, NatSetInduction
<1>6. SumOver(g, S) = SumOver(g, T)
  BY <1>1, <1>5
<1>7. SumOver(f, T) = SumOver(g, T)
  BY <1>1, SumEqual
<1> QED
  BY <1>6, <1>7

\* Zeroes add up to zero.
LEMMA SumZero ==
    ASSUME NEW S, IsFiniteSet(S), NEW f, \A x \in S : f[x] = 0
    PROVE  SumOver(f, S) = 0
BY SumFilter, SumEmpty

-----------------------------------------------------------------------------
(* The credit queue keeps its types.                                       *)

\* A transaction that inserts a row keeps the table well typed.
LEMMA InsertType ==
    ASSUME CreditTypeOK, NEW type \in {"completed", "reversed"},
           NEW r \in Receivables, NEW original \in 0 .. MaxCreditEvents,
           InsertCreditSync(type, r, original)
    PROVE  /\ credit' \in [CreditIds -> CreditRows]
           /\ creditCount' \in 1 .. MaxCreditEvents
           /\ creditCount' > creditCount
<1>1. creditCount + 1 \in CreditIds
  BY CreditAssumption DEF CreditTypeOK, InsertCreditSync, CreditIds
<1>2. [type |-> type, rcv |-> r, original |-> original, status |-> "PENDING"]
        \in CreditRows
  BY DEF CreditRows, CreditStatuses
<1> QED
  BY <1>1, <1>2 DEF CreditTypeOK, InsertCreditSync, CreditIds

\* So does the compensation of a receivable's settlement event.
LEMMA EnqueueType ==
    ASSUME CreditTypeOK, NEW r \in Receivables, EnqueueCreditReversal(r)
    PROVE  /\ credit' \in [CreditIds -> CreditRows]
           /\ creditCount' \in 0 .. MaxCreditEvents
           /\ creditCount' > creditCount => creditCount' \in CreditIds
<1>1. CASE LiveCompleted(r) = {}
  BY <1>1 DEF EnqueueCreditReversal, CreditTypeOK
<1>2. CASE LiveCompleted(r) # {}
  <2>1. PICK e \in LiveCompleted(r) :
          IF credit[e].status \in {"PENDING", "RETRY_WAIT"}
          THEN /\ credit' = [credit EXCEPT ![e].status = "CANCELLED"]
               /\ UNCHANGED creditCount
          ELSE InsertCreditSync("reversed", r, e)
    BY <1>2 DEF EnqueueCreditReversal
  <2>2. e \in CreditIds /\ e \in 0 .. MaxCreditEvents
    BY CreditAssumption DEF LiveCompleted, CreditIds
  <2>3. CASE credit[e].status \in {"PENDING", "RETRY_WAIT"}
    <3>1. credit' = [credit EXCEPT ![e].status = "CANCELLED"] /\ creditCount' = creditCount
      BY <2>1, <2>3
    <3>2. [credit[e] EXCEPT !.status = "CANCELLED"] \in CreditRows
      BY <2>2 DEF CreditTypeOK, CreditRows, CreditStatuses
    <3> QED
      BY <2>2, <3>1, <3>2 DEF CreditTypeOK
  <2>4. CASE credit[e].status \notin {"PENDING", "RETRY_WAIT"}
    BY <2>1, <2>2, <2>4, InsertType, CreditAssumption DEF CreditIds
  <2> QED
    BY <2>3, <2>4
<1> QED
  BY <1>1, <1>2

\* The request that has just committed publishes a row that exists.
LEMMA PublishAfterCommitType ==
    ASSUME CreditTypeOK, NEW h \in Handlers, PublishAfterCommit(h),
           creditCount' > creditCount => creditCount' \in CreditIds
    PROVE  job' \in [Publishers -> Jobs]
<1>1. Idle \in Jobs
  BY CreditAssumption DEF Idle, Jobs
<1>2. creditCount' > creditCount =>
        [pc |-> "retry", ev |-> 0, batch |-> {creditCount'}] \in Jobs
  BY CreditAssumption DEF Jobs
<1> QED
  BY <1>1, <1>2 DEF PublishAfterCommit, CreditTypeOK

\* Changing the status of one row keeps the table well typed.
LEMMA StatusType ==
    ASSUME CreditTypeOK, NEW e \in CreditIds, NEW s \in CreditStatuses
    PROVE  /\ [credit[e] EXCEPT !.status = s] \in CreditRows
           /\ [credit EXCEPT ![e].status = s] \in [CreditIds -> CreditRows]
BY DEF CreditTypeOK, CreditRows

\* Recording the outcome of a publication keeps the table well typed.
LEMMA RecordType ==
    ASSUME CreditTypeOK, NEW p \in Publishers, NEW s \in CreditStatuses,
           job[p].ev \in CreditIds,
           RecordOutcome(job[p].ev, s), NextInBatch(p)
    PROVE  /\ credit' \in [CreditIds -> CreditRows]
           /\ job' \in [Publishers -> Jobs]
<1>1. credit' \in [CreditIds -> CreditRows]
  BY StatusType DEF RecordOutcome, CreditTypeOK
<1>2. job[p].batch \ {job[p].ev} \in SUBSET CreditIds
  BY DEF CreditTypeOK, Jobs
<1>3. Idle \in Jobs
  BY CreditAssumption DEF Idle, Jobs
<1>4. [pc |-> "claimed", ev |-> 0, batch |-> job[p].batch \ {job[p].ev}] \in Jobs
  BY <1>2, CreditAssumption DEF Jobs
<1> QED
  BY <1>1, <1>3, <1>4 DEF NextInBatch, CreditTypeOK

\* A publisher that has called the CRM still has the row in its batch, and an
\* accepted call is one the CRM has received.
CallsKnown ==
    \A p \in Publishers :
      /\ job[p].pc \in {"ok", "failed"} => job[p].ev \in job[p].batch
      /\ job[p].pc = "ok" => job[p].ev \in crm

\* Row ids are given out in order: nothing is written above creditCount.
RowsInOrder == \A e \in CreditIds : e > creditCount => credit[e] = NoRow

\* A publisher's step keeps the queue well typed and its calls known.
LEMMA CreditStepType ==
    ASSUME CreditTypeOK, CallsKnown, CreditNext
    PROVE  CreditTypeOK' /\ CallsKnown'
<1> USE CreditAssumption
<1>1. ASSUME NEW h \in Handlers, NEW e \in CreditIds, ResendCreditSync(h, e)
      PROVE  CreditTypeOK' /\ CallsKnown'
  <2>1. [pc |-> "retry", ev |-> 0, batch |-> {e}] \in Jobs
    BY DEF Jobs
  <2> QED
    BY <1>1, <2>1 DEF ResendCreditSync, CreditTypeOK, CallsKnown, Publishers
<1>2. ASSUME NEW h \in Handlers, ClaimForRetry(h)
      PROVE  CreditTypeOK' /\ CallsKnown'
  <2>1. PICK e \in job[h].batch :
          IF credit[e].status \in {"PENDING", "RETRY_WAIT"}
          THEN /\ credit' = [credit EXCEPT ![e].status = "PROCESSING"]
               /\ job' = [job EXCEPT ![h].pc = "claimed"]
               /\ leaseOver' = leaseOver \ {e}
          ELSE /\ job' = [job EXCEPT ![h] = Idle]
               /\ UNCHANGED <<credit, leaseOver>>
    BY <1>2 DEF ClaimForRetry
  <2>2. h \in Publishers /\ job[h] \in Jobs /\ e \in CreditIds
    BY DEF CreditTypeOK, Jobs, Publishers
  <2>3. Idle \in Jobs /\ [job[h] EXCEPT !.pc = "claimed"] \in Jobs
    BY <2>2 DEF Idle, Jobs
  <2>4. job' \in [Publishers -> Jobs] /\ CallsKnown'
    BY <1>2, <2>1, <2>2, <2>3 DEF ClaimForRetry, CreditTypeOK, CallsKnown, Idle, Jobs
  <2>5. credit' \in [CreditIds -> CreditRows] /\ leaseOver' \in SUBSET CreditIds
    <3>1. "PROCESSING" \in CreditStatuses
      BY DEF CreditStatuses
    <3>2. [credit EXCEPT ![e].status = "PROCESSING"] \in [CreditIds -> CreditRows]
      BY <2>2, <3>1, StatusType
    <3> QED
      BY <2>1, <2>2, <3>2 DEF CreditTypeOK
  <2> QED
    BY <1>2, <2>4, <2>5 DEF ClaimForRetry, CreditTypeOK
<1>3. ASSUME NEW w \in Workers, ClaimBatch(w)
      PROVE  CreditTypeOK' /\ CallsKnown'
  <2>1. PICK batch \in SUBSET CreditIds :
          /\ credit' = [e \in CreditIds |->
                          IF e \in batch THEN [credit[e] EXCEPT !.status = "PROCESSING"]
                                         ELSE credit[e]]
          /\ leaseOver' = leaseOver \ batch
          /\ job' = [job EXCEPT ![w] = [pc |-> "claimed", ev |-> 0, batch |-> batch]]
    BY <1>3 DEF ClaimBatch
  <2>2. [pc |-> "claimed", ev |-> 0, batch |-> batch] \in Jobs
    BY DEF Jobs
  <2>3. credit' \in [CreditIds -> CreditRows]
    BY <2>1, StatusType DEF CreditTypeOK, CreditStatuses
  <2> QED
    BY <1>3, <2>1, <2>2, <2>3 DEF ClaimBatch, CreditTypeOK, CallsKnown, Publishers
<1>4. ASSUME NEW p \in Publishers, NEW e \in CreditIds,
             \/ PublishAccepted(p, e)
             \/ PublishFailed(p, e, TRUE) \/ PublishFailed(p, e, FALSE)
      PROVE  CreditTypeOK' /\ CallsKnown'
  <2>1. job[p] \in Jobs /\ e \in job[p].batch
    BY <1>4 DEF CreditTypeOK, PublishAccepted, PublishFailed
  <2>2. [pc |-> "ok", ev |-> e, batch |-> job[p].batch] \in Jobs
    BY <2>1 DEF Jobs, CreditIds
  <2>3. [pc |-> "failed", ev |-> e, batch |-> job[p].batch] \in Jobs
    BY <2>1 DEF Jobs, CreditIds
  <2>4. \/ /\ job' = [job EXCEPT ![p] = [pc |-> "ok", ev |-> e, batch |-> job[p].batch]]
           /\ crm' = crm \cup {e}
        \/ /\ job' = [job EXCEPT ![p] = [pc |-> "failed", ev |-> e, batch |-> job[p].batch]]
           /\ crm' \in {crm, crm \cup {e}}
    BY <1>4, <2>1 DEF PublishAccepted, PublishFailed, CreditTypeOK, Jobs
  <2>5. UNCHANGED <<credit, creditCount, leaseOver, disruptions>>
    BY <1>4 DEF PublishAccepted, PublishFailed
  <2>6. CallsKnown'
    BY <2>1, <2>4 DEF CallsKnown, CreditTypeOK, Jobs
  <2> QED
    BY <2>2, <2>3, <2>4, <2>5, <2>6 DEF CreditTypeOK
<1>5. ASSUME NEW p \in Publishers, RecordDelivered(p) \/ RecordRetryWait(p)
      PROVE  CreditTypeOK' /\ CallsKnown'
  <2>1. job[p].ev \in CreditIds
    BY <1>5 DEF CallsKnown, CreditTypeOK, Jobs, RecordDelivered, RecordRetryWait
  <2>2. PICK s \in {"DELIVERED", "RETRY_WAIT"} : RecordOutcome(job[p].ev, s)
    BY <1>5 DEF RecordDelivered, RecordRetryWait
  <2>3. NextInBatch(p) /\ UNCHANGED <<creditCount, leaseOver, crm, disruptions>>
    BY <1>5 DEF RecordDelivered, RecordRetryWait
  <2>4. CreditTypeOK'
    BY <2>1, <2>2, <2>3, RecordType DEF CreditTypeOK, CreditStatuses
  <2>5. CallsKnown'
    BY <2>3 DEF CallsKnown, NextInBatch, CreditTypeOK, Idle
  <2> QED
    BY <2>4, <2>5
<1>6. ASSUME NEW p \in Publishers, Abandon(p)
      PROVE  CreditTypeOK' /\ CallsKnown'
  <2>1. Idle \in Jobs
    BY DEF Idle, Jobs
  <2> QED
    BY <1>6, <2>1 DEF Abandon, CreditTypeOK, CallsKnown, Idle
<1>7. ASSUME NEW e \in CreditIds, LeaseExpires(e)
      PROVE  CreditTypeOK' /\ CallsKnown'
  BY <1>7 DEF LeaseExpires, CreditTypeOK, CallsKnown
<1> QED
  BY <1>1, <1>2, <1>3, <1>4, <1>5, <1>6, <1>7 DEF CreditNext

-----------------------------------------------------------------------------
(* The ledger.  The foreign keys: an allocation's receipt and receivable   *)
(* exist, and a difference's receipt.  TypeOK and BalancesAgree are        *)
(* inductive only beside this.                                             *)
AllocationsReferenced ==
    \A a \in Allocations : allocation[a].exists =>
      /\ receipt[allocation[a].receipt].exists
      /\ receivable[allocation[a].rcv].confirmed

DifferencesReferenced ==
    \A d \in Differences : difference[d].exists =>
      receipt[difference[d].receipt].exists

Referenced == AllocationsReferenced /\ DifferencesReferenced

LedgerInv == TypeOK /\ CallsKnown /\ Referenced /\ BalancesAgree

\* Rows that exist have all their columns.
LEMMA Rows ==
    ASSUME TypeOK
    PROVE  /\ \A c \in Receipts : receipt[c].exists => receipt[c] \in ReceiptRows
           /\ \A c \in Receipts : ~ receipt[c].exists => receipt[c] = Absent
           /\ \A a \in Allocations : allocation[a].exists => allocation[a] \in AllocationRows
           /\ \A a \in Allocations : ~ allocation[a].exists => allocation[a] = Absent
           /\ \A d \in Differences : difference[d].exists => difference[d] \in DifferenceRows
<1>1. ~ Absent.exists
  BY DEF Absent
<1>2. \A v \in ReceiptRows : v.exists
  BY DEF ReceiptRows
<1>3. \A v \in AllocationRows : v.exists
  BY DEF AllocationRows
<1>4. \A v \in DifferenceRows : v.exists
  BY DEF DifferenceRows
<1> QED
  BY <1>1, <1>2, <1>3, <1>4 DEF TypeOK

\* The empty tables satisfy the ledger's invariant.
LEMMA LedgerInit == Init => LedgerInv
<1> SUFFICES ASSUME Init PROVE LedgerInv
  OBVIOUS
<1> USE CreditAssumption, LedgerAssumption
<1>1. Absent.exists = FALSE
  BY DEF Absent
<1>2. receivable \in [Receivables -> ReceivableRows]
  <2>1. \A x \in Amounts : PendingPlan(x) \in ReceivableRows
    BY DEF PendingPlan, ReceivableRows, CollectionStatuses
  <2> QED
    BY <2>1 DEF Init
<1>3. credit \in [CreditIds -> CreditRows]
  BY DEF Init, CreditInit, NoRow, CreditRows, CreditStatuses
<1>4. job \in [Publishers -> Jobs]
  BY DEF Init, CreditInit, Idle, Jobs
<1>5. TypeOK
  BY <1>2, <1>3, <1>4 DEF Init, CreditInit, TypeOK, CreditTypeOK
<1>6. CallsKnown
  BY DEF Init, CreditInit, CallsKnown, Idle
<1>7. Referenced /\ BalancesAgree
  BY <1>1 DEF Init, Referenced, AllocationsReferenced, DifferencesReferenced,
              BalancesAgree, PendingPlan
<1> QED
  BY <1>5, <1>6, <1>7 DEF LedgerInv

\* Confirming a plan opens a receivable whose whole amount is open.
LEMMA ConfirmPlanStep ==
    ASSUME LedgerInv, NEW r \in Receivables, NEW x \in Amounts, ConfirmPlan(r, x)
    PROVE  LedgerInv'
<1> USE LedgerAssumption
<1> DEFINE row == [confirmed |-> TRUE, planned |-> x, original |-> x, received |-> 0,
                   open |-> x, status |-> "UNPAID"]
<1>1. row \in ReceivableRows
  BY DEF ReceivableRows, CollectionStatuses
<1>2. receivable' = [receivable EXCEPT ![r] = row]
  BY DEF ConfirmPlan
<1>3. UNCHANGED <<receipt, difference, allocation, reversal, creditVars>>
  BY DEF ConfirmPlan
<1>4. TypeOK'
  BY <1>1, <1>2, <1>3 DEF LedgerInv, TypeOK, CreditTypeOK, creditVars
<1>5. CallsKnown'
  BY <1>3 DEF LedgerInv, CallsKnown, creditVars
<1>6. Referenced'
  BY <1>2, <1>3 DEF LedgerInv, TypeOK, Referenced, AllocationsReferenced,
                    DifferencesReferenced, AllocationRows, Absent
<1>7. BalancesAgree'
  BY <1>2, <1>3 DEF LedgerInv, TypeOK, BalancesAgree, DifferencesOf
<1> QED
  BY <1>4, <1>5, <1>6, <1>7 DEF LedgerInv

\* Registering a receipt leaves its whole amount unallocated.
LEMMA CreateReceiptStep ==
    ASSUME LedgerInv, NEW c \in Receipts, NEW n \in Accounts, NEW x \in Amounts,
           CreateReceipt(c, n, x)
    PROVE  LedgerInv'
<1> USE LedgerAssumption
<1> DEFINE row == [exists |-> TRUE, account |-> n, amount |-> x, unallocated |-> x,
                   status |-> "AVAILABLE"]
<1>1. row \in ReceiptRows
  BY DEF ReceiptRows, ReceiptStatuses
<1>2. receipt' = [receipt EXCEPT ![c] = row]
  BY DEF CreateReceipt
<1>3. UNCHANGED <<receivable, difference, allocation, reversal, creditVars>>
  BY DEF CreateReceipt
<1>4. TypeOK'
  BY <1>1, <1>2, <1>3 DEF LedgerInv, TypeOK, CreditTypeOK, creditVars
<1>5. CallsKnown'
  BY <1>3 DEF LedgerInv, CallsKnown, creditVars
<1>6. Referenced'
  <2>1. \A d \in Differences : difference[d].exists => difference[d].receipt \in Receipts
    BY Rows DEF LedgerInv, DifferenceRows
  <2>2. \A b \in Allocations : allocation[b].exists => allocation[b].receipt \in Receipts
    BY Rows DEF LedgerInv, AllocationRows
  <2> QED
    BY <1>2, <1>3, <2>1, <2>2 DEF LedgerInv, TypeOK, Referenced, AllocationsReferenced,
                                  DifferencesReferenced
<1>7. BalancesAgree'
  BY <1>2, <1>3 DEF LedgerInv, TypeOK, BalancesAgree, DifferencesOf
<1> QED
  BY <1>4, <1>5, <1>6, <1>7 DEF LedgerInv

\* AdjustPlan recomputes open amount and status from the received amount.
LEMMA AdjustPlanStep ==
    ASSUME LedgerInv, NEW r \in Receivables, NEW x \in AdjustAmounts, AdjustPlan(r, x)
    PROVE  LedgerInv'
<1> USE LedgerAssumption
<1> DEFINE received == receivable[r].received
<1> DEFINE row == [confirmed |-> TRUE, planned |-> x, original |-> x,
                   received |-> received, open |-> x - received,
                   status |-> AdjustedStatus(x, received)]
<1>1. receivable[r] \in ReceivableRows /\ received \in Nat /\ x \in Nat /\ received <= x
  BY DEF LedgerInv, TypeOK, ReceivableRows, AdjustPlan
<1>2. x - received \in Nat
  BY <1>1
<1>3. row \in ReceivableRows
  BY <1>1, <1>2 DEF ReceivableRows, CollectionStatuses, AdjustedStatus
<1>4. receivable' = [receivable EXCEPT ![r] = row]
  BY <1>1 DEF AdjustPlan, LedgerInv, TypeOK, ReceivableRows
<1>5. UNCHANGED <<receipt, difference, allocation, reversal, creditVars>>
  BY DEF AdjustPlan
<1>6. TypeOK'
  BY <1>3, <1>4, <1>5 DEF LedgerInv, TypeOK, CreditTypeOK, creditVars
<1>7. CallsKnown'
  BY <1>5 DEF LedgerInv, CallsKnown, creditVars
<1>8. Referenced'
  BY <1>4, <1>5 DEF LedgerInv, TypeOK, Referenced, AllocationsReferenced,
                    DifferencesReferenced
<1>9. BalancesAgree'
  <2>1. \A c \in Receipts : DifferencesOf(c)' = DifferencesOf(c)
    BY <1>5 DEF DifferencesOf
  <2>2. ASSUME NEW s \in Receivables, receivable'[s].confirmed
        PROVE  /\ receivable'[s].planned = receivable'[s].original
               /\ receivable'[s].original > 0
               /\ receivable'[s].received + receivable'[s].open = receivable'[s].original
               /\ receivable'[s].status = "SETTLED" <=> receivable'[s].open = 0
               /\ receivable'[s].status = "UNPAID" <=> receivable'[s].received = 0
    BY <1>1, <1>4, <2>2 DEF LedgerInv, TypeOK, BalancesAgree, AdjustedStatus
  <2> QED
    BY <1>5, <2>1, <2>2 DEF LedgerInv, BalancesAgree
<1> QED
  BY <1>6, <1>7, <1>8, <1>9 DEF LedgerInv

\* An allocation moves one amount on the receipt and on the receivable.
LEMMA ConfirmAllocationStep ==
    ASSUME LedgerInv,
           NEW h \in Handlers, NEW u \in Users, NEW a \in Allocations, NEW c \in Receipts,
           NEW r \in Receivables, NEW x \in Amounts,
           ConfirmAllocation(h, u, a, c, r, x)
    PROVE  LedgerInv'
<1> USE LedgerAssumption, CreditAssumption
<1> DEFINE remaining == receipt[c].unallocated - x
           open == receivable[r].open - x
           received == receivable[r].received + x
           rstat == IF remaining = 0 THEN "FULLY_ALLOCATED" ELSE "PARTIALLY_ALLOCATED"
           cstat == IF open = 0 THEN "SETTLED" ELSE "PARTIALLY_SETTLED"
           arow == [exists |-> TRUE, receipt |-> c, rcv |-> r, amount |-> x,
                    by |-> u, status |-> "CONFIRMED"]
<1>0. /\ receipt[c].exists
      /\ receivable[r].confirmed
      /\ Covers(c, r, x)
      /\ allocation' = [allocation EXCEPT ![a] = arow]
      /\ UpdateReceipt(c, remaining, rstat)
      /\ UpdateReceivable(r, received, open, cstat)
      /\ reversal' = reversal /\ difference' = difference /\ leaseOver' = leaseOver
      /\ crm' = crm /\ disruptions' = disruptions
  BY DEF ConfirmAllocation
<1>1. receipt[c] \in ReceiptRows /\ receivable[r] \in ReceivableRows
  BY <1>0, Rows DEF LedgerInv, TypeOK
<1>2. /\ x \in Nat /\ x > 0
      /\ remaining \in Nat /\ open \in Nat /\ received \in Nat
  <2>1. x \in Nat /\ x > 0
    OBVIOUS
  <2>2. x <= receipt[c].unallocated /\ x <= receivable[r].open
    BY <1>0 DEF Covers
  <2>3. /\ receipt[c].unallocated \in Nat
        /\ receivable[r].open \in Nat /\ receivable[r].received \in Nat
    BY <1>1 DEF ReceiptRows, ReceivableRows
  <2> QED
    BY <2>1, <2>2, <2>3
<1>3. arow \in AllocationRows
  BY <1>2 DEF AllocationRows, AllocationStatuses
<1> DEFINE crow == [exists |-> TRUE, account |-> receipt[c].account,
                    amount |-> receipt[c].amount, unallocated |-> remaining,
                    status |-> rstat]
           vrow == [confirmed |-> TRUE, planned |-> receivable[r].planned,
                    original |-> receivable[r].original, received |-> received,
                    open |-> open, status |-> cstat]
<1>4. receipt' = [receipt EXCEPT ![c] = crow] /\ crow \in ReceiptRows
  BY <1>0, <1>1, <1>2 DEF UpdateReceipt, ReceiptRows, ReceiptStatuses
<1>5. receivable' = [receivable EXCEPT ![r] = vrow] /\ vrow \in ReceivableRows
  BY <1>0, <1>1, <1>2 DEF UpdateReceivable, ReceivableRows, CollectionStatuses
<1>6. /\ credit' \in [CreditIds -> CreditRows]
      /\ creditCount' \in 0 .. MaxCreditEvents
      /\ creditCount' > creditCount => creditCount' \in CreditIds
  <2>1. CASE InsertCreditSync("completed", r, 0)
    BY <2>1, InsertType DEF LedgerInv, TypeOK, CreditIds
  <2>2. CASE UNCHANGED <<credit, creditCount>>
    BY <2>2 DEF LedgerInv, TypeOK, CreditTypeOK
  <2> QED
    BY <2>1, <2>2 DEF ConfirmAllocation
<1>7. PublishAfterCommit(h) /\ job[h] = Idle
  BY DEF ConfirmAllocation
<1>8. CreditTypeOK'
  BY <1>0, <1>6, <1>7, PublishAfterCommitType DEF LedgerInv, TypeOK, CreditTypeOK
<1>9. TypeOK'
  BY <1>0, <1>3, <1>4, <1>5, <1>8 DEF LedgerInv, TypeOK
<1>10. CallsKnown'
  BY <1>0, <1>7 DEF PublishAfterCommit, LedgerInv, TypeOK, CreditTypeOK, CallsKnown, Idle
<1>11. AllocationsReferenced'
  <2> SUFFICES ASSUME NEW b \in Allocations, allocation'[b].exists
               PROVE  /\ receipt'[allocation'[b].receipt].exists
                      /\ receivable'[allocation'[b].rcv].confirmed
    BY DEF AllocationsReferenced
  <2>1. CASE b = a
    BY <1>0, <1>4, <1>5, <2>1 DEF LedgerInv, TypeOK
  <2>2. CASE b # a
    <3>1. allocation'[b] = allocation[b] /\ allocation[b] \in AllocationRows
      BY <1>0, <2>2, Rows DEF LedgerInv, TypeOK
    <3>2. allocation[b].receipt \in Receipts /\ allocation[b].rcv \in Receivables
      BY <3>1 DEF AllocationRows
    <3> QED
      BY <1>4, <1>5, <3>1, <3>2 DEF LedgerInv, TypeOK, Referenced, AllocationsReferenced
  <2> QED
    BY <2>1, <2>2
<1>d. DifferencesReferenced' /\ \A d \in Receipts : DifferencesOf(d)' = DifferencesOf(d)
  <2>1. \A d \in Differences : difference[d].exists => difference[d].receipt \in Receipts
    BY Rows DEF LedgerInv, DifferenceRows
  <2> QED
    BY <1>0, <1>4, <2>1 DEF LedgerInv, TypeOK, Referenced, DifferencesReferenced, DifferencesOf
<1>12. BalancesAgree'
  <2>1. ASSUME NEW d \in Receipts, receipt'[d].exists
        PROVE  /\ receipt'[d].amount > 0 /\ receipt'[d].unallocated <= receipt'[d].amount
               /\ DifferencesOf(d)' = {} =>
                    /\ receipt'[d].status = "AVAILABLE" <=>
                         receipt'[d].unallocated = receipt'[d].amount
                    /\ receipt'[d].status = "FULLY_ALLOCATED" <=> receipt'[d].unallocated = 0
    <3>1. CASE d = c
      BY <1>0, <1>1, <1>2, <1>4, <1>d, <3>1 DEF LedgerInv, TypeOK, BalancesAgree, ReceiptRows
    <3>2. CASE d # c
      BY <1>4, <1>d, <2>1, <3>2 DEF LedgerInv, TypeOK, BalancesAgree
    <3> QED
      BY <3>1, <3>2
  <2>2. ASSUME NEW s \in Receivables, receivable'[s].confirmed
        PROVE  /\ receivable'[s].planned = receivable'[s].original
               /\ receivable'[s].original > 0
               /\ receivable'[s].received + receivable'[s].open = receivable'[s].original
               /\ receivable'[s].status = "SETTLED" <=> receivable'[s].open = 0
               /\ receivable'[s].status = "UNPAID" <=> receivable'[s].received = 0
    <3>1. CASE s = r
      <4>1. receivable'[s] = vrow
        BY <1>5, <3>1 DEF LedgerInv, TypeOK
      <4>2. /\ receivable[r].planned = receivable[r].original /\ receivable[r].original > 0
            /\ receivable[r].received + receivable[r].open = receivable[r].original
        BY <1>0 DEF LedgerInv, BalancesAgree
      <4>3. receivable[r].received \in Nat /\ receivable[r].open \in Nat
        BY <1>1 DEF ReceivableRows
      <4> QED
        BY <4>1, <4>2, <4>3, <1>2
    <3>2. CASE s # r
      BY <1>5, <2>2, <3>2 DEF LedgerInv, TypeOK, BalancesAgree
    <3> QED
      BY <3>1, <3>2
  <2> QED
    BY <2>1, <2>2 DEF BalancesAgree
<1> QED
  BY <1>9, <1>10, <1>11, <1>d, <1>12 DEF LedgerInv, Referenced

\* A reversal gives the amount back on both sides.
LEMMA ReverseAllocationStep ==
    ASSUME LedgerInv,
           NEW h \in Handlers, NEW u \in Users, NEW k \in Keys, NEW a \in Allocations,
           NEW x \in Amounts,
           ReverseAllocation(h, u, k, a, x)
    PROVE  LedgerInv'
<1> USE LedgerAssumption, CreditAssumption
<1> DEFINE c == allocation[a].receipt
           r == allocation[a].rcv
           unallocated == receipt[c].unallocated + x
           received == receivable[r].received - x
           open == receivable[r].open + x
           rstat == IF unallocated = receipt[c].amount THEN "AVAILABLE"
                                                       ELSE "PARTIALLY_ALLOCATED"
           cstat == IF received = 0 THEN "UNPAID" ELSE "PARTIALLY_SETTLED"
           astat == IF x = Remaining(a) THEN "REVERSED" ELSE "PARTIALLY_REVERSED"
           krow == [exists |-> TRUE, alloc |-> a, amount |-> x, by |-> u]
<1>0. /\ allocation[a].exists
      /\ x <= receivable[r].received
      /\ unallocated <= receipt[c].amount
      /\ allocation' = [allocation EXCEPT ![a].status = astat]
      /\ UpdateReceipt(c, unallocated, rstat)
      /\ UpdateReceivable(r, received, open, cstat)
      /\ reversal' = [reversal EXCEPT ![k] = krow] /\ difference' = difference
      /\ leaseOver' = leaseOver /\ crm' = crm /\ disruptions' = disruptions
  BY DEF ReverseAllocation
<1>a. allocation[a] \in AllocationRows /\ c \in Receipts /\ r \in Receivables
  BY <1>0, Rows DEF LedgerInv, AllocationRows
<1>b. receipt[c].exists /\ receivable[r].confirmed
  BY <1>0 DEF LedgerInv, Referenced, AllocationsReferenced
<1>1. receipt[c] \in ReceiptRows /\ receivable[r] \in ReceivableRows
  BY <1>a, <1>b, Rows DEF LedgerInv, TypeOK
<1>2. /\ x \in Nat /\ x > 0
      /\ unallocated \in Nat /\ open \in Nat /\ received \in Nat
  <2>1. x \in Nat /\ x > 0
    OBVIOUS
  <2>2. x <= receivable[r].received
    BY <1>0
  <2>3. /\ receipt[c].unallocated \in Nat
        /\ receivable[r].open \in Nat /\ receivable[r].received \in Nat
    BY <1>1 DEF ReceiptRows, ReceivableRows
  <2> QED
    BY <2>1, <2>2, <2>3
<1>3. [allocation[a] EXCEPT !.status = astat] \in AllocationRows
  BY <1>a DEF AllocationRows, AllocationStatuses
<1>c. krow \in ReversalRows
  BY <1>2 DEF ReversalRows
<1> DEFINE crow == [exists |-> TRUE, account |-> receipt[c].account,
                    amount |-> receipt[c].amount, unallocated |-> unallocated,
                    status |-> rstat]
           vrow == [confirmed |-> TRUE, planned |-> receivable[r].planned,
                    original |-> receivable[r].original, received |-> received,
                    open |-> open, status |-> cstat]
<1>4. receipt' = [receipt EXCEPT ![c] = crow] /\ crow \in ReceiptRows
  <2>1. receipt' = [receipt EXCEPT ![c] = crow]
    BY <1>0, <1>a, <1>1 DEF UpdateReceipt
  <2>2. rstat \in ReceiptStatuses
    BY DEF ReceiptStatuses
  <2> QED
    BY <1>1, <1>2, <2>1, <2>2 DEF ReceiptRows
<1>5. receivable' = [receivable EXCEPT ![r] = vrow] /\ vrow \in ReceivableRows
  <2>1. receivable' = [receivable EXCEPT ![r] = vrow]
    BY <1>0, <1>a, <1>b, <1>1 DEF UpdateReceivable
  <2>2. cstat \in CollectionStatuses
    BY DEF CollectionStatuses
  <2> QED
    BY <1>1, <1>2, <2>1, <2>2 DEF ReceivableRows
<1>6. /\ credit' \in [CreditIds -> CreditRows]
      /\ creditCount' \in 0 .. MaxCreditEvents
      /\ creditCount' > creditCount => creditCount' \in CreditIds
  <2>1. CASE EnqueueCreditReversal(r)
    BY <1>a, <2>1, EnqueueType DEF LedgerInv, TypeOK
  <2>2. CASE UNCHANGED <<credit, creditCount>>
    BY <2>2 DEF LedgerInv, TypeOK, CreditTypeOK
  <2> QED
    BY <2>1, <2>2 DEF ReverseAllocation
<1>7. PublishAfterCommit(h) /\ job[h] = Idle
  BY DEF ReverseAllocation
<1>8. CreditTypeOK'
  BY <1>0, <1>6, <1>7, PublishAfterCommitType DEF LedgerInv, TypeOK, CreditTypeOK
<1>9. TypeOK'
  <2>1. allocation' \in [Allocations -> AllocationRows \cup {Absent}]
    BY <1>0, <1>3 DEF LedgerInv, TypeOK
  <2>2. reversal' \in [Keys -> ReversalRows \cup {Absent}]
    BY <1>0, <1>c DEF LedgerInv, TypeOK
  <2>3. receipt' \in [Receipts -> ReceiptRows \cup {Absent}]
    BY <1>4, <1>a DEF LedgerInv, TypeOK
  <2>4. receivable' \in [Receivables -> ReceivableRows]
    BY <1>5, <1>a DEF LedgerInv, TypeOK
  <2> QED
    BY <1>0, <1>8, <2>1, <2>2, <2>3, <2>4 DEF LedgerInv, TypeOK
<1>10. CallsKnown'
  BY <1>0, <1>7 DEF PublishAfterCommit, LedgerInv, TypeOK, CreditTypeOK, CallsKnown, Idle
<1>11. AllocationsReferenced'
  <2> SUFFICES ASSUME NEW b \in Allocations, allocation'[b].exists
               PROVE  /\ receipt'[allocation'[b].receipt].exists
                      /\ receivable'[allocation'[b].rcv].confirmed
    BY DEF AllocationsReferenced
  <2>1. /\ allocation[b].exists
        /\ allocation'[b].receipt = allocation[b].receipt
        /\ allocation'[b].rcv = allocation[b].rcv
    BY <1>0, <1>a, Rows DEF LedgerInv, TypeOK, AllocationRows
  <2>2. allocation[b].receipt \in Receipts /\ allocation[b].rcv \in Receivables
    BY <2>1, Rows DEF LedgerInv, AllocationRows
  <2> QED
    BY <1>4, <1>5, <1>b, <2>1, <2>2 DEF LedgerInv, TypeOK, Referenced, AllocationsReferenced
<1>d. DifferencesReferenced' /\ \A d \in Receipts : DifferencesOf(d)' = DifferencesOf(d)
  <2>1. \A d \in Differences : difference[d].exists => difference[d].receipt \in Receipts
    BY Rows DEF LedgerInv, DifferenceRows
  <2> QED
    BY <1>0, <1>4, <2>1 DEF LedgerInv, TypeOK, Referenced, DifferencesReferenced, DifferencesOf
<1>12. BalancesAgree'
  <2>1. ASSUME NEW d \in Receipts, receipt'[d].exists
        PROVE  /\ receipt'[d].amount > 0 /\ receipt'[d].unallocated <= receipt'[d].amount
               /\ DifferencesOf(d)' = {} =>
                    /\ receipt'[d].status = "AVAILABLE" <=>
                         receipt'[d].unallocated = receipt'[d].amount
                    /\ receipt'[d].status = "FULLY_ALLOCATED" <=> receipt'[d].unallocated = 0
    <3>1. CASE d = c
      <4>1. receipt'[d] = crow
        BY <1>4, <1>a, <3>1 DEF LedgerInv, TypeOK
      <4>2. receipt[c].amount > 0 /\ receipt[c].amount \in Nat
        BY <1>a, <1>b, <1>1 DEF LedgerInv, BalancesAgree, ReceiptRows
      <4>3. unallocated <= receipt[c].amount /\ unallocated > 0
        <5>1. unallocated <= receipt[c].amount
          BY <1>0
        <5>2. receipt[c].unallocated \in Nat
          BY <1>1 DEF ReceiptRows
        <5> QED
          BY <5>1, <5>2, <1>2
      <4> QED
        BY <4>1, <4>2, <4>3, <1>2
    <3>2. CASE d # c
      BY <1>4, <1>d, <2>1, <3>2 DEF LedgerInv, TypeOK, BalancesAgree
    <3> QED
      BY <3>1, <3>2
  <2>2. ASSUME NEW s \in Receivables, receivable'[s].confirmed
        PROVE  /\ receivable'[s].planned = receivable'[s].original
               /\ receivable'[s].original > 0
               /\ receivable'[s].received + receivable'[s].open = receivable'[s].original
               /\ receivable'[s].status = "SETTLED" <=> receivable'[s].open = 0
               /\ receivable'[s].status = "UNPAID" <=> receivable'[s].received = 0
    <3>1. CASE s = r
      <4>1. receivable'[s] = vrow
        BY <1>5, <1>a, <3>1 DEF LedgerInv, TypeOK
      <4>2. /\ receivable[r].planned = receivable[r].original /\ receivable[r].original > 0
            /\ receivable[r].received + receivable[r].open = receivable[r].original
        BY <1>a, <1>b DEF LedgerInv, BalancesAgree
      <4>3. receivable[r].received \in Nat /\ receivable[r].open \in Nat
        BY <1>1 DEF ReceivableRows
      <4> QED
        BY <4>1, <4>2, <4>3, <1>2
    <3>2. CASE s # r
      BY <1>5, <2>2, <3>2 DEF LedgerInv, TypeOK, BalancesAgree
    <3> QED
      BY <3>1, <3>2
  <2> QED
    BY <2>1, <2>2 DEF BalancesAgree
<1> QED
  BY <1>9, <1>10, <1>11, <1>d, <1>12 DEF LedgerInv, Referenced

\* What the update of a difference leaves in the tables.
LEMMA UpdateDifferenceType ==
    ASSUME TypeOK, NEW d \in Differences, difference[d].exists,
           NEW refund \in BOOLEAN, NEW by \in SUBSET Users, NEW status \in DifferenceStatuses,
           UpdateDifference(d, refund, by, status)
    PROVE  /\ difference' \in [Differences -> DifferenceRows \cup {Absent}]
           /\ \A e \in Differences : /\ difference'[e].exists = difference[e].exists
                                     /\ difference'[e].receipt = difference[e].receipt
                                     /\ difference'[e].amount = difference[e].amount
           /\ \A e \in Differences \ {d} : difference'[e] = difference[e]
<1> DEFINE row == [exists |-> TRUE, receipt |-> difference[d].receipt,
                   amount |-> difference[d].amount, short |-> difference[d].short,
                   refund |-> refund, by |-> by, status |-> status]
<1>1. difference[d] \in DifferenceRows
  BY Rows
<1>2. difference' = [difference EXCEPT ![d] = row]
  BY DEF UpdateDifference, TypeOK
<1>3. row \in DifferenceRows
  BY <1>1 DEF DifferenceRows
<1>4. difference[d].exists = TRUE
  BY <1>1 DEF DifferenceRows
<1> QED
  BY <1>2, <1>3, <1>4 DEF TypeOK

\* A receipt whose free balance moves within its amount, while a difference on
\* it is on record, keeps the invariant.
LEMMA HeldMoves ==
    ASSUME LedgerInv, NEW c \in Receipts, receipt[c].exists,
           NEW x \in Nat, x <= receipt[c].amount,
           UpdateReceipt(c, x, receipt[c].status),
           difference' \in [Differences -> DifferenceRows \cup {Absent}],
           \A e \in Differences :
             difference[e].exists => /\ difference'[e].exists
                                     /\ difference'[e].receipt = difference[e].receipt,
           \A e \in Differences :
             difference'[e].exists /\ ~ difference[e].exists => difference'[e].receipt = c,
           \E e \in Differences : difference'[e].exists /\ difference'[e].receipt = c,
           UNCHANGED <<receivable, allocation, reversal, creditVars>>
    PROVE  LedgerInv'
<1> DEFINE row == [exists |-> TRUE, account |-> receipt[c].account,
                   amount |-> receipt[c].amount, unallocated |-> x,
                   status |-> receipt[c].status]
<1>1. receipt[c] \in ReceiptRows
  BY Rows DEF LedgerInv
<1>2. row \in ReceiptRows
  BY <1>1 DEF ReceiptRows
<1>3. receipt' = [receipt EXCEPT ![c] = row]
  BY DEF UpdateReceipt, LedgerInv, TypeOK
<1>4. TypeOK'
  BY <1>2, <1>3 DEF LedgerInv, TypeOK, CreditTypeOK, creditVars
<1>5. CallsKnown'
  BY DEF LedgerInv, CallsKnown, creditVars
<1>6. \A e \in Receipts : receipt[e].exists => receipt'[e].exists
  BY <1>3 DEF LedgerInv, TypeOK
<1>7. AllocationsReferenced'
  <2>1. \A b \in Allocations : allocation[b].exists => allocation[b].receipt \in Receipts
    BY Rows DEF LedgerInv, AllocationRows
  <2> QED
    BY <1>6, <2>1 DEF LedgerInv, Referenced, AllocationsReferenced
<1>8. DifferencesReferenced'
  <2>1. \A e \in Differences : difference[e].exists => difference[e].receipt \in Receipts
    BY Rows DEF LedgerInv, DifferenceRows
  <2> QED
    BY <1>6, <2>1 DEF LedgerInv, Referenced, DifferencesReferenced
<1>9. BalancesAgree'
  <2>1. ASSUME NEW d \in Receipts, receipt'[d].exists
        PROVE  /\ receipt'[d].amount > 0 /\ receipt'[d].unallocated <= receipt'[d].amount
               /\ DifferencesOf(d)' = {} =>
                    /\ receipt'[d].status = "AVAILABLE" <=>
                         receipt'[d].unallocated = receipt'[d].amount
                    /\ receipt'[d].status = "FULLY_ALLOCATED" <=> receipt'[d].unallocated = 0
    <3>1. CASE d = c
      <4>1. DifferencesOf(d)' # {}
        BY <3>1 DEF DifferencesOf
      <4> QED
        BY <1>3, <3>1, <4>1 DEF LedgerInv, TypeOK, BalancesAgree
    <3>2. CASE d # c
      <4>1. DifferencesOf(d)' = {} => DifferencesOf(d) = {}
        BY DEF DifferencesOf
      <4>2. receipt'[d] = receipt[d]
        BY <1>3, <3>2 DEF LedgerInv, TypeOK
      <4> QED
        BY <2>1, <4>1, <4>2 DEF LedgerInv, BalancesAgree
    <3> QED
      BY <3>1, <3>2
  <2> QED
    BY <2>1 DEF LedgerInv, BalancesAgree
<1> QED
  BY <1>4, <1>5, <1>7, <1>8, <1>9 DEF LedgerInv, Referenced

\* A difference takes what it holds out of the receipt's free balance.
LEMMA CreateDifferenceStep ==
    ASSUME LedgerInv, NEW u \in Users, NEW d \in Differences, NEW c \in Receipts,
           NEW x \in Amounts, NEW short \in BOOLEAN,
           CreateReceiptDifference(u, d, c, x, short)
    PROVE  LedgerInv'
<1> USE LedgerAssumption
<1> DEFINE held == IF short THEN 0 ELSE x
           row == [exists |-> TRUE, receipt |-> c, amount |-> x, short |-> short,
                   refund |-> FALSE, by |-> {u}, status |-> "HELD"]
<1>1. /\ ~ difference[d].exists /\ receipt[c].exists /\ held <= receipt[c].unallocated
      /\ UpdateReceipt(c, receipt[c].unallocated - held, receipt[c].status)
      /\ difference' = [difference EXCEPT ![d] = row]
      /\ UNCHANGED <<receivable, allocation, reversal, creditVars>>
  BY DEF CreateReceiptDifference
<1>2. receipt[c] \in ReceiptRows
  BY <1>1, Rows DEF LedgerInv
<1>3. held \in Nat /\ receipt[c].unallocated \in Nat /\ receipt[c].amount \in Nat
  BY <1>2 DEF ReceiptRows
<1>4. receipt[c].unallocated - held \in Nat
  BY <1>1, <1>3
<1>5. receipt[c].unallocated - held <= receipt[c].amount
  <2>1. receipt[c].unallocated <= receipt[c].amount
    BY <1>1 DEF LedgerInv, BalancesAgree
  <2> QED
    BY <1>3, <2>1
<1>6. row \in DifferenceRows
  BY DEF DifferenceRows, DifferenceStatuses
<1>7. /\ difference' \in [Differences -> DifferenceRows \cup {Absent}]
      /\ difference'[d] = row
      /\ \A e \in Differences \ {d} : difference'[e] = difference[e]
  BY <1>1, <1>6 DEF LedgerInv, TypeOK
<1>8. /\ \A e \in Differences :
           difference[e].exists => /\ difference'[e].exists
                                   /\ difference'[e].receipt = difference[e].receipt
      /\ \A e \in Differences :
           difference'[e].exists /\ ~ difference[e].exists => difference'[e].receipt = c
      /\ \E e \in Differences : difference'[e].exists /\ difference'[e].receipt = c
  <2>1. row.exists /\ row.receipt = c
    OBVIOUS
  <2> QED
    BY <1>1, <1>7, <2>1
<1> QED
  <2> HIDE DEF held, row
  <2> QED
    BY <1>1, <1>4, <1>5, <1>7, <1>8, HeldMoves

\* Resolving, approving and refunding a difference.
LEMMA DifferenceStep ==
    ASSUME LedgerInv, DifferenceNext
    PROVE  LedgerInv'
<1>1. ASSUME NEW d \in Differences, difference[d].exists, UNCHANGED receipt,
             NEW refund \in BOOLEAN, NEW by \in SUBSET Users,
             NEW status \in DifferenceStatuses,
             UpdateDifference(d, refund, by, status),
             UNCHANGED <<receivable, allocation, reversal, creditVars>>
      PROVE  LedgerInv'
  <2>1. /\ difference' \in [Differences -> DifferenceRows \cup {Absent}]
        /\ \A e \in Differences : /\ difference'[e].exists = difference[e].exists
                                  /\ difference'[e].receipt = difference[e].receipt
    BY <1>1, UpdateDifferenceType DEF LedgerInv
  <2>2. TypeOK'
    BY <1>1, <2>1 DEF LedgerInv, TypeOK, CreditTypeOK, creditVars
  <2>3. CallsKnown'
    BY <1>1 DEF LedgerInv, CallsKnown, creditVars
  <2>4. Referenced'
    BY <1>1, <2>1 DEF LedgerInv, Referenced, AllocationsReferenced, DifferencesReferenced
  <2>5. \A c \in Receipts : DifferencesOf(c)' = DifferencesOf(c)
    BY <2>1 DEF DifferencesOf
  <2>6. BalancesAgree'
    BY <1>1, <2>5 DEF LedgerInv, BalancesAgree
  <2> QED
    BY <2>2, <2>3, <2>4, <2>6 DEF LedgerInv
<1>2. ASSUME NEW u \in Users, NEW d \in Differences, NEW refund \in BOOLEAN,
             ResolveReceiptDifference(u, d, refund)
      PROVE  LedgerInv'
  <2>1. difference[d].exists /\ difference[d] \in DifferenceRows
    BY <1>2, Rows DEF ResolveReceiptDifference, LedgerInv
  <2>2. difference[d].by \cup {u} \in SUBSET Users
    BY <2>1 DEF DifferenceRows
  <2>3. "REVIEW_PENDING" \in DifferenceStatuses
    BY DEF DifferenceStatuses
  <2> QED
    BY <1>1, <1>2, <2>1, <2>2, <2>3 DEF ResolveReceiptDifference
<1>3. ASSUME NEW u \in Users, NEW d \in Differences, ApproveReceiptDifference(u, d)
      PROVE  LedgerInv'
  <2> DEFINE c == difference[d].receipt
             x == receipt[c].unallocated + HeldBy(d)
             status == IF difference[d].refund THEN "REFUND_PENDING" ELSE "APPROVED"
  <2>1. difference[d].exists /\ difference[d] \in DifferenceRows
    BY <1>3, Rows DEF ApproveReceiptDifference, LedgerInv
  <2>2. /\ c \in Receipts /\ HeldBy(d) \in Nat
        /\ difference[d].by \in SUBSET Users /\ difference[d].refund \in BOOLEAN
    BY <2>1 DEF DifferenceRows, HeldBy
  <2>3. status \in DifferenceStatuses
    BY DEF DifferenceStatuses
  <2>4. /\ UpdateDifference(d, difference[d].refund, difference[d].by, status)
        /\ UNCHANGED <<receivable, allocation, reversal, creditVars>>
    BY <1>3 DEF ApproveReceiptDifference
  <2>5. CASE difference[d].refund
    <3>1. UNCHANGED receipt
      BY <1>3, <2>5 DEF ApproveReceiptDifference
    <3> QED
      BY <1>1, <2>1, <2>2, <2>3, <2>4, <3>1
  <2>6. CASE ~ difference[d].refund
    <3>1. x <= receipt[c].amount /\ UpdateReceipt(c, x, receipt[c].status)
      BY <1>3, <2>6 DEF ApproveReceiptDifference
    <3>2. receipt[c].exists
      BY <2>1 DEF LedgerInv, Referenced, DifferencesReferenced
    <3>3. receipt[c] \in ReceiptRows
      BY <2>2, <3>2, Rows DEF LedgerInv
    <3>4. x \in Nat
      <4>1. receipt[c].unallocated \in Nat
        BY <3>3 DEF ReceiptRows
      <4> QED
        BY <2>2, <4>1
    <3>5. /\ difference' \in [Differences -> DifferenceRows \cup {Absent}]
          /\ \A e \in Differences : /\ difference'[e].exists = difference[e].exists
                                    /\ difference'[e].receipt = difference[e].receipt
      BY <2>1, <2>2, <2>3, <2>4, UpdateDifferenceType DEF LedgerInv
    <3> QED
      BY <2>1, <2>2, <2>4, <3>1, <3>2, <3>4, <3>5, HeldMoves
  <2> QED
    BY <2>5, <2>6
<1>4. ASSUME NEW d \in Differences, ConfirmReceiptRefund(d)
      PROVE  LedgerInv'
  <2>1. difference[d].exists /\ difference[d] \in DifferenceRows
    BY <1>4, Rows DEF ConfirmReceiptRefund, LedgerInv
  <2>2. difference[d].by \in SUBSET Users
    BY <2>1 DEF DifferenceRows
  <2>3. "REFUND_CONFIRMED" \in DifferenceStatuses
    BY DEF DifferenceStatuses
  <2> QED
    BY <1>1, <1>4, <2>1, <2>2, <2>3 DEF ConfirmReceiptRefund
<1> QED
  BY <1>2, <1>3, <1>4, CreateDifferenceStep DEF DifferenceNext

\* Differences never touch the credit rows or their publishers.
LEMMA DifferenceLeavesCredit == DifferenceNext => UNCHANGED creditVars
  BY DEF DifferenceNext, CreateReceiptDifference, ResolveReceiptDifference,
         ApproveReceiptDifference, ConfirmReceiptRefund

\* Every step of the ledger or of a publisher keeps the invariant.
LEMMA LedgerStep == LedgerInv /\ [Next]_vars => LedgerInv'
<1> SUFFICES ASSUME LedgerInv, [Next]_vars PROVE LedgerInv'
  OBVIOUS
<1>1. CASE LedgerNext
  BY <1>1, ConfirmPlanStep, CreateReceiptStep, AdjustPlanStep, ConfirmAllocationStep,
     ReverseAllocationStep, DifferenceStep DEF LedgerNext
<1>2. CASE CreditNext /\ UNCHANGED ledgerVars
  <2>1. CreditTypeOK' /\ CallsKnown'
    BY <1>2, CreditStepType DEF LedgerInv, TypeOK
  <2> QED
    BY <1>2, <2>1 DEF LedgerInv, TypeOK, Referenced, AllocationsReferenced,
       DifferencesReferenced, BalancesAgree, DifferencesOf, ledgerVars
<1>3. CASE UNCHANGED vars
  BY <1>3 DEF LedgerInv, TypeOK, CreditTypeOK, CallsKnown, Referenced,
              AllocationsReferenced, DifferencesReferenced, BalancesAgree, DifferencesOf,
              vars, ledgerVars, creditVars
<1> QED
  BY <1>1, <1>2, <1>3 DEF Next

\* The tables always hold rows of their types: no balance column goes negative
\* and no publisher works on a row that does not exist.
THEOREM TypeCorrect == Spec => []TypeOK
<1>1. LedgerInv => TypeOK
  BY DEF LedgerInv
<1> QED
  BY <1>1, LedgerInit, LedgerStep, PTL DEF Spec

\* The balance columns and the statuses of receivables and receipts agree after
\* every ConfirmPlan, ConfirmAllocation, ReverseAllocation and AdjustPlan.
THEOREM BalancesAlwaysAgree == Spec => []BalancesAgree
<1>1. LedgerInv => BalancesAgree
  BY DEF LedgerInv
<1> QED
  BY <1>1, LedgerInit, LedgerStep, PTL DEF Spec

-----------------------------------------------------------------------------
(* The credit queue's facts.  Every step that writes settlement_credit_sync *)
(* moves statuses forward or inserts one row; the queue's properties follow *)
(* from that alone.                                                         *)

Waiting == {"PENDING", "RETRY_WAIT"}

\* What a step may do to the row e that exists already.
RowMoves(e) ==
    /\ credit'[e].type = credit[e].type
    /\ credit'[e].rcv = credit[e].rcv
    /\ credit'[e].original = credit[e].original
    /\ \/ credit'[e] = credit[e]
       \/ /\ credit[e].status \in Waiting \cup {"PROCESSING"}
          /\ credit'[e].status \in {"PROCESSING", "RETRY_WAIT"}
       \/ credit[e].status = "PROCESSING" /\ credit'[e].status = "DELIVERED" /\ e \in crm
       \/ /\ credit[e].status \in Waiting /\ credit'[e].status = "CANCELLED"
          /\ ~ Compensated(e)

RowsMove == creditCount' = creditCount /\ \A e \in CreditIds : RowMoves(e)

\* A row is added for a settlement, or to compensate a live one.
RowAdded ==
    \E r \in Receivables :
      \/ InsertCreditSync("completed", r, 0)
      \/ \E e \in LiveCompleted(r) : InsertCreditSync("reversed", r, e)

\* Setting the status of one live row adds no row and moves no other.
LEMMA StatusMoves ==
    ASSUME CreditTypeOK, NEW e \in CreditIds, NEW s \in CreditStatuses,
           credit' = [credit EXCEPT ![e].status = s], creditCount' = creditCount,
           \/ credit[e].status \in Waiting \cup {"PROCESSING"} /\ s \in {"PROCESSING", "RETRY_WAIT"}
           \/ credit[e].status = "PROCESSING" /\ s = "DELIVERED" /\ e \in crm
           \/ credit[e].status \in Waiting /\ s = "CANCELLED" /\ ~ Compensated(e)
    PROVE  RowsMove
<1>1. \A d \in CreditIds : d # e => credit'[d] = credit[d]
  BY DEF CreditTypeOK
<1>2. /\ credit'[e].type = credit[e].type /\ credit'[e].rcv = credit[e].rcv
      /\ credit'[e].original = credit[e].original /\ credit'[e].status = s
  BY DEF CreditTypeOK, CreditRows
<1> QED
  BY <1>1, <1>2 DEF RowsMove, RowMoves

\* A step that leaves the table alone moves every row trivially.
LEMMA Unmoved ==
    ASSUME UNCHANGED <<credit, creditCount>>
    PROVE  RowsMove
BY DEF RowsMove, RowMoves

\* What each step does to the queue.
LEMMA QueueSteps ==
    ASSUME LedgerInv, [Next]_vars
    PROVE  (RowsMove \/ RowAdded) /\ crm \subseteq crm'
<1> USE CreditAssumption
<1>1. ASSUME NEW r \in Receivables, EnqueueCreditReversal(r)
      PROVE  RowsMove \/ RowAdded
  <2>1. CASE LiveCompleted(r) = {}
    BY <1>1, <2>1, Unmoved DEF EnqueueCreditReversal
  <2>2. CASE LiveCompleted(r) # {}
    <3>1. PICK e \in LiveCompleted(r) :
            IF credit[e].status \in {"PENDING", "RETRY_WAIT"}
            THEN /\ credit' = [credit EXCEPT ![e].status = "CANCELLED"]
                 /\ UNCHANGED creditCount
            ELSE InsertCreditSync("reversed", r, e)
      BY <1>1, <2>2 DEF EnqueueCreditReversal
    <3>2. CASE credit[e].status \in {"PENDING", "RETRY_WAIT"}
      <4>1. credit' = [credit EXCEPT ![e].status = "CANCELLED"] /\ creditCount' = creditCount
        BY <3>1, <3>2
      <4>2. e \in CreditIds /\ ~ Compensated(e)
        BY DEF LiveCompleted
      <4> QED
        BY <3>2, <4>1, <4>2, StatusMoves DEF LedgerInv, TypeOK, CreditStatuses, Waiting
    <3>3. CASE credit[e].status \notin {"PENDING", "RETRY_WAIT"}
      BY <3>1, <3>3 DEF RowAdded
    <3> QED
      BY <3>2, <3>3
  <2> QED
    BY <2>1, <2>2
<1>2. CASE LedgerNext
  <2>1. crm' = crm
    BY <1>2, DifferenceLeavesCredit
       DEF LedgerNext, ConfirmPlan, CreateReceipt, ConfirmAllocation,
           ReverseAllocation, AdjustPlan, creditVars
  <2>2. ASSUME NEW h \in Handlers, NEW u \in Users, NEW a \in Allocations,
               NEW c \in Receipts, NEW r \in Receivables, NEW x \in Amounts,
               ConfirmAllocation(h, u, a, c, r, x)
        PROVE  RowsMove \/ RowAdded
    <3>1. InsertCreditSync("completed", r, 0) \/ UNCHANGED <<credit, creditCount>>
      BY <2>2 DEF ConfirmAllocation
    <3> QED
      BY <3>1, Unmoved DEF RowAdded
  <2>3. ASSUME NEW h \in Handlers, NEW u \in Users, NEW k \in Keys, NEW a \in Allocations,
               NEW x \in Amounts, ReverseAllocation(h, u, k, a, x)
        PROVE  RowsMove \/ RowAdded
    <3>1. allocation[a].rcv \in Receivables
      BY <2>3, Rows DEF ReverseAllocation, LedgerInv, AllocationRows
    <3>2. EnqueueCreditReversal(allocation[a].rcv) \/ UNCHANGED <<credit, creditCount>>
      BY <2>3 DEF ReverseAllocation
    <3> QED
      BY <1>1, <3>1, <3>2, Unmoved
  <2>4. ASSUME UNCHANGED creditVars PROVE RowsMove
    BY <2>4, Unmoved DEF creditVars
  <2> QED
    BY <1>2, <2>1, <2>2, <2>3, <2>4, DifferenceLeavesCredit
       DEF LedgerNext, ConfirmPlan, CreateReceipt, AdjustPlan
<1>3. CASE CreditNext
  <2>1. ASSUME NEW h \in Handlers, ClaimForRetry(h) PROVE RowsMove /\ crm' = crm
    <3>1. PICK e \in job[h].batch :
            IF credit[e].status \in {"PENDING", "RETRY_WAIT"}
            THEN credit' = [credit EXCEPT ![e].status = "PROCESSING"]
            ELSE UNCHANGED credit
      BY <2>1 DEF ClaimForRetry
    <3>2. e \in CreditIds
      BY DEF LedgerInv, TypeOK, CreditTypeOK, Jobs, Publishers
    <3>3. creditCount' = creditCount /\ crm' = crm
      BY <2>1 DEF ClaimForRetry
    <3>4. CASE credit[e].status \in Waiting
      BY <3>1, <3>2, <3>3, <3>4, StatusMoves DEF Waiting, LedgerInv, TypeOK, CreditStatuses
    <3>5. CASE credit[e].status \notin Waiting
      BY <3>1, <3>3, <3>5, Unmoved DEF Waiting
    <3> QED
      BY <3>3, <3>4, <3>5
  <2>2. ASSUME NEW w \in Workers, ClaimBatch(w) PROVE RowsMove /\ crm' = crm
    <3>1. PICK batch \in SUBSET {e \in CreditIds : Claimable(e)} :
            credit' = [e \in CreditIds |->
                         IF e \in batch THEN [credit[e] EXCEPT !.status = "PROCESSING"]
                                        ELSE credit[e]]
      BY <2>2 DEF ClaimBatch
    <3>2. creditCount' = creditCount /\ crm' = crm
      BY <2>2 DEF ClaimBatch
    <3>3. ASSUME NEW e \in CreditIds PROVE RowMoves(e)
      <4>1. CASE e \in batch
        <5>1. credit[e] \in CreditRows
          BY DEF LedgerInv, TypeOK, CreditTypeOK
        <5>2. credit'[e] = [credit[e] EXCEPT !.status = "PROCESSING"]
          BY <3>1, <4>1
        <5>3. /\ credit'[e].type = credit[e].type /\ credit'[e].rcv = credit[e].rcv
              /\ credit'[e].original = credit[e].original
              /\ credit'[e].status = "PROCESSING"
          BY <5>1, <5>2 DEF CreditRows
        <5>4. credit[e].status \in Waiting \cup {"PROCESSING"}
          BY <4>1 DEF Claimable, Waiting
        <5> QED
          BY <5>3, <5>4 DEF RowMoves
      <4>2. CASE e \notin batch
        BY <3>1, <4>2 DEF RowMoves
      <4> QED
        BY <4>1, <4>2
    <3> QED
      BY <3>2, <3>3 DEF RowsMove
  <2>3. ASSUME NEW p \in Publishers, RecordDelivered(p) \/ RecordRetryWait(p)
        PROVE  RowsMove /\ crm' = crm
    <3>1. job[p].ev \in CreditIds
      BY <2>3 DEF LedgerInv, TypeOK, CreditTypeOK, CallsKnown, Jobs,
                  RecordDelivered, RecordRetryWait
    <3>2. PICK s \in {"DELIVERED", "RETRY_WAIT"} :
            /\ RecordOutcome(job[p].ev, s)
            /\ s = "DELIVERED" => job[p].ev \in crm
      BY <2>3 DEF RecordDelivered, RecordRetryWait, LedgerInv, CallsKnown
    <3>3. creditCount' = creditCount /\ crm' = crm
      BY <2>3 DEF RecordDelivered, RecordRetryWait
    <3>4. CASE credit[job[p].ev].status = "PROCESSING"
      BY <3>1, <3>2, <3>3, <3>4, StatusMoves
         DEF RecordOutcome, LedgerInv, TypeOK, CreditStatuses
    <3>5. CASE credit[job[p].ev].status # "PROCESSING"
      BY <3>2, <3>3, <3>5, Unmoved DEF RecordOutcome
    <3> QED
      BY <3>3, <3>4, <3>5
  <2>4. ASSUME NEW p \in Publishers, NEW e \in CreditIds,
               \/ PublishAccepted(p, e)
               \/ PublishFailed(p, e, TRUE) \/ PublishFailed(p, e, FALSE)
        PROVE  RowsMove /\ crm \subseteq crm'
    <3>1. UNCHANGED <<credit, creditCount>> /\ crm \subseteq crm'
      BY <2>4 DEF PublishAccepted, PublishFailed
    <3> QED
      BY <3>1, Unmoved
  <2>5. ASSUME UNCHANGED <<credit, creditCount>>, crm' = crm
        PROVE  RowsMove /\ crm \subseteq crm'
    BY <2>5, Unmoved
  <2> QED
    BY <1>3, <2>1, <2>2, <2>3, <2>4, <2>5
       DEF CreditNext, ResendCreditSync, Abandon, LeaseExpires
<1>4. CASE UNCHANGED vars
  BY <1>4, Unmoved DEF vars, creditVars
<1> QED
  BY <1>2, <1>3, <1>4 DEF Next

\* A reversed row names a row of the table.
ReversalsRefer ==
    \A e \in CreditIds : credit[e].type = "reversed" => credit[e].original \in CreditIds

QueueInv == RowsInOrder /\ ReversalsRefer /\ DeliveredWasReceived /\ CompensatedOnce

\* The empty queue satisfies the queue's invariant.
LEMMA QueueInit == Init => QueueInv
BY DEF Init, CreditInit, QueueInv, RowsInOrder, ReversalsRefer, DeliveredWasReceived,
       CompensatedOnce, NoRow

\* Moving statuses forward keeps the queue's facts.
LEMMA RowsMoveKeep ==
    ASSUME LedgerInv, QueueInv, RowsMove, crm \subseteq crm'
    PROVE  QueueInv'
<1>1. RowsInOrder'
  <2> SUFFICES ASSUME NEW e \in CreditIds, e > creditCount
               PROVE  credit'[e] = NoRow
    BY DEF RowsMove, RowsInOrder
  <2>1. credit[e] = NoRow
    BY DEF QueueInv, RowsInOrder
  <2> QED
    BY <2>1 DEF RowsMove, RowMoves, NoRow, Waiting
<1>2. ReversalsRefer'
  BY DEF RowsMove, RowMoves, QueueInv, ReversalsRefer
<1>3. DeliveredWasReceived'
  BY DEF RowsMove, RowMoves, QueueInv, DeliveredWasReceived
<1>4. CompensatedOnce'
  <2> SUFFICES ASSUME NEW e \in CreditIds, NEW f \in CreditIds,
                      credit'[e].type = "reversed"
               PROVE  /\ credit'[credit'[e].original].type = "completed"
                      /\ credit'[credit'[e].original].status # "CANCELLED"
                      /\ credit'[e].rcv = credit'[credit'[e].original].rcv
                      /\ (/\ credit'[f].type = "reversed"
                          /\ credit'[f].original = credit'[e].original) => e = f
    BY DEF CompensatedOnce
  <2> DEFINE o == credit[e].original
  <2>1. credit[e].type = "reversed" /\ credit'[e].original = o /\ o \in CreditIds
    BY DEF RowsMove, RowMoves, QueueInv, ReversalsRefer
  <2>2. Compensated(o)
    BY <2>1 DEF Compensated
  <2>3. /\ credit[o].type = "completed" /\ credit[o].status # "CANCELLED"
        /\ credit[e].rcv = credit[o].rcv
        /\ (credit[f].type = "reversed" /\ credit[f].original = o) => e = f
    BY <2>1 DEF QueueInv, CompensatedOnce
  <2>4. credit'[o].type = "completed" /\ credit'[o].status # "CANCELLED"
    BY <2>1, <2>2, <2>3 DEF RowsMove, RowMoves
  <2> QED
    BY <2>1, <2>3, <2>4 DEF RowsMove, RowMoves
<1> QED
  BY <1>1, <1>2, <1>3, <1>4 DEF QueueInv

\* So does adding a row.
LEMMA RowAddedKeeps ==
    ASSUME LedgerInv, QueueInv, RowAdded, crm \subseteq crm'
    PROVE  /\ QueueInv'
           /\ \A e \in CreditIds : credit[e] # NoRow => credit'[e] = credit[e]
<1> USE CreditAssumption
<1>1. PICK r \in Receivables, type \in {"completed", "reversed"},
           original \in 0 .. MaxCreditEvents :
        /\ InsertCreditSync(type, r, original)
        /\ type = "reversed" => original \in LiveCompleted(r)
  BY DEF RowAdded, LiveCompleted, CreditIds
<1> DEFINE n == creditCount + 1
<1>2. n \in CreditIds /\ creditCount' = n /\ creditCount \in Nat
  BY <1>1 DEF InsertCreditSync, LedgerInv, TypeOK, CreditTypeOK, CreditIds
<1>3. credit[n] = NoRow
  BY <1>2 DEF QueueInv, RowsInOrder
<1>4. /\ credit'[n].type = type /\ credit'[n].rcv = r
      /\ credit'[n].original = original /\ credit'[n].status = "PENDING"
  BY <1>1, <1>2 DEF InsertCreditSync, LedgerInv, TypeOK, CreditTypeOK
<1>5. \A e \in CreditIds : e # n => credit'[e] = credit[e]
  BY <1>1 DEF InsertCreditSync, LedgerInv, TypeOK, CreditTypeOK
<1>6. \A e \in CreditIds : credit[e] # NoRow => credit'[e] = credit[e]
  BY <1>3, <1>5
<1>7. \A e \in CreditIds : credit[e].type # "NONE" => e # n /\ credit'[e] = credit[e]
  BY <1>3, <1>5 DEF NoRow
<1>8. RowsInOrder'
  BY <1>2, <1>5 DEF QueueInv, RowsInOrder, CreditIds
<1>9. ReversalsRefer'
  BY <1>1, <1>4, <1>5 DEF QueueInv, ReversalsRefer, LiveCompleted
<1>10. DeliveredWasReceived'
  BY <1>4, <1>5 DEF QueueInv, DeliveredWasReceived
<1>11. CompensatedOnce'
  <2> SUFFICES ASSUME NEW e \in CreditIds, NEW f \in CreditIds,
                      credit'[e].type = "reversed"
               PROVE  /\ credit'[credit'[e].original].type = "completed"
                      /\ credit'[credit'[e].original].status # "CANCELLED"
                      /\ credit'[e].rcv = credit'[credit'[e].original].rcv
                      /\ (/\ credit'[f].type = "reversed"
                          /\ credit'[f].original = credit'[e].original) => e = f
    BY DEF CompensatedOnce
  <2>1. CASE e = n
    <3>1. /\ credit'[e].original = original /\ original \in CreditIds
          /\ credit[original].type = "completed" /\ credit[original].rcv = r
          /\ credit[original].status # "CANCELLED" /\ ~ Compensated(original)
      BY <1>1, <1>4, <2>1 DEF LiveCompleted
    <3>2. credit'[original] = credit[original]
      BY <1>7, <3>1
    <3>3. (credit'[f].type = "reversed" /\ credit'[f].original = original) => f = n
      BY <1>5, <3>1 DEF Compensated
    <3> QED
      BY <1>4, <2>1, <3>1, <3>2, <3>3
  <2>2. CASE e # n
    <3> DEFINE o == credit[e].original
    <3>1. credit'[e] = credit[e] /\ credit[e].type = "reversed" /\ o \in CreditIds
      BY <1>5, <2>2 DEF QueueInv, ReversalsRefer
    <3>2. /\ credit[o].type = "completed" /\ credit[o].status # "CANCELLED"
          /\ credit[e].rcv = credit[o].rcv
          /\ (credit[f].type = "reversed" /\ credit[f].original = o) => e = f
      BY <3>1 DEF QueueInv, CompensatedOnce
    <3>3. credit'[o] = credit[o]
      BY <1>7, <3>1, <3>2
    <3>4. (credit'[n].type = "reversed" /\ credit'[n].original = o) => FALSE
      BY <1>1, <1>4, <3>1 DEF LiveCompleted, Compensated
    <3> QED
      BY <1>5, <3>1, <3>2, <3>3, <3>4
  <2> QED
    BY <2>1, <2>2
<1> QED
  BY <1>6, <1>8, <1>9, <1>10, <1>11 DEF QueueInv

\* Every step of the ledger or of a publisher keeps the queue's invariant.
LEMMA QueueStep == LedgerInv /\ QueueInv /\ [Next]_vars => QueueInv'
BY QueueSteps, RowsMoveKeep, RowAddedKeeps

\* A row is DELIVERED only if the CRM has received it, with any number of
\* workers and requests whose leases overlap.
THEOREM DeliveredIsReceived == Spec => []DeliveredWasReceived
<1>1. QueueInv => DeliveredWasReceived
  BY DEF QueueInv
<1> QED
  BY <1>1, LedgerInit, LedgerStep, QueueInit, QueueStep, PTL DEF Spec

\* A settlement event is compensated at most once and never after it was
\* cancelled, however reversals and publishers interleave.
THEOREM CompensatesOnce == Spec => []CompensatedOnce
<1>1. QueueInv => CompensatedOnce
  BY DEF QueueInv
<1> QED
  BY <1>1, LedgerInit, LedgerStep, QueueInit, QueueStep, PTL DEF Spec

\* A DELIVERED or CANCELLED row is never written again.
THEOREM CreditRowsTerminal == Spec => CreditTerminal
<1>1. ASSUME LedgerInv, QueueInv, [Next]_vars
      PROVE  [\A e \in CreditIds : credit[e].status \in {"DELIVERED", "CANCELLED"} =>
                credit'[e] = credit[e]]_vars
  <2> SUFFICES ASSUME NEW e \in CreditIds, credit[e].status \in {"DELIVERED", "CANCELLED"}
               PROVE  credit'[e] = credit[e]
    OBVIOUS
  <2>1. CASE RowsMove
    BY <2>1 DEF RowsMove, RowMoves, Waiting
  <2>2. CASE RowAdded
    <3>1. credit[e] # NoRow
      BY DEF NoRow
    <3> QED
      BY <1>1, <2>2, <3>1, QueueSteps, RowAddedKeeps
  <2> QED
    BY <1>1, <2>1, <2>2, QueueSteps
<1> QED
  BY <1>1, LedgerInit, LedgerStep, QueueInit, QueueStep, PTL DEF Spec, CreditTerminal

-----------------------------------------------------------------------------
(* The ledger and its publishers implement DeliveryQueue.  The invariant    *)
(* this takes beyond QueueInv: a publisher only ever holds rows that exist. *)

Recorded(e) == credit[e].status # "NONE"

RowsRecorded == \A e \in CreditIds : e <= creditCount => Recorded(e)

BatchRecorded == \A p \in Publishers : \A e \in job[p].batch : Recorded(e)

\* No publisher has a row before the first one is written.
LEMMA RecordedInit == Init => RowsRecorded /\ BatchRecorded
BY CreditAssumption DEF Init, CreditInit, RowsRecorded, BatchRecorded, CreditIds, Idle

\* A row stays on record, and every row up to creditCount is.
LEMMA RowsStayRecorded ==
    ASSUME LedgerInv, QueueInv, RowsRecorded, [Next]_vars
    PROVE  RowsRecorded' /\ \A e \in CreditIds : Recorded(e) => Recorded(e)'
<1> USE CreditAssumption
<1>1. CASE RowsMove
  BY <1>1 DEF RowsMove, RowMoves, RowsRecorded, Recorded
<1>2. CASE RowAdded
  <2>1. PICK r \in Receivables, type \in {"completed", "reversed"},
             original \in 0 .. MaxCreditEvents : InsertCreditSync(type, r, original)
    BY <1>2 DEF RowAdded, LiveCompleted, CreditIds
  <2>2. /\ creditCount + 1 \in CreditIds /\ creditCount' = creditCount + 1
        /\ creditCount \in Nat
    BY <2>1 DEF InsertCreditSync, LedgerInv, TypeOK, CreditTypeOK, CreditIds
  <2>3. credit'[creditCount + 1].status = "PENDING"
    BY <2>1, <2>2 DEF InsertCreditSync, LedgerInv, TypeOK, CreditTypeOK
  <2>4. \A e \in CreditIds : e # creditCount + 1 => credit'[e] = credit[e]
    BY <2>1 DEF InsertCreditSync, LedgerInv, TypeOK, CreditTypeOK
  <2>5. \A e \in CreditIds : e <= creditCount' => e = creditCount + 1 \/ e <= creditCount
    BY <2>2 DEF CreditIds
  <2> QED
    BY <2>2, <2>3, <2>4, <2>5 DEF RowsRecorded, Recorded
<1> QED
  BY <1>1, <1>2, QueueSteps

\* What a publisher takes into its batch is on record.
LEMMA BatchStaysRecorded ==
    ASSUME LedgerInv, QueueInv, RowsRecorded, BatchRecorded, [Next]_vars
    PROVE  BatchRecorded'
<1> USE CreditAssumption
<1>1. RowsRecorded' /\ \A e \in CreditIds : Recorded(e) => Recorded(e)'
  BY RowsStayRecorded
<1>2. \A p \in Publishers : job[p].batch \subseteq CreditIds
  BY DEF LedgerInv, TypeOK, CreditTypeOK, Jobs
<1>3. ASSUME NEW p \in Publishers, NEW batch \in SUBSET CreditIds,
             \A e \in batch : Recorded(e)',
             \A q \in Publishers : q # p => job'[q] = job[q],
             job'[p].batch = batch
      PROVE  BatchRecorded'
  BY <1>1, <1>2, <1>3 DEF BatchRecorded
<1>4. ASSUME job' = job PROVE BatchRecorded'
  BY <1>1, <1>2, <1>4 DEF BatchRecorded
<1>5. ASSUME NEW h \in Handlers, PublishAfterCommit(h), RowsMove \/ RowAdded
      PROVE  BatchRecorded'
  <2>1. creditCount' > creditCount => \E n \in CreditIds : n = creditCount' /\ Recorded(n)'
    <3>1. LedgerInv'
      BY LedgerStep
    <3>2. CreditTypeOK /\ CreditTypeOK'
      BY <3>1 DEF LedgerInv, TypeOK
    <3>3. creditCount' \in 0 .. MaxCreditEvents /\ creditCount \in Nat
      BY <3>2 DEF CreditTypeOK
    <3>4. ASSUME creditCount' > creditCount, NEW n, n = creditCount'
          PROVE  n \in CreditIds /\ n <= creditCount'
      BY <3>3, <3>4 DEF CreditIds
    <3> QED
      BY <1>1, <3>4 DEF RowsRecorded
  <2>2. /\ h \in Publishers
        /\ \A q \in Publishers : q # h => job'[q] = job[q]
        /\ job'[h].batch = IF creditCount' > creditCount THEN {creditCount'} ELSE {}
    <3>1. h \in Publishers /\ job \in [Publishers -> Jobs]
      BY DEF Publishers, LedgerInv, TypeOK, CreditTypeOK
    <3>2. Idle.batch = {}
      BY DEF Idle
    <3>3. CASE creditCount' > creditCount
      <4>1. job' = [job EXCEPT ![h] = [pc |-> "retry", ev |-> 0, batch |-> {creditCount'}]]
        BY <1>5, <3>3 DEF PublishAfterCommit
      <4> QED
        BY <3>1, <3>3, <4>1
    <3>4. CASE ~ (creditCount' > creditCount)
      <4>1. job' = [job EXCEPT ![h] = Idle]
        BY <1>5, <3>4 DEF PublishAfterCommit
      <4> QED
        BY <3>1, <3>2, <3>4, <4>1
    <3> QED
      BY <3>3, <3>4
  <2>3. CASE creditCount' > creditCount
    <3>1. PICK n \in CreditIds : n = creditCount' /\ Recorded(n)'
      BY <2>1, <2>3
    <3>2. job'[h].batch = {n}
      BY <2>2, <2>3, <3>1
    <3> QED
      BY <1>3, <2>2, <3>1, <3>2
  <2>4. CASE ~ (creditCount' > creditCount)
    <3>1. job'[h].batch = {}
      BY <2>2, <2>4
    <3> QED
      BY <1>3, <2>2, <3>1
  <2> QED
    BY <2>3, <2>4
<1>6. CASE LedgerNext
  <2>1. RowsMove \/ RowAdded
    BY QueueSteps
  <2> QED
    BY <1>4, <1>5, <1>6, <2>1, DifferenceLeavesCredit
       DEF LedgerNext, ConfirmPlan, CreateReceipt, ConfirmAllocation,
           ReverseAllocation, AdjustPlan, creditVars
<1>7. CASE CreditNext
  <2>1. ASSUME NEW h \in Handlers, NEW e \in CreditIds, ResendCreditSync(h, e)
        PROVE  BatchRecorded'
    <3>1. Recorded(e)'
      BY <1>1, <2>1 DEF ResendCreditSync, RowsRecorded
    <3> QED
      BY <1>3, <2>1, <3>1 DEF ResendCreditSync, Publishers, LedgerInv, TypeOK, CreditTypeOK
  <2>2. ASSUME NEW p \in Publishers, NEW batch \in SUBSET job[p].batch,
               \A q \in Publishers : q # p => job'[q] = job[q], job'[p].batch = batch
        PROVE  BatchRecorded'
    BY <1>1, <1>2, <1>3, <2>2 DEF BatchRecorded
  <2>3. ASSUME NEW h \in Handlers, ClaimForRetry(h) PROVE BatchRecorded'
    <3>1. h \in Publishers /\ job[h] \in Jobs
      BY DEF Publishers, LedgerInv, TypeOK, CreditTypeOK
    <3>2. job' = [job EXCEPT ![h].pc = "claimed"] \/ job' = [job EXCEPT ![h] = Idle]
      BY <2>3 DEF ClaimForRetry
    <3>3. job'[h].batch = job[h].batch \/ job'[h].batch = {}
      BY <3>1, <3>2 DEF Idle, Jobs, LedgerInv, TypeOK, CreditTypeOK
    <3>4. \A q \in Publishers : q # h => job'[q] = job[q]
      BY <3>1, <3>2 DEF LedgerInv, TypeOK, CreditTypeOK
    <3> QED
      BY <2>2, <3>1, <3>3, <3>4
  <2>4. ASSUME NEW w \in Workers, ClaimBatch(w) PROVE BatchRecorded'
    <3>1. PICK batch \in SUBSET {e \in CreditIds : Claimable(e)} :
            job' = [job EXCEPT ![w] = [pc |-> "claimed", ev |-> 0, batch |-> batch]]
      BY <2>4 DEF ClaimBatch
    <3>2. \A e \in batch : Recorded(e)'
      BY <1>1, <3>1 DEF Claimable, Recorded
    <3>3. /\ w \in Publishers /\ job'[w].batch = batch
          /\ \A q \in Publishers : q # w => job'[q] = job[q]
      BY <3>1 DEF Publishers, LedgerInv, TypeOK, CreditTypeOK
    <3> QED
      BY <1>3, <3>2, <3>3
  <2>5. ASSUME NEW p \in Publishers, NEW e \in CreditIds,
               \/ PublishAccepted(p, e)
               \/ PublishFailed(p, e, TRUE) \/ PublishFailed(p, e, FALSE)
        PROVE  BatchRecorded'
    <3>1. /\ job'[p].batch = job[p].batch
          /\ \A q \in Publishers : q # p => job'[q] = job[q]
      BY <2>5 DEF PublishAccepted, PublishFailed, LedgerInv, TypeOK, CreditTypeOK
    <3> QED
      BY <2>2, <3>1
  <2>6. ASSUME NEW p \in Publishers, NextInBatch(p) PROVE BatchRecorded'
    <3>1. /\ job'[p].batch \subseteq job[p].batch
          /\ \A q \in Publishers : q # p => job'[q] = job[q]
      BY <2>6 DEF NextInBatch, LedgerInv, TypeOK, CreditTypeOK, Idle
    <3> QED
      BY <2>2, <3>1
  <2>7. ASSUME NEW p \in Publishers, Abandon(p) PROVE BatchRecorded'
    BY <2>2, <2>7 DEF Abandon, LedgerInv, TypeOK, CreditTypeOK, Idle
  <2> QED
    BY <1>4, <1>7, <2>1, <2>3, <2>4, <2>5, <2>6, <2>7
       DEF CreditNext, RecordDelivered, RecordRetryWait, LeaseExpires
<1>8. CASE UNCHANGED vars
  BY <1>4, <1>8 DEF vars, creditVars
<1> QED
  BY <1>6, <1>7, <1>8 DEF Next

\* Writing one status is one step, or none, of the abstract row.
LEMMA StateChanges ==
    ASSUME CreditTypeOK, NEW e \in CreditIds, NEW s \in CreditStatuses,
           credit' = [credit EXCEPT ![e].status = s]
    PROVE  /\ QueueState' = [QueueState EXCEPT ![e] = StateOf(s)]
           /\ QueueState[e] = StateOf(credit[e].status)
<1>1. \A d \in CreditIds : d # e => credit'[d] = credit[d]
  BY DEF CreditTypeOK
<1>2. credit'[e].status = s
  BY DEF CreditTypeOK, CreditRows
<1> DEFINE new == [QueueState EXCEPT ![e] = StateOf(s)]
<1>3. ASSUME NEW d \in CreditIds PROVE StateOf(credit'[d].status) = new[d]
  <2>1. d \in DOMAIN QueueState
    BY DEF QueueState
  <2>2. CASE d = e
    BY <1>2, <2>1, <2>2
  <2>3. CASE d # e
    <3>1. new[d] = QueueState[d]
      BY <2>1, <2>3
    <3>2. QueueState[d] = StateOf(credit[d].status)
      BY DEF QueueState
    <3> QED
      BY <1>1, <2>3, <3>1, <3>2
  <2> QED
    BY <2>2, <2>3
<1>4. new = [d \in CreditIds |-> new[d]]
  BY DEF QueueState
<1>5. QueueState' = [d \in CreditIds |-> new[d]]
  <2> HIDE DEF new
  <2> QED
    BY <1>3 DEF QueueState
<1>6. QueueState[e] = StateOf(credit[e].status)
  BY DEF QueueState
<1> QED
  BY <1>4, <1>5, <1>6

\* The abstract queue does not see how a row waits.
LEMMA WaitingStates ==
    /\ \A s \in {"PENDING", "PROCESSING", "RETRY_WAIT"} : StateOf(s) = "waiting"
    /\ StateOf("DELIVERED") = "confirmed" /\ StateOf("CANCELLED") = "withdrawn"
    /\ StateOf("NONE") = "none"
    /\ \A s \in CreditStatuses : s # "NONE" => StateOf(s) # "none"
BY DEF StateOf, CreditStatuses

\* Every step of the ledger or of a publisher is a step of the abstract queue
\* or leaves it alone.
LEMMA QueueRefined ==
    ASSUME LedgerInv, QueueInv, BatchRecorded, [Next]_vars
    PROVE  [Queue!Next]_(Queue!queueVars)
<1> USE CreditAssumption
<1> DEFINE Goal == [Queue!Next]_(Queue!queueVars)
<1>1. CreditTypeOK
  BY DEF LedgerInv, TypeOK
<1>2. ASSUME credit' = credit, crm' = crm PROVE Goal
  BY <1>2 DEF QueueState, Queue!queueVars
<1>3. ASSUME NEW e \in CreditIds, NEW s \in CreditStatuses,
             credit' = [credit EXCEPT ![e].status = s], crm' = crm,
             credit[e].status \in {"PENDING", "PROCESSING", "RETRY_WAIT"},
             \/ s \in {"PROCESSING", "RETRY_WAIT", "CANCELLED"}
             \/ s = "DELIVERED" /\ e \in crm
      PROVE  Goal
  <2>1. /\ QueueState' = [QueueState EXCEPT ![e] = StateOf(s)]
        /\ QueueState[e] = "waiting"
    BY <1>1, <1>3, StateChanges, WaitingStates
  <2>2. CASE s \in {"PROCESSING", "RETRY_WAIT"}
    <3>1. QueueState' = QueueState
      BY <2>1, <2>2, WaitingStates DEF QueueState
    <3> QED
      BY <1>3, <3>1 DEF Queue!queueVars
  <2>3. CASE s = "CANCELLED"
    <3>1. Queue!Withdraw(e)
      BY <1>3, <2>1, <2>3, WaitingStates DEF Queue!Withdraw
    <3> QED
      BY <3>1 DEF Queue!Next
  <2>4. CASE s = "DELIVERED"
    <3>1. Queue!Confirm(e)
      BY <1>3, <2>1, <2>4, WaitingStates DEF Queue!Confirm
    <3> QED
      BY <3>1 DEF Queue!Next
  <2> QED
    BY <1>3, <2>2, <2>3, <2>4
<1>4. ASSUME NEW type, NEW r, NEW original, InsertCreditSync(type, r, original), crm' = crm
      PROVE  Goal
  <2> DEFINE n == creditCount + 1
  <2>1. n \in CreditIds /\ creditCount < n
    BY <1>1, <1>4 DEF InsertCreditSync, CreditTypeOK, CreditIds
  <2>2. credit[n].status = "NONE"
    BY <2>1 DEF QueueInv, RowsInOrder, NoRow
  <2>3. /\ credit'[n].status = "PENDING"
        /\ \A d \in CreditIds : d # n => credit'[d] = credit[d]
    BY <1>1, <1>4, <2>1 DEF InsertCreditSync, CreditTypeOK
  <2>4. QueueState[n] = "none" /\ QueueState' = [QueueState EXCEPT ![n] = "waiting"]
    BY <2>1, <2>2, <2>3, WaitingStates DEF QueueState
  <2>5. Queue!Enqueue(n)
    BY <1>4, <2>4 DEF Queue!Enqueue
  <2> QED
    BY <2>1, <2>5 DEF Queue!Next
<1>5. CASE LedgerNext
  <2>1. crm' = crm
    BY <1>5, DifferenceLeavesCredit
       DEF LedgerNext, ConfirmPlan, CreateReceipt, ConfirmAllocation,
           ReverseAllocation, AdjustPlan, creditVars
  <2>2. ASSUME NEW r, EnqueueCreditReversal(r) PROVE Goal
    <3>1. CASE LiveCompleted(r) = {}
      BY <1>2, <2>1, <2>2, <3>1 DEF EnqueueCreditReversal
    <3>2. CASE LiveCompleted(r) # {}
      <4>1. PICK e \in LiveCompleted(r) :
              IF credit[e].status \in {"PENDING", "RETRY_WAIT"}
              THEN credit' = [credit EXCEPT ![e].status = "CANCELLED"]
              ELSE InsertCreditSync("reversed", r, e)
        BY <2>2, <3>2 DEF EnqueueCreditReversal
      <4>2. e \in CreditIds /\ "CANCELLED" \in CreditStatuses
        BY DEF LiveCompleted, CreditStatuses
      <4>3. CASE credit[e].status \in {"PENDING", "RETRY_WAIT"}
        BY <1>3, <2>1, <4>1, <4>2, <4>3
      <4>4. CASE credit[e].status \notin {"PENDING", "RETRY_WAIT"}
        BY <1>4, <2>1, <4>1, <4>4
      <4> QED
        BY <4>3, <4>4
    <3> QED
      BY <3>1, <3>2
  <2>3. ASSUME NEW h \in Handlers, NEW u \in Users, NEW a \in Allocations,
               NEW c \in Receipts, NEW r \in Receivables, NEW x \in Amounts,
               ConfirmAllocation(h, u, a, c, r, x)
        PROVE  Goal
    <3>1. InsertCreditSync("completed", r, 0) \/ UNCHANGED <<credit, creditCount>>
      BY <2>3 DEF ConfirmAllocation
    <3> QED
      BY <1>2, <1>4, <2>1, <3>1
  <2>4. ASSUME NEW h \in Handlers, NEW u \in Users, NEW k \in Keys, NEW a \in Allocations,
               NEW x \in Amounts, ReverseAllocation(h, u, k, a, x)
        PROVE  Goal
    <3>1. EnqueueCreditReversal(allocation[a].rcv) \/ UNCHANGED <<credit, creditCount>>
      BY <2>4 DEF ReverseAllocation
    <3> QED
      BY <1>2, <2>1, <2>2, <3>1
  <2>5. ASSUME UNCHANGED creditVars PROVE Goal
    BY <1>2, <2>5 DEF creditVars
  <2> QED
    BY <1>5, <2>3, <2>4, <2>5, DifferenceLeavesCredit
       DEF LedgerNext, ConfirmPlan, CreateReceipt, AdjustPlan
<1>6. CASE CreditNext
  <2>1. ASSUME NEW h \in Handlers, ClaimForRetry(h) PROVE Goal
    <3>1. PICK e \in job[h].batch :
            IF credit[e].status \in {"PENDING", "RETRY_WAIT"}
            THEN credit' = [credit EXCEPT ![e].status = "PROCESSING"]
            ELSE UNCHANGED credit
      BY <2>1 DEF ClaimForRetry
    <3>2. e \in CreditIds /\ "PROCESSING" \in CreditStatuses
      BY <1>1 DEF CreditTypeOK, Jobs, Publishers, CreditStatuses
    <3>3. crm' = crm
      BY <2>1 DEF ClaimForRetry
    <3>4. CASE credit[e].status \in {"PENDING", "RETRY_WAIT"}
      BY <1>3, <3>1, <3>2, <3>3, <3>4
    <3>5. CASE credit[e].status \notin {"PENDING", "RETRY_WAIT"}
      BY <1>2, <3>1, <3>3, <3>5
    <3> QED
      BY <3>4, <3>5
  <2>2. ASSUME NEW w \in Workers, ClaimBatch(w) PROVE Goal
    <3>1. PICK batch \in SUBSET {e \in CreditIds : Claimable(e)} :
            credit' = [e \in CreditIds |->
                         IF e \in batch THEN [credit[e] EXCEPT !.status = "PROCESSING"]
                                        ELSE credit[e]]
      BY <2>2 DEF ClaimBatch
    <3>2. ASSUME NEW e \in CreditIds PROVE StateOf(credit'[e].status) = StateOf(credit[e].status)
      <4>1. CASE e \in batch
        <5>1. credit'[e] = [credit[e] EXCEPT !.status = "PROCESSING"] /\ credit[e] \in CreditRows
          BY <1>1, <3>1, <4>1 DEF CreditTypeOK
        <5>2. credit'[e].status = "PROCESSING"
          BY <5>1 DEF CreditRows
        <5>3. credit[e].status \in {"PENDING", "PROCESSING", "RETRY_WAIT"}
          BY <4>1 DEF Claimable
        <5> QED
          BY <5>2, <5>3, WaitingStates
      <4>2. CASE e \notin batch
        BY <3>1, <4>2
      <4> QED
        BY <4>1, <4>2
    <3>3. QueueState' = QueueState
      BY <3>2 DEF QueueState
    <3>4. crm' = crm
      BY <2>2 DEF ClaimBatch
    <3> QED
      BY <3>3, <3>4 DEF Queue!queueVars
  <2>3. ASSUME NEW p \in Publishers, RecordDelivered(p) \/ RecordRetryWait(p) PROVE Goal
    <3>1. job[p].ev \in CreditIds
      BY <2>3 DEF LedgerInv, TypeOK, CreditTypeOK, CallsKnown, Jobs,
                  RecordDelivered, RecordRetryWait
    <3>2. PICK s \in {"DELIVERED", "RETRY_WAIT"} :
            /\ RecordOutcome(job[p].ev, s)
            /\ s = "DELIVERED" => job[p].ev \in crm
      BY <2>3 DEF RecordDelivered, RecordRetryWait, LedgerInv, CallsKnown
    <3>3. crm' = crm
      BY <2>3 DEF RecordDelivered, RecordRetryWait
    <3>4. CASE credit[job[p].ev].status = "PROCESSING"
      <4>1. credit' = [credit EXCEPT ![job[p].ev].status = s] /\ s \in CreditStatuses
        BY <3>2, <3>4 DEF RecordOutcome, CreditStatuses
      <4> QED
        BY <1>3, <3>1, <3>2, <3>3, <3>4, <4>1
    <3>5. CASE credit[job[p].ev].status # "PROCESSING"
      BY <1>2, <3>2, <3>3, <3>5 DEF RecordOutcome
    <3> QED
      BY <3>4, <3>5
  <2>4. ASSUME NEW p \in Publishers, NEW e \in CreditIds,
               \/ PublishAccepted(p, e)
               \/ PublishFailed(p, e, TRUE) \/ PublishFailed(p, e, FALSE)
        PROVE  Goal
    <3>1. e \in job[p].batch /\ credit' = credit /\ (crm' = crm \/ crm' = crm \cup {e})
      BY <2>4 DEF PublishAccepted, PublishFailed
    <3>2. credit[e].status # "NONE" /\ credit[e].status \in CreditStatuses
      BY <1>1, <3>1 DEF BatchRecorded, Recorded, CreditTypeOK, CreditRows
    <3>3. QueueState[e] # "none" /\ QueueState' = QueueState
      BY <3>1, <3>2, WaitingStates DEF QueueState
    <3>4. CASE crm' = crm \cup {e}
      <4>1. Queue!Receive(e)
        BY <3>3, <3>4 DEF Queue!Receive
      <4> QED
        BY <4>1 DEF Queue!Next
    <3> QED
      BY <1>2, <3>1, <3>4
  <2> QED
    BY <1>2, <1>6, <2>1, <2>2, <2>3, <2>4
       DEF CreditNext, ResendCreditSync, Abandon, LeaseExpires
<1>7. CASE UNCHANGED vars
  BY <1>2, <1>7 DEF vars, creditVars
<1> QED
  BY <1>5, <1>6, <1>7 DEF Next

\* The ledger with its requests, workers, leases and lost answers implements
\* the queue its writers may rely on, for any number of rows and publishers.
THEOREM QueueImplemented == Spec => ImplementsQueue
<1>1. Init => Queue!Init
  BY WaitingStates DEF Init, CreditInit, Queue!Init, QueueState, NoRow
<1>2. LedgerInv /\ QueueInv /\ BatchRecorded /\ [Next]_vars
        => [Queue!Next]_(Queue!queueVars)
  BY QueueRefined
<1>3. LedgerInv /\ QueueInv /\ RowsRecorded /\ BatchRecorded /\ [Next]_vars
        => RowsRecorded' /\ BatchRecorded'
  BY RowsStayRecorded, BatchStaysRecorded
<1> QED
  BY <1>1, <1>2, <1>3, LedgerInit, LedgerStep, QueueInit, QueueStep, RecordedInit, PTL
     DEF Spec, ImplementsQueue, Queue!Spec

-----------------------------------------------------------------------------
\* Receipts, allocations, reversals and differences keep their parties and
\* amounts for good.
THEOREM FactsAreImmutable == Spec => FactsImmutable
<1> DEFINE Kept ==
      /\ \A c \in Receipts : receipt[c].exists =>
           /\ receipt'[c].exists
           /\ receipt'[c].amount = receipt[c].amount
           /\ receipt'[c].account = receipt[c].account
      /\ \A a \in Allocations : allocation[a].exists =>
           [allocation'[a] EXCEPT !.status = "CONFIRMED"] =
             [allocation[a] EXCEPT !.status = "CONFIRMED"]
      /\ \A k \in Keys : reversal[k].exists => reversal'[k] = reversal[k]
      /\ \A d \in Differences : difference[d].exists =>
           /\ difference'[d].exists
           /\ difference'[d].receipt = difference[d].receipt
           /\ difference'[d].amount = difference[d].amount
           /\ difference[d].status \in {"APPROVED", "REFUND_CONFIRMED"} =>
                difference'[d] = difference[d]
<1>1. ASSUME LedgerInv, [Next]_vars
      PROVE  Kept
  <2>1. ASSUME UNCHANGED ledgerVars PROVE Kept
    BY <2>1 DEF ledgerVars
  <2>2. ASSUME NEW c \in Receipts, NEW n \in Accounts, NEW x \in Amounts,
               CreateReceipt(c, n, x)
        PROVE  Kept
    BY <1>1, <2>2 DEF CreateReceipt, LedgerInv, TypeOK
  <2>3. ASSUME NEW r \in Receivables, NEW x \in Amounts \cup AdjustAmounts,
               ConfirmPlan(r, x) \/ AdjustPlan(r, x)
        PROVE  Kept
    BY <2>3 DEF ConfirmPlan, AdjustPlan
  <2>4. ASSUME NEW h \in Handlers, NEW u \in Users, NEW a \in Allocations,
               NEW c \in Receipts, NEW r \in Receivables, NEW x \in Amounts,
               ConfirmAllocation(h, u, a, c, r, x)
        PROVE  Kept
    <3>1. \A b \in Allocations : allocation[b].exists => allocation'[b] = allocation[b]
      BY <1>1, <2>4 DEF ConfirmAllocation, LedgerInv, TypeOK
    <3>2. \E y, s : UpdateReceipt(c, y, s)
      BY <2>4 DEF ConfirmAllocation
    <3>3. reversal' = reversal /\ difference' = difference
      BY <2>4 DEF ConfirmAllocation
    <3> QED
      BY <1>1, <3>1, <3>2, <3>3 DEF UpdateReceipt, LedgerInv, TypeOK
  <2>5. ASSUME NEW h \in Handlers, NEW u \in Users, NEW k \in Keys, NEW a \in Allocations,
               NEW x \in Amounts, ReverseAllocation(h, u, k, a, x)
        PROVE  Kept
    <3>1. \E s : allocation' = [allocation EXCEPT ![a].status = s]
      BY <2>5 DEF ReverseAllocation
    <3>2. \A b \in Allocations : allocation[b].exists =>
            [allocation'[b] EXCEPT !.status = "CONFIRMED"] =
              [allocation[b] EXCEPT !.status = "CONFIRMED"]
      BY <1>1, <3>1 DEF LedgerInv, TypeOK
    <3>3. \E y, s : UpdateReceipt(allocation[a].receipt, y, s)
      BY <2>5 DEF ReverseAllocation
    <3>4. /\ \A j \in Keys : reversal[j].exists => reversal'[j] = reversal[j]
          /\ difference' = difference
      BY <1>1, <2>5 DEF ReverseAllocation, KeyUnused, LedgerInv, TypeOK
    <3> QED
      BY <1>1, <3>2, <3>3, <3>4 DEF UpdateReceipt, LedgerInv, TypeOK
  <2>6. CASE DifferenceNext
    <3>1. ASSUME NEW c \in Receipts, NEW y, UpdateReceipt(c, y, receipt[c].status)
          PROVE  \A e \in Receipts : receipt[e].exists =>
                   /\ receipt'[e].exists
                   /\ receipt'[e].amount = receipt[e].amount
                   /\ receipt'[e].account = receipt[e].account
      BY <1>1, <3>1 DEF UpdateReceipt, LedgerInv, TypeOK
    <3>2. ASSUME NEW d \in Differences, difference[d].exists,
                 difference[d].status \notin {"APPROVED", "REFUND_CONFIRMED"},
                 NEW refund, NEW by, NEW status, UpdateDifference(d, refund, by, status)
          PROVE  \A e \in Differences : difference[e].exists =>
                   /\ difference'[e].exists
                   /\ difference'[e].receipt = difference[e].receipt
                   /\ difference'[e].amount = difference[e].amount
                   /\ difference[e].status \in {"APPROVED", "REFUND_CONFIRMED"} =>
                        difference'[e] = difference[e]
      BY <1>1, <3>2 DEF UpdateDifference, LedgerInv, TypeOK
    <3>3. ASSUME NEW u \in Users, NEW d \in Differences, NEW c \in Receipts,
                 NEW x \in Amounts, NEW short \in BOOLEAN,
                 CreateReceiptDifference(u, d, c, x, short)
          PROVE  Kept
      <4>1. \A e \in Differences : difference[e].exists => difference'[e] = difference[e]
        BY <1>1, <3>3 DEF CreateReceiptDifference, LedgerInv, TypeOK
      <4>2. UNCHANGED <<allocation, reversal>>
        BY <3>3 DEF CreateReceiptDifference
      <4>3. \E y : UpdateReceipt(c, y, receipt[c].status)
        BY <3>3 DEF CreateReceiptDifference
      <4> QED
        BY <3>1, <4>1, <4>2, <4>3
    <3>4. ASSUME NEW u \in Users, NEW d \in Differences, ApproveReceiptDifference(u, d)
          PROVE  Kept
      <4>1. /\ difference[d].exists /\ difference[d].status = "REVIEW_PENDING"
            /\ \E refund, by, status : UpdateDifference(d, refund, by, status)
        BY <3>4 DEF ApproveReceiptDifference
      <4>2. UNCHANGED <<allocation, reversal>>
        BY <3>4 DEF ApproveReceiptDifference
      <4>3. \/ UNCHANGED receipt
            \/ \E y : UpdateReceipt(difference[d].receipt, y,
                                    receipt[difference[d].receipt].status)
        BY <3>4 DEF ApproveReceiptDifference
      <4>4. difference[d].receipt \in Receipts
        BY <1>1, <4>1, Rows DEF LedgerInv, DifferenceRows
      <4>5. \A e \in Receipts : receipt[e].exists =>
              /\ receipt'[e].exists
              /\ receipt'[e].amount = receipt[e].amount
              /\ receipt'[e].account = receipt[e].account
        BY <3>1, <4>3, <4>4
      <4> QED
        BY <3>2, <4>1, <4>2, <4>5
    <3>5. ASSUME NEW d \in Differences,
                 \/ \E u \in Users, refund \in BOOLEAN : ResolveReceiptDifference(u, d, refund)
                 \/ ConfirmReceiptRefund(d)
          PROVE  Kept
      <4>1. /\ difference[d].exists
            /\ difference[d].status \notin {"APPROVED", "REFUND_CONFIRMED"}
            /\ \E refund, by, status : UpdateDifference(d, refund, by, status)
        BY <3>5 DEF ResolveReceiptDifference, ConfirmReceiptRefund
      <4>2. UNCHANGED <<receipt, allocation, reversal>>
        BY <3>5 DEF ResolveReceiptDifference, ConfirmReceiptRefund
      <4> QED
        BY <3>2, <4>1, <4>2
    <3> QED
      BY <2>6, <3>3, <3>4, <3>5 DEF DifferenceNext
  <2> QED
    BY <1>1, <2>1, <2>2, <2>3, <2>4, <2>5, <2>6 DEF Next, LedgerNext, vars
<1> QED
  BY <1>1, LedgerInit, LedgerStep, PTL DEF Spec, FactsImmutable

-----------------------------------------------------------------------------
(* Money is conserved.  The sums of MoneyConserved run over the rows that   *)
(* match a condition; here they run over all rows, and a row that does not *)
(* match adds nothing, so that a step changes a sum at one row.  The tables *)
(* are parameters: the facts below hold of them before and after a step.    *)

\* What each reversal takes off an allocation.
ReversalsOf(rv, a) ==
    [k \in Keys |-> IF rv[k].exists /\ rv[k].alloc = a THEN rv[k].amount ELSE 0]

TotalReversed(rv, a) == SumOver(ReversalsOf(rv, a), Keys)

\* What each allocation still takes of a receipt.
FromReceipt(al, rv, c) ==
    [a \in Allocations |-> IF al[a].exists /\ al[a].receipt = c
                           THEN al[a].amount - TotalReversed(rv, a) ELSE 0]

\* What each allocation still pays of a receivable.
ToReceivable(al, rv, r) ==
    [a \in Allocations |-> IF al[a].exists /\ al[a].rcv = r
                           THEN al[a].amount - TotalReversed(rv, a) ELSE 0]

\* What each difference holds of a receipt.
HeldFrom(df, c) ==
    [d \in Differences |-> IF /\ df[d].exists /\ df[d].receipt = c
                              /\ df[d].status # "APPROVED" /\ ~ df[d].short
                           THEN df[d].amount ELSE 0]

ReceiptSummed(rc, al, rv, df, c) ==
    rc[c].exists =>
      rc[c].amount - rc[c].unallocated =
        SumOver(FromReceipt(al, rv, c), Allocations) + SumOver(HeldFrom(df, c), Differences)

ReceivableSummed(rcv, al, rv, r) ==
    rcv[r].received = SumOver(ToReceivable(al, rv, r), Allocations)

ReversalsWithin(al, rv, a) ==
    al[a].exists =>
      /\ TotalReversed(rv, a) <= al[a].amount
      /\ al[a].status = "REVERSED" <=> TotalReversed(rv, a) = al[a].amount
      /\ al[a].status = "CONFIRMED" <=> TotalReversed(rv, a) = 0

MoneySummed(rcv, rc, df, al, rv) ==
    /\ \A c \in Receipts : ReceiptSummed(rc, al, rv, df, c)
    /\ \A r \in Receivables : ReceivableSummed(rcv, al, rv, r)
    /\ \A a \in Allocations : ReversalsWithin(al, rv, a)

ReversalTables == [Keys -> ReversalRows \cup {Absent}]
AllocationTables == [Allocations -> AllocationRows \cup {Absent}]
DifferenceTables == [Differences -> DifferenceRows \cup {Absent}]

\* The reversals of an allocation add up to an amount.
LEMMA ReversalAmounts ==
    ASSUME NEW rv \in ReversalTables
    PROVE  /\ \A a : \A k \in Keys : ReversalsOf(rv, a)[k] \in Nat
           /\ \A a : TotalReversed(rv, a) \in Nat
<1>1. \A k \in Keys : rv[k].exists => rv[k].amount \in Nat
  <2>1. ~ Absent.exists /\ \A v \in ReversalRows : v.amount \in Nat
    BY DEF Absent, ReversalRows
  <2> QED
    BY <2>1 DEF ReversalTables
<1>2. ASSUME NEW a PROVE \A k \in Keys : ReversalsOf(rv, a)[k] \in Nat
  BY <1>1 DEF ReversalsOf
<1>3. ASSUME NEW a PROVE TotalReversed(rv, a) \in Nat
  BY <1>2, SumNat, LedgerAssumption DEF TotalReversed
<1> QED
  BY <1>2, <1>3

\* The summands are integers.
LEMMA NetSummands ==
    ASSUME NEW rv \in ReversalTables, NEW al \in AllocationTables
    PROVE  /\ \A c : \A a \in Allocations : FromReceipt(al, rv, c)[a] \in Int
           /\ \A r : \A a \in Allocations : ToReceivable(al, rv, r)[a] \in Int
<1>1. \A a \in Allocations : al[a].exists => al[a].amount \in Nat
  <2>1. ~ Absent.exists /\ \A v \in AllocationRows : v.amount \in Nat
    BY DEF Absent, AllocationRows
  <2> QED
    BY <2>1 DEF AllocationTables
<1>2. \A a : TotalReversed(rv, a) \in Nat
  BY ReversalAmounts
<1>3. ASSUME NEW c, NEW a \in Allocations PROVE FromReceipt(al, rv, c)[a] \in Int
  BY <1>1, <1>2 DEF FromReceipt
<1>4. ASSUME NEW c, NEW a \in Allocations PROVE ToReceivable(al, rv, c)[a] \in Int
  BY <1>1, <1>2 DEF ToReceivable
<1> QED
  BY <1>3, <1>4

\* And so is what a difference holds.
LEMMA HeldSummands ==
    ASSUME NEW df \in DifferenceTables
    PROVE  \A c : \A d \in Differences : HeldFrom(df, c)[d] \in Int
<1>1. \A d \in Differences : df[d].exists => df[d].amount \in Nat
  <2>1. ~ Absent.exists /\ \A v \in DifferenceRows : v.amount \in Nat
    BY DEF Absent, DifferenceRows
  <2> QED
    BY <2>1 DEF DifferenceTables
<1>2. ASSUME NEW c, NEW d \in Differences PROVE HeldFrom(df, c)[d] \in Int
  BY <1>1 DEF HeldFrom
<1> QED
  BY <1>2

\* A sum over the matching rows is the sum over all rows: reversals,
LEMMA MatchingReversals ==
    ASSUME NEW rv \in ReversalTables, NEW c, NEW f, \A k \in Keys : f[k] = rv[k].amount
    PROVE  SumOver(f, {k \in Keys : rv[k].exists /\ rv[k].alloc = c}) = TotalReversed(rv, c)
<1> USE LedgerAssumption
<1> DEFINE T == {k \in Keys : rv[k].exists /\ rv[k].alloc = c}
           g == ReversalsOf(rv, c)
<1>1. /\ \A k \in T : f[k] = g[k]
      /\ \A k \in Keys \ T : g[k] = 0
      /\ T \in SUBSET Keys
  BY DEF ReversalsOf
<1>2. \A k \in Keys : g[k] \in Int
  BY ReversalAmounts
<1> HIDE DEF T, g
<1>3. SumOver(f, T) = SumOver(g, Keys)
  BY <1>1, <1>2, SumFilter
<1> QED
  BY <1>3 DEF T, g, TotalReversed

\* allocations by receipt,
LEMMA MatchingReceipt ==
    ASSUME NEW rv \in ReversalTables, NEW al \in AllocationTables, NEW c, NEW net,
           \A a \in Allocations : net[a] = al[a].amount - TotalReversed(rv, a)
    PROVE  SumOver(net, {a \in Allocations : al[a].exists /\ al[a].receipt = c})
             = SumOver(FromReceipt(al, rv, c), Allocations)
<1> USE LedgerAssumption
<1> DEFINE T == {a \in Allocations : al[a].exists /\ al[a].receipt = c}
           g == FromReceipt(al, rv, c)
<1>1. /\ \A a \in T : net[a] = g[a]
      /\ \A a \in Allocations \ T : g[a] = 0
      /\ T \in SUBSET Allocations
  BY DEF FromReceipt
<1>2. \A a \in Allocations : g[a] \in Int
  BY NetSummands
<1> HIDE DEF T, g
<1>3. SumOver(net, T) = SumOver(g, Allocations)
  BY <1>1, <1>2, SumFilter
<1> QED
  BY <1>3 DEF T, g

\* allocations by receivable,
LEMMA MatchingReceivable ==
    ASSUME NEW rv \in ReversalTables, NEW al \in AllocationTables, NEW c, NEW net,
           \A a \in Allocations : net[a] = al[a].amount - TotalReversed(rv, a)
    PROVE  SumOver(net, {a \in Allocations : al[a].exists /\ al[a].rcv = c})
             = SumOver(ToReceivable(al, rv, c), Allocations)
<1> USE LedgerAssumption
<1> DEFINE T == {a \in Allocations : al[a].exists /\ al[a].rcv = c}
           g == ToReceivable(al, rv, c)
<1>1. /\ \A a \in T : net[a] = g[a]
      /\ \A a \in Allocations \ T : g[a] = 0
      /\ T \in SUBSET Allocations
  BY DEF ToReceivable
<1>2. \A a \in Allocations : g[a] \in Int
  BY NetSummands
<1> HIDE DEF T, g
<1>3. SumOver(net, T) = SumOver(g, Allocations)
  BY <1>1, <1>2, SumFilter
<1> QED
  BY <1>3 DEF T, g

\* and differences.
LEMMA MatchingHeld ==
    ASSUME NEW df \in DifferenceTables, NEW c, NEW held,
           \A d \in Differences : held[d] = IF df[d].short THEN 0 ELSE df[d].amount
    PROVE  SumOver(held, {d \in Differences : /\ df[d].exists /\ df[d].receipt = c
                                              /\ df[d].status # "APPROVED"})
             = SumOver(HeldFrom(df, c), Differences)
<1> USE LedgerAssumption
<1> DEFINE T == {d \in Differences : /\ df[d].exists /\ df[d].receipt = c
                                     /\ df[d].status # "APPROVED"}
           g == HeldFrom(df, c)
<1>1. /\ \A d \in T : held[d] = g[d]
      /\ \A d \in Differences \ T : g[d] = 0
      /\ T \in SUBSET Differences
  BY DEF HeldFrom
<1>2. \A d \in Differences : g[d] \in Int
  BY HeldSummands
<1> HIDE DEF T, g
<1>3. SumOver(held, T) = SumOver(g, Differences)
  BY <1>1, <1>2, SumFilter
<1> QED
  BY <1>3 DEF T, g

\* MoneyConserved in terms of these sums.
LEMMA MoneyRestated ==
    ASSUME TypeOK
    PROVE  /\ \A a : Reversed(a) = TotalReversed(reversal, a)
           /\ MoneyConserved <=> MoneySummed(receivable, receipt, difference, allocation, reversal)
<1> DEFINE f == [k \in Keys |-> reversal[k].amount]
           net == [a \in Allocations |-> allocation[a].amount - Reversed(a)]
           held == [d \in Differences |-> HeldBy(d)]
           RevSet(a) == {k \in Keys : reversal[k].exists /\ reversal[k].alloc = a}
           RcSet(c) == {a \in Allocations : allocation[a].exists /\ allocation[a].receipt = c}
           RvSet(r) == {a \in Allocations : allocation[a].exists /\ allocation[a].rcv = r}
           HeldSet(c) == {d \in DifferencesOf(c) : difference[d].status # "APPROVED"}
<1>1. /\ reversal \in ReversalTables /\ allocation \in AllocationTables
      /\ difference \in DifferenceTables
  BY DEF TypeOK, ReversalTables, AllocationTables, DifferenceTables
<1>2. ASSUME NEW a PROVE Reversed(a) = SumOver(f, RevSet(a))
  BY DEF Reversed, SumOver, MapThenSumSet, MapThenFoldSet
<1>3. ASSUME NEW c PROVE NetOf(RcSet(c)) = SumOver(net, RcSet(c))
  BY DEF NetOf, SumOver, MapThenSumSet, MapThenFoldSet
<1>4. ASSUME NEW r PROVE NetOf(RvSet(r)) = SumOver(net, RvSet(r))
  BY DEF NetOf, SumOver, MapThenSumSet, MapThenFoldSet
<1>5. ASSUME NEW c PROVE MapThenSumSet(HeldBy, HeldSet(c)) = SumOver(held, HeldSet(c))
  BY DEF SumOver, MapThenSumSet, MapThenFoldSet, DifferencesOf
<1>6. ASSUME NEW a PROVE Reversed(a) = TotalReversed(reversal, a)
  <2>1. \A k \in Keys : f[k] = reversal[k].amount
    OBVIOUS
  <2> HIDE DEF f
  <2> QED
    BY <1>1, <1>2, <2>1, MatchingReversals
<1>7. \A a \in Allocations : net[a] = allocation[a].amount - TotalReversed(reversal, a)
  BY <1>6
<1>8. ASSUME NEW c
      PROVE  /\ SumOver(net, RcSet(c)) = SumOver(FromReceipt(allocation, reversal, c), Allocations)
             /\ SumOver(net, RvSet(c)) = SumOver(ToReceivable(allocation, reversal, c), Allocations)
  <2> HIDE DEF net
  <2> QED
    BY <1>1, <1>7, MatchingReceipt, MatchingReceivable
<1>9. ASSUME NEW c PROVE SumOver(held, HeldSet(c)) = SumOver(HeldFrom(difference, c), Differences)
  <2>1. \A d \in Differences : held[d] = IF difference[d].short THEN 0 ELSE difference[d].amount
    BY DEF HeldBy
  <2>2. HeldSet(c) = {d \in Differences : /\ difference[d].exists /\ difference[d].receipt = c
                                          /\ difference[d].status # "APPROVED"}
    BY DEF DifferencesOf
  <2> HIDE DEF held, HeldSet
  <2> QED
    BY <1>1, <2>1, <2>2, MatchingHeld
<1> DEFINE HeldSum(c) == MapThenSumSet(HeldBy, HeldSet(c))
<1>10. ASSUME NEW c PROVE HeldSum(c) = SumOver(HeldFrom(difference, c), Differences)
  <2>1. HeldSum(c) = SumOver(held, HeldSet(c))
    BY <1>5
  <2> HIDE DEF HeldSum
  <2> QED
    BY <2>1, <1>9
<1>11. ASSUME NEW c
       PROVE  /\ NetOf(RcSet(c)) = SumOver(FromReceipt(allocation, reversal, c), Allocations)
              /\ NetOf(RvSet(c)) = SumOver(ToReceivable(allocation, reversal, c), Allocations)
  BY <1>3, <1>4, <1>8
<1>12. MoneyConserved <=>
         /\ \A c \in Receipts : receipt[c].exists =>
              receipt[c].amount - receipt[c].unallocated = NetOf(RcSet(c)) + HeldSum(c)
         /\ \A r \in Receivables : receivable[r].received = NetOf(RvSet(r))
         /\ \A a \in Allocations : allocation[a].exists =>
              /\ Reversed(a) <= allocation[a].amount
              /\ allocation[a].status = "REVERSED" <=> Reversed(a) = allocation[a].amount
              /\ allocation[a].status = "CONFIRMED" <=> Reversed(a) = 0
  BY DEF MoneyConserved
<1> HIDE DEF HeldSum, RcSet, RvSet
<1> QED
  BY <1>6, <1>10, <1>11, <1>12
     DEF MoneySummed, ReceiptSummed, ReceivableSummed, ReversalsWithin

\* The sums of the present tables.
LedgerSummed == MoneySummed(receivable, receipt, difference, allocation, reversal)

\* Conservation of the sums is conservation of money.
LEMMA MoneyIsSummed == TypeOK => (LedgerSummed => MoneyConserved)
BY MoneyRestated DEF LedgerSummed

\* A step that touches one allocation changes each sum over allocations by what
\* changes at that one.
LEMMA NetChange ==
    ASSUME NEW rv \in ReversalTables, NEW rv2 \in ReversalTables,
           NEW al \in AllocationTables, NEW al2 \in AllocationTables, NEW a \in Allocations,
           \A b \in Allocations \ {a} : /\ al2[b] = al[b]
                                        /\ TotalReversed(rv2, b) = TotalReversed(rv, b)
    PROVE  /\ \A c : SumOver(FromReceipt(al2, rv2, c), Allocations) =
                       SumOver(FromReceipt(al, rv, c), Allocations)
                         - FromReceipt(al, rv, c)[a] + FromReceipt(al2, rv2, c)[a]
           /\ \A r : SumOver(ToReceivable(al2, rv2, r), Allocations) =
                       SumOver(ToReceivable(al, rv, r), Allocations)
                         - ToReceivable(al, rv, r)[a] + ToReceivable(al2, rv2, r)[a]
<1>0. IsFiniteSet(Allocations)
  BY LedgerAssumption
<1>1. ASSUME NEW c
      PROVE  SumOver(FromReceipt(al2, rv2, c), Allocations) =
               SumOver(FromReceipt(al, rv, c), Allocations)
                 - FromReceipt(al, rv, c)[a] + FromReceipt(al2, rv2, c)[a]
  <2> DEFINE f == FromReceipt(al, rv, c)
             g == FromReceipt(al2, rv2, c)
  <2>1. \A b \in Allocations \ {a} : g[b] = f[b]
    BY DEF FromReceipt
  <2>2. \A b \in Allocations : f[b] \in Int /\ g[b] \in Int
    BY NetSummands
  <2> HIDE DEF f, g
  <2>3. SumOver(g, Allocations) = SumOver(f, Allocations) - f[a] + g[a]
    BY <1>0, <2>1, <2>2, SumChange
  <2> QED
    BY <2>3 DEF f, g
<1>2. ASSUME NEW r
      PROVE  SumOver(ToReceivable(al2, rv2, r), Allocations) =
               SumOver(ToReceivable(al, rv, r), Allocations)
                 - ToReceivable(al, rv, r)[a] + ToReceivable(al2, rv2, r)[a]
  <2> DEFINE f == ToReceivable(al, rv, r)
             g == ToReceivable(al2, rv2, r)
  <2>1. \A b \in Allocations \ {a} : g[b] = f[b]
    BY DEF ToReceivable
  <2>2. \A b \in Allocations : f[b] \in Int /\ g[b] \in Int
    BY NetSummands
  <2> HIDE DEF f, g
  <2>3. SumOver(g, Allocations) = SumOver(f, Allocations) - f[a] + g[a]
    BY <1>0, <2>1, <2>2, SumChange
  <2> QED
    BY <2>3 DEF f, g
<1> QED
  BY <1>1, <1>2

\* A step that touches one difference changes what a receipt's differences hold
\* by what changes at that one.
LEMMA HeldChange ==
    ASSUME NEW df \in DifferenceTables, NEW df2 \in DifferenceTables, NEW d \in Differences,
           \A e \in Differences \ {d} : df2[e] = df[e]
    PROVE  \A c : SumOver(HeldFrom(df2, c), Differences) =
                    SumOver(HeldFrom(df, c), Differences)
                      - HeldFrom(df, c)[d] + HeldFrom(df2, c)[d]
<1> USE LedgerAssumption
<1> TAKE c
<1> DEFINE f == HeldFrom(df, c)
           g == HeldFrom(df2, c)
<1>1. \A e \in Differences \ {d} : g[e] = f[e]
  BY DEF HeldFrom
<1>2. \A e \in Differences : f[e] \in Int /\ g[e] \in Int
  BY HeldSummands
<1> HIDE DEF f, g
<1>3. SumOver(g, Differences) = SumOver(f, Differences) - f[d] + g[d]
  BY <1>1, <1>2, SumChange
<1> QED
  BY <1>3 DEF f, g

\* A reversal changes what is reversed of an allocation at one key.
LEMMA ReversalChange ==
    ASSUME NEW rv \in ReversalTables, NEW rv2 \in ReversalTables, NEW k \in Keys,
           \A j \in Keys \ {k} : rv2[j] = rv[j]
    PROVE  \A a : TotalReversed(rv2, a) =
                    TotalReversed(rv, a) - ReversalsOf(rv, a)[k] + ReversalsOf(rv2, a)[k]
<1>0. IsFiniteSet(Keys)
  BY LedgerAssumption
<1> TAKE a
<1> DEFINE f == ReversalsOf(rv, a)
           g == ReversalsOf(rv2, a)
<1>1. \A j \in Keys \ {k} : g[j] = f[j]
  BY DEF ReversalsOf
<1>2. \A j \in Keys : f[j] \in Int /\ g[j] \in Int
  BY ReversalAmounts
<1> HIDE DEF f, g
<1>3. SumOver(g, Keys) = SumOver(f, Keys) - f[k] + g[k]
  BY <1>0, <1>1, <1>2, SumChange
<1> QED
  BY <1>3 DEF f, g, TotalReversed

\* One more reversal adds its amount to its own allocation.
LEMMA OneMoreReversal ==
    ASSUME NEW rv \in ReversalTables, NEW rv2 \in ReversalTables, NEW k \in Keys,
           NEW a, NEW x \in Nat,
           ~ rv[k].exists, rv2[k].exists, rv2[k].alloc = a, rv2[k].amount = x,
           \A j \in Keys \ {k} : rv2[j] = rv[j]
    PROVE  /\ TotalReversed(rv2, a) = TotalReversed(rv, a) + x
           /\ \A b : b # a => TotalReversed(rv2, b) = TotalReversed(rv, b)
<1>3. \A b : /\ ReversalsOf(rv, b)[k] = 0
             /\ ReversalsOf(rv2, b)[k] = IF b = a THEN x ELSE 0
  BY DEF ReversalsOf
<1>4. \A b : TotalReversed(rv2, b) =
               TotalReversed(rv, b) - ReversalsOf(rv, b)[k] + ReversalsOf(rv2, b)[k]
  BY ReversalChange
<1>5. \A b : TotalReversed(rv, b) \in Nat
  BY ReversalAmounts
<1>6. TotalReversed(rv2, a) = TotalReversed(rv, a) + x
  <2>1. TotalReversed(rv2, a) = TotalReversed(rv, a) - 0 + x
    BY <1>3, <1>4
  <2>2. TotalReversed(rv, a) \in Nat
    BY <1>5
  <2> QED
    BY <2>1, <2>2
<1>7. ASSUME NEW b, b # a PROVE TotalReversed(rv2, b) = TotalReversed(rv, b)
  <2>1. TotalReversed(rv2, b) = TotalReversed(rv, b) - 0 + 0
    BY <1>3, <1>4, <1>7
  <2>2. TotalReversed(rv, b) \in Nat
    BY <1>5
  <2> QED
    BY <2>1, <2>2
<1> QED
  BY <1>6, <1>7

\* The foreign key of a reversal.
ReversalsReferenced ==
    \A k \in Keys : reversal[k].exists => allocation[reversal[k].alloc].exists

MoneyInv == ReversalsReferenced /\ LedgerSummed

\* Nothing that does not exist is part of a sum.
LEMMA NothingSummed ==
    ASSUME LedgerInv, ReversalsReferenced
    PROVE  /\ \A a \in Allocations : ~ allocation[a].exists => TotalReversed(reversal, a) = 0
           /\ \A c \in Receipts : ~ receipt[c].exists =>
                /\ SumOver(FromReceipt(allocation, reversal, c), Allocations) = 0
                /\ SumOver(HeldFrom(difference, c), Differences) = 0
           /\ \A r \in Receivables : ~ receivable[r].confirmed =>
                SumOver(ToReceivable(allocation, reversal, r), Allocations) = 0
<1> USE LedgerAssumption
<1>1. ASSUME NEW a \in Allocations, ~ allocation[a].exists
      PROVE  TotalReversed(reversal, a) = 0
  <2>1. \A k \in Keys : ReversalsOf(reversal, a)[k] = 0
    BY <1>1 DEF ReversalsReferenced, ReversalsOf
  <2> QED
    BY <2>1, SumZero DEF TotalReversed
<1>2. ASSUME NEW c \in Receipts, ~ receipt[c].exists
      PROVE  /\ SumOver(FromReceipt(allocation, reversal, c), Allocations) = 0
             /\ SumOver(HeldFrom(difference, c), Differences) = 0
  <2>1. \A a \in Allocations : FromReceipt(allocation, reversal, c)[a] = 0
    BY <1>2 DEF LedgerInv, Referenced, AllocationsReferenced, FromReceipt
  <2>2. \A d \in Differences : HeldFrom(difference, c)[d] = 0
    BY <1>2 DEF LedgerInv, Referenced, DifferencesReferenced, HeldFrom
  <2> QED
    BY <2>1, <2>2, SumZero
<1>3. ASSUME NEW r \in Receivables, ~ receivable[r].confirmed
      PROVE  SumOver(ToReceivable(allocation, reversal, r), Allocations) = 0
  <2>1. \A a \in Allocations : ToReceivable(allocation, reversal, r)[a] = 0
    BY <1>3 DEF LedgerInv, Referenced, AllocationsReferenced, ToReceivable
  <2> QED
    BY <2>1, SumZero
<1> QED
  BY <1>1, <1>2, <1>3

\* The tables a step leaves are tables.
LEMMA Tables ==
    ASSUME TypeOK
    PROVE  /\ reversal \in ReversalTables /\ allocation \in AllocationTables
           /\ difference \in DifferenceTables
BY DEF TypeOK, ReversalTables, AllocationTables, DifferenceTables

\* Empty tables sum to nothing.
LEMMA MoneyInit == Init => MoneyInv
<1> SUFFICES ASSUME Init PROVE MoneyInv
  OBVIOUS
<1> USE LedgerAssumption
<1>1. LedgerInv
  BY LedgerInit
<1>2. ReversalsReferenced /\ \A a \in Allocations : ~ allocation[a].exists
  BY DEF Init, ReversalsReferenced, Absent
<1>3. \A c \in Receipts : ~ receipt[c].exists
  BY DEF Init, Absent
<1>4. \A r \in Receivables : ~ receivable[r].confirmed /\ receivable[r].received = 0
  BY DEF Init, PendingPlan
<1> QED
  BY <1>1, <1>2, <1>3, <1>4, NothingSummed
     DEF MoneyInv, LedgerSummed, MoneySummed, ReceiptSummed, ReceivableSummed, ReversalsWithin

\* Confirming or adjusting a plan and registering a receipt move no money.
LEMMA PlansMoveNoMoney ==
    ASSUME LedgerInv, MoneyInv,
           \/ \E r \in Receivables, x \in Amounts : ConfirmPlan(r, x)
           \/ \E c \in Receipts, n \in Accounts, x \in Amounts : CreateReceipt(c, n, x)
           \/ \E r \in Receivables, x \in AdjustAmounts : AdjustPlan(r, x)
    PROVE  MoneyInv'
<1> USE LedgerAssumption
<1>1. /\ \A c \in Receipts : ReceiptSummed(receipt, allocation, reversal, difference, c)
      /\ \A r \in Receivables : ReceivableSummed(receivable, allocation, reversal, r)
      /\ \A a \in Allocations : ReversalsWithin(allocation, reversal, a)
      /\ ReversalsReferenced
  BY DEF MoneyInv, LedgerSummed, MoneySummed
<1>2. allocation' = allocation /\ reversal' = reversal /\ difference' = difference
  BY DEF ConfirmPlan, CreateReceipt, AdjustPlan
<1>3. ReversalsReferenced' /\ \A a \in Allocations : ReversalsWithin(allocation', reversal', a)
  BY <1>1, <1>2 DEF ReversalsReferenced
<1>4. ASSUME NEW r \in Receivables, NEW x \in Amounts, ConfirmPlan(r, x) PROVE LedgerSummed'
  <2>1. /\ receipt' = receipt /\ ~ receivable[r].confirmed
        /\ receivable'[r].received = 0
        /\ \A s \in Receivables \ {r} : receivable'[s] = receivable[s]
    BY <1>4 DEF ConfirmPlan, LedgerInv, TypeOK
  <2>2. \A s \in Receivables : ReceivableSummed(receivable', allocation', reversal', s)
    BY <1>1, <1>2, <2>1, NothingSummed DEF ReceivableSummed
  <2> QED
    BY <1>1, <1>2, <1>3, <2>1, <2>2 DEF LedgerSummed, MoneySummed
<1>5. ASSUME NEW c \in Receipts, NEW n \in Accounts, NEW x \in Amounts, CreateReceipt(c, n, x)
      PROVE  LedgerSummed'
  <2>1. /\ receivable' = receivable /\ ~ receipt[c].exists
        /\ receipt'[c].amount = x /\ receipt'[c].unallocated = x
        /\ \A d \in Receipts \ {c} : receipt'[d] = receipt[d]
    BY <1>5 DEF CreateReceipt, LedgerInv, TypeOK
  <2>2. \A d \in Receipts : ReceiptSummed(receipt', allocation', reversal', difference', d)
    BY <1>1, <1>2, <2>1, NothingSummed DEF ReceiptSummed
  <2> QED
    BY <1>1, <1>2, <1>3, <2>1, <2>2 DEF LedgerSummed, MoneySummed
<1>6. ASSUME NEW r \in Receivables, NEW x \in AdjustAmounts, AdjustPlan(r, x)
      PROVE  LedgerSummed'
  <2>1. /\ receipt' = receipt
        /\ \A s \in Receivables : receivable'[s].received = receivable[s].received
    BY <1>6 DEF AdjustPlan, LedgerInv, TypeOK
  <2>2. \A s \in Receivables : ReceivableSummed(receivable', allocation', reversal', s)
    BY <1>1, <1>2, <2>1 DEF ReceivableSummed
  <2> QED
    BY <1>1, <1>2, <1>3, <2>1, <2>2 DEF LedgerSummed, MoneySummed
<1> QED
  BY <1>3, <1>4, <1>5, <1>6 DEF MoneyInv

\* An allocation takes from the receipt what it pays of the receivable.
LEMMA AllocationMovesMoney ==
    ASSUME LedgerInv, LedgerInv', MoneyInv,
           NEW h \in Handlers, NEW u \in Users, NEW a \in Allocations, NEW c \in Receipts,
           NEW r \in Receivables, NEW x \in Amounts,
           ConfirmAllocation(h, u, a, c, r, x)
    PROVE  MoneyInv'
<1> USE LedgerAssumption
<1>1. /\ \A d \in Receipts : ReceiptSummed(receipt, allocation, reversal, difference, d)
      /\ \A s \in Receivables : ReceivableSummed(receivable, allocation, reversal, s)
      /\ \A b \in Allocations : ReversalsWithin(allocation, reversal, b)
      /\ ReversalsReferenced
  BY DEF MoneyInv, LedgerSummed, MoneySummed
<1>2. /\ reversal' = reversal /\ difference' = difference
      /\ ~ allocation[a].exists /\ receipt[c].exists
      /\ allocation'[a].exists /\ allocation'[a].receipt = c /\ allocation'[a].rcv = r
      /\ allocation'[a].amount = x /\ allocation'[a].status = "CONFIRMED"
      /\ \A b \in Allocations \ {a} : allocation'[b] = allocation[b]
  BY DEF ConfirmAllocation, LedgerInv, TypeOK
<1>3. /\ receipt'[c].amount = receipt[c].amount
      /\ receipt'[c].unallocated = receipt[c].unallocated - x
      /\ \A d \in Receipts \ {c} : receipt'[d] = receipt[d]
  BY DEF ConfirmAllocation, UpdateReceipt, LedgerInv, TypeOK
<1>4. /\ receivable'[r].received = receivable[r].received + x
      /\ \A s \in Receivables \ {r} : receivable'[s] = receivable[s]
  BY DEF ConfirmAllocation, UpdateReceivable, LedgerInv, TypeOK
<1>5. /\ reversal \in ReversalTables /\ allocation \in AllocationTables
      /\ allocation' \in AllocationTables
  BY DEF LedgerInv, TypeOK, ReversalTables, AllocationTables
<1>6. TotalReversed(reversal, a) = 0
  BY <1>1, <1>2, NothingSummed
<1>7. \A d : /\ FromReceipt(allocation, reversal, d)[a] = 0
             /\ FromReceipt(allocation', reversal, d)[a] = IF d = c THEN x ELSE 0
             /\ ToReceivable(allocation, reversal, d)[a] = 0
             /\ ToReceivable(allocation', reversal, d)[a] = IF d = r THEN x ELSE 0
  BY <1>2, <1>6 DEF FromReceipt, ToReceivable
<1>8. /\ \A d : SumOver(FromReceipt(allocation', reversal, d), Allocations) =
                  SumOver(FromReceipt(allocation, reversal, d), Allocations)
                    - 0 + (IF d = c THEN x ELSE 0)
      /\ \A s : SumOver(ToReceivable(allocation', reversal, s), Allocations) =
                  SumOver(ToReceivable(allocation, reversal, s), Allocations)
                    - 0 + (IF s = r THEN x ELSE 0)
  BY <1>2, <1>5, <1>7, NetChange
<1>9. /\ \A d : SumOver(FromReceipt(allocation, reversal, d), Allocations) \in Int
      /\ \A s : SumOver(ToReceivable(allocation, reversal, s), Allocations) \in Int
      /\ \A d : SumOver(HeldFrom(difference, d), Differences) \in Int
  BY <1>5, Tables, NetSummands, HeldSummands, SumUnfold DEF LedgerInv
<1>10. ASSUME NEW d \in Receipts
       PROVE  ReceiptSummed(receipt', allocation', reversal', difference', d)
  <2>1. CASE d = c
    <3>1. receipt[c].amount \in Nat /\ receipt[c].unallocated \in Nat
      BY <1>2, Rows DEF LedgerInv, ReceiptRows
    <3>2. SumOver(FromReceipt(allocation', reversal', c), Allocations) =
            SumOver(FromReceipt(allocation, reversal, c), Allocations) + x
      BY <1>2, <1>8, <1>9
    <3>3. receipt[c].amount - receipt[c].unallocated =
            SumOver(FromReceipt(allocation, reversal, c), Allocations)
              + SumOver(HeldFrom(difference, c), Differences)
      BY <1>1, <1>2 DEF ReceiptSummed
    <3> QED
      BY <1>2, <1>3, <1>9, <2>1, <3>1, <3>2, <3>3 DEF ReceiptSummed
  <2>2. CASE d # c
    <3>1. SumOver(FromReceipt(allocation', reversal', d), Allocations) =
            SumOver(FromReceipt(allocation, reversal, d), Allocations)
      BY <1>2, <1>8, <1>9, <2>2
    <3> QED
      BY <1>1, <1>2, <1>3, <2>2, <3>1 DEF ReceiptSummed
  <2> QED
    BY <2>1, <2>2
<1>11. ASSUME NEW s \in Receivables
       PROVE  ReceivableSummed(receivable', allocation', reversal', s)
  <2>1. CASE s = r
    BY <1>1, <1>2, <1>4, <1>8, <1>9, <2>1 DEF ReceivableSummed
  <2>2. CASE s # r
    BY <1>1, <1>2, <1>4, <1>8, <1>9, <2>2 DEF ReceivableSummed
  <2> QED
    BY <2>1, <2>2
<1>12. \A b \in Allocations : ReversalsWithin(allocation', reversal', b)
  BY <1>1, <1>2, <1>6 DEF ReversalsWithin
<1>13. ReversalsReferenced'
  <2>1. \A k \in Keys : reversal[k].exists => reversal[k].alloc \in Allocations
    <3>1. ~ Absent.exists /\ \A v \in ReversalRows : v.alloc \in Allocations
      BY DEF Absent, ReversalRows
    <3> QED
      BY <3>1 DEF LedgerInv, TypeOK
  <2> QED
    BY <1>1, <1>2, <2>1 DEF ReversalsReferenced
<1> QED
  BY <1>10, <1>11, <1>12, <1>13 DEF MoneyInv, LedgerSummed, MoneySummed

\* A reversal gives the receipt back what it takes off the receivable.
LEMMA ReversalMovesMoney ==
    ASSUME LedgerInv, LedgerInv', MoneyInv,
           NEW h \in Handlers, NEW u \in Users, NEW k \in Keys, NEW a \in Allocations,
           NEW x \in Amounts,
           ReverseAllocation(h, u, k, a, x)
    PROVE  MoneyInv'
<1> USE LedgerAssumption
<1> DEFINE c == allocation[a].receipt
           r == allocation[a].rcv
           total == TotalReversed(reversal, a)
<1>1. /\ \A d \in Receipts : ReceiptSummed(receipt, allocation, reversal, difference, d)
      /\ \A s \in Receivables : ReceivableSummed(receivable, allocation, reversal, s)
      /\ \A b \in Allocations : ReversalsWithin(allocation, reversal, b)
      /\ ReversalsReferenced
  BY DEF MoneyInv, LedgerSummed, MoneySummed
<1>2. /\ difference' = difference /\ ~ reversal[k].exists /\ allocation[a].exists
      /\ reversal' = [reversal EXCEPT ![k] =
                        [exists |-> TRUE, alloc |-> a, amount |-> x, by |-> u]]
  BY DEF ReverseAllocation, KeyUnused
<1>3. allocation[a] \in AllocationRows /\ c \in Receipts /\ r \in Receivables
  BY <1>2, Rows DEF LedgerInv, AllocationRows
<1>4. receipt[c].exists
  BY <1>2 DEF LedgerInv, Referenced, AllocationsReferenced
<1>5. /\ allocation'[a].exists /\ allocation'[a].receipt = c /\ allocation'[a].rcv = r
      /\ allocation'[a].amount = allocation[a].amount
      /\ allocation'[a].status = IF x = Remaining(a) THEN "REVERSED" ELSE "PARTIALLY_REVERSED"
      /\ \A b \in Allocations \ {a} : allocation'[b] = allocation[b]
  BY <1>2, <1>3 DEF ReverseAllocation, LedgerInv, TypeOK, AllocationRows
<1>6. /\ receipt'[c].amount = receipt[c].amount
      /\ receipt'[c].unallocated = receipt[c].unallocated + x
      /\ \A d \in Receipts \ {c} : receipt'[d] = receipt[d]
  BY <1>3 DEF ReverseAllocation, UpdateReceipt, LedgerInv, TypeOK
<1>7. /\ receivable'[r].received = receivable[r].received - x
      /\ \A s \in Receivables \ {r} : receivable'[s] = receivable[s]
  BY <1>3 DEF ReverseAllocation, UpdateReceivable, LedgerInv, TypeOK
<1>8. /\ reversal \in ReversalTables /\ allocation \in AllocationTables
      /\ reversal' \in ReversalTables /\ allocation' \in AllocationTables
  BY DEF LedgerInv, TypeOK, ReversalTables, AllocationTables
<1>9. /\ TotalReversed(reversal', a) = total + x
      /\ \A b : b # a => TotalReversed(reversal', b) = TotalReversed(reversal, b)
  <2>1. /\ x \in Nat /\ ~ reversal[k].exists
        /\ reversal'[k].exists /\ reversal'[k].alloc = a /\ reversal'[k].amount = x
        /\ \A j \in Keys \ {k} : reversal'[j] = reversal[j]
    BY <1>2 DEF LedgerInv, TypeOK
  <2> HIDE LedgerAssumption
  <2> HIDE DEF total
  <2>2. /\ TotalReversed(reversal', a) = TotalReversed(reversal, a) + x
        /\ \A b : b # a => TotalReversed(reversal', b) = TotalReversed(reversal, b)
    BY <1>8, <2>1, OneMoreReversal
  <2> QED
    BY <2>2 DEF total
<1>10. /\ total \in Nat /\ allocation[a].amount \in Nat /\ x \in Nat /\ x > 0
       /\ total + x <= allocation[a].amount
       /\ x = Remaining(a) <=> total + x = allocation[a].amount
  <2>1. total \in Nat /\ allocation[a].amount \in Nat /\ x \in Nat /\ x > 0
    <3>1. TotalReversed(reversal, a) \in Nat
      BY <1>8, ReversalAmounts
    <3>2. allocation[a].amount \in Nat
      BY <1>3 DEF AllocationRows
    <3> QED
      BY <3>1, <3>2
  <2>2. Remaining(a) = allocation[a].amount - total
    BY MoneyRestated DEF LedgerInv, Remaining
  <2>3. x <= Remaining(a)
    BY DEF ReverseAllocation
  <2> QED
    BY <2>1, <2>2, <2>3
<1> HIDE DEF c, r, total
<1>11. \A d : /\ FromReceipt(allocation, reversal, d)[a] =
                   (IF d = c THEN allocation[a].amount - total ELSE 0)
              /\ FromReceipt(allocation', reversal', d)[a] =
                   (IF d = c THEN allocation[a].amount - (total + x) ELSE 0)
              /\ ToReceivable(allocation, reversal, d)[a] =
                   (IF d = r THEN allocation[a].amount - total ELSE 0)
              /\ ToReceivable(allocation', reversal', d)[a] =
                   (IF d = r THEN allocation[a].amount - (total + x) ELSE 0)
  BY <1>2, <1>5, <1>9 DEF FromReceipt, ToReceivable, c, r, total
<1>12. /\ \A d : SumOver(FromReceipt(allocation', reversal', d), Allocations) =
                   SumOver(FromReceipt(allocation, reversal, d), Allocations)
                     - FromReceipt(allocation, reversal, d)[a]
                     + FromReceipt(allocation', reversal', d)[a]
       /\ \A s : SumOver(ToReceivable(allocation', reversal', s), Allocations) =
                   SumOver(ToReceivable(allocation, reversal, s), Allocations)
                     - ToReceivable(allocation, reversal, s)[a]
                     + ToReceivable(allocation', reversal', s)[a]
  BY <1>5, <1>8, <1>9, NetChange
<1>13. /\ \A d : SumOver(FromReceipt(allocation, reversal, d), Allocations) \in Int
       /\ \A s : SumOver(ToReceivable(allocation, reversal, s), Allocations) \in Int
       /\ \A d : SumOver(HeldFrom(difference, d), Differences) \in Int
  BY <1>8, Tables, NetSummands, HeldSummands, SumUnfold DEF LedgerInv
<1>14. /\ SumOver(FromReceipt(allocation', reversal', c), Allocations) =
            SumOver(FromReceipt(allocation, reversal, c), Allocations) - x
       /\ SumOver(ToReceivable(allocation', reversal', r), Allocations) =
            SumOver(ToReceivable(allocation, reversal, r), Allocations) - x
  <2>1. SumOver(FromReceipt(allocation', reversal', c), Allocations) =
          SumOver(FromReceipt(allocation, reversal, c), Allocations)
            - (allocation[a].amount - total) + (allocation[a].amount - (total + x))
    BY <1>11, <1>12
  <2>2. SumOver(ToReceivable(allocation', reversal', r), Allocations) =
          SumOver(ToReceivable(allocation, reversal, r), Allocations)
            - (allocation[a].amount - total) + (allocation[a].amount - (total + x))
    BY <1>11, <1>12
  <2>3. /\ SumOver(FromReceipt(allocation, reversal, c), Allocations) \in Int
        /\ SumOver(ToReceivable(allocation, reversal, r), Allocations) \in Int
    BY <1>13
  <2> QED
    BY <2>1, <2>2, <2>3, <1>10
<1>15. ASSUME NEW d \in Receipts
       PROVE  ReceiptSummed(receipt', allocation', reversal', difference', d)
  <2>1. CASE d = c
    <3>1. receipt[c].amount \in Nat /\ receipt[c].unallocated \in Nat
      BY <1>3, <1>4, Rows DEF LedgerInv, ReceiptRows
    <3>2. receipt[c].amount - receipt[c].unallocated =
            SumOver(FromReceipt(allocation, reversal, c), Allocations)
              + SumOver(HeldFrom(difference, c), Differences)
      BY <1>1, <1>3, <1>4 DEF ReceiptSummed
    <3>3. /\ SumOver(FromReceipt(allocation, reversal, c), Allocations) \in Int
          /\ SumOver(HeldFrom(difference, c), Differences) \in Int
      BY <1>13
    <3>4. receipt'[c].amount - receipt'[c].unallocated =
            SumOver(FromReceipt(allocation', reversal', c), Allocations)
              + SumOver(HeldFrom(difference, c), Differences)
      BY <1>6, <1>10, <1>14, <3>1, <3>2, <3>3
    <3> QED
      BY <1>2, <2>1, <3>4 DEF ReceiptSummed
  <2>2. CASE d # c
    <3>1. SumOver(FromReceipt(allocation', reversal', d), Allocations) =
            SumOver(FromReceipt(allocation, reversal, d), Allocations)
      <4>1. SumOver(FromReceipt(allocation', reversal', d), Allocations) =
              SumOver(FromReceipt(allocation, reversal, d), Allocations) - 0 + 0
        BY <1>11, <1>12, <2>2
      <4> QED
        BY <4>1, <1>13
    <3> QED
      BY <1>1, <1>2, <1>6, <2>2, <3>1 DEF ReceiptSummed
  <2> QED
    BY <2>1, <2>2
<1>16. ASSUME NEW s \in Receivables
       PROVE  ReceivableSummed(receivable', allocation', reversal', s)
  <2>1. CASE s = r
    BY <1>1, <1>7, <1>14, <2>1 DEF ReceivableSummed
  <2>2. CASE s # r
    <3>1. SumOver(ToReceivable(allocation', reversal', s), Allocations) =
            SumOver(ToReceivable(allocation, reversal, s), Allocations)
      <4>1. SumOver(ToReceivable(allocation', reversal', s), Allocations) =
              SumOver(ToReceivable(allocation, reversal, s), Allocations) - 0 + 0
        BY <1>11, <1>12, <2>2
      <4> QED
        BY <4>1, <1>13
    <3> QED
      BY <1>1, <1>7, <2>2, <3>1 DEF ReceivableSummed
  <2> QED
    BY <2>1, <2>2
<1>17. ASSUME NEW b \in Allocations PROVE ReversalsWithin(allocation', reversal', b)
  <2>1. CASE b = a
    BY <1>5, <1>9, <1>10, <2>1 DEF ReversalsWithin
  <2>2. CASE b # a
    BY <1>1, <1>5, <1>9, <2>2 DEF ReversalsWithin
  <2> QED
    BY <2>1, <2>2
<1>18. ReversalsReferenced'
  <2>1. \A j \in Keys : reversal[j].exists => reversal[j].alloc \in Allocations
    <3>1. ~ Absent.exists /\ \A v \in ReversalRows : v.alloc \in Allocations
      BY DEF Absent, ReversalRows
    <3> QED
      BY <3>1 DEF LedgerInv, TypeOK
  <2>2. /\ reversal'[k].alloc = a
        /\ \A j \in Keys \ {k} : reversal'[j] = reversal[j]
    BY <1>2 DEF LedgerInv, TypeOK
  <2> QED
    BY <1>1, <1>5, <2>1, <2>2 DEF ReversalsReferenced
<1> QED
  BY <1>15, <1>16, <1>17, <1>18 DEF MoneyInv, LedgerSummed, MoneySummed

\* The free balance of a receipt moves by what its differences come to hold.
LEMMA HeldMovesMoney ==
    ASSUME LedgerInv, LedgerInv', MoneyInv, NEW d \in Differences,
           \A e \in Differences \ {d} : difference'[e] = difference[e],
           \A c \in Receipts : receipt'[c].exists =>
             /\ receipt[c].exists
             /\ receipt'[c].amount = receipt[c].amount
             /\ receipt'[c].unallocated =
                  receipt[c].unallocated + HeldFrom(difference, c)[d] - HeldFrom(difference', c)[d],
           UNCHANGED <<receivable, allocation, reversal>>
    PROVE  MoneyInv'
<1>1. /\ \A c \in Receipts : ReceiptSummed(receipt, allocation, reversal, difference, c)
      /\ \A s \in Receivables : ReceivableSummed(receivable, allocation, reversal, s)
      /\ \A b \in Allocations : ReversalsWithin(allocation, reversal, b)
      /\ ReversalsReferenced
  BY DEF MoneyInv, LedgerSummed, MoneySummed
<1>2. difference \in DifferenceTables /\ difference' \in DifferenceTables
  BY DEF LedgerInv, TypeOK, DifferenceTables
<1>3. \A c : SumOver(HeldFrom(difference', c), Differences) =
               SumOver(HeldFrom(difference, c), Differences)
                 - HeldFrom(difference, c)[d] + HeldFrom(difference', c)[d]
  BY <1>2, HeldChange
<1>4. \A c : HeldFrom(difference, c)[d] \in Int /\ HeldFrom(difference', c)[d] \in Int
  BY <1>2, HeldSummands
<1>5. /\ \A c : SumOver(FromReceipt(allocation, reversal, c), Allocations) \in Int
      /\ \A c : SumOver(HeldFrom(difference, c), Differences) \in Int
  BY <1>2, Tables, NetSummands, HeldSummands, SumUnfold, LedgerAssumption DEF LedgerInv
<1>6. ASSUME NEW c \in Receipts
      PROVE  ReceiptSummed(receipt', allocation', reversal', difference', c)
  <2> SUFFICES ASSUME receipt'[c].exists
               PROVE  receipt'[c].amount - receipt'[c].unallocated =
                        SumOver(FromReceipt(allocation, reversal, c), Allocations)
                          + SumOver(HeldFrom(difference', c), Differences)
    BY DEF ReceiptSummed
  <2>1. receipt[c].amount \in Nat /\ receipt[c].unallocated \in Nat
    BY Rows DEF LedgerInv, ReceiptRows
  <2>2. receipt[c].amount - receipt[c].unallocated =
          SumOver(FromReceipt(allocation, reversal, c), Allocations)
            + SumOver(HeldFrom(difference, c), Differences)
    BY <1>1 DEF ReceiptSummed
  <2>3. /\ receipt'[c].amount = receipt[c].amount
        /\ receipt'[c].unallocated =
             receipt[c].unallocated + HeldFrom(difference, c)[d] - HeldFrom(difference', c)[d]
    OBVIOUS
  <2>4. /\ HeldFrom(difference, c)[d] \in Int /\ HeldFrom(difference', c)[d] \in Int
        /\ SumOver(FromReceipt(allocation, reversal, c), Allocations) \in Int
        /\ SumOver(HeldFrom(difference, c), Differences) \in Int
    BY <1>4, <1>5
  <2>5. SumOver(HeldFrom(difference', c), Differences) =
          SumOver(HeldFrom(difference, c), Differences)
            - HeldFrom(difference, c)[d] + HeldFrom(difference', c)[d]
    BY <1>3
  <2> QED
    BY <2>1, <2>2, <2>3, <2>4, <2>5
<1> QED
  BY <1>1, <1>6 DEF MoneyInv, LedgerSummed, MoneySummed, ReversalsReferenced

\* So do the operations on differences.
LEMMA DifferencesMoveMoney ==
    ASSUME LedgerInv, LedgerInv', MoneyInv, DifferenceNext
    PROVE  MoneyInv'
<1> USE LedgerAssumption
<1>1. ASSUME NEW u \in Users, NEW d \in Differences, NEW c \in Receipts, NEW x \in Amounts,
             NEW short \in BOOLEAN, CreateReceiptDifference(u, d, c, x, short)
      PROVE  MoneyInv'
  <2> DEFINE held == IF short THEN 0 ELSE x
  <2>1. /\ ~ difference[d].exists /\ receipt[c].exists
        /\ receipt' = [receipt EXCEPT ![c] =
             [exists |-> TRUE, account |-> receipt[c].account, amount |-> receipt[c].amount,
              unallocated |-> receipt[c].unallocated - held, status |-> receipt[c].status]]
        /\ difference' = [difference EXCEPT ![d] =
             [exists |-> TRUE, receipt |-> c, amount |-> x, short |-> short,
              refund |-> FALSE, by |-> {u}, status |-> "HELD"]]
        /\ UNCHANGED <<receivable, allocation, reversal>>
    BY <1>1 DEF CreateReceiptDifference, UpdateReceipt, LedgerInv, TypeOK
  <2>2. \A e \in Differences \ {d} : difference'[e] = difference[e]
    BY <2>1 DEF LedgerInv, TypeOK
  <2>3. \A b : /\ HeldFrom(difference, b)[d] = 0
               /\ HeldFrom(difference', b)[d] = IF b = c THEN held ELSE 0
    BY <2>1 DEF LedgerInv, TypeOK, HeldFrom
  <2>4. ASSUME NEW b \in Receipts, receipt'[b].exists
        PROVE  /\ receipt[b].exists
               /\ receipt'[b].amount = receipt[b].amount
               /\ receipt'[b].unallocated =
                    receipt[b].unallocated + HeldFrom(difference, b)[d] - HeldFrom(difference', b)[d]
    <3>1. receipt[b].exists
      BY <2>1, <2>4 DEF LedgerInv, TypeOK
    <3>2. receipt[b].unallocated \in Nat /\ held \in Nat
      BY <3>1, Rows DEF LedgerInv, ReceiptRows
    <3>3. CASE b = c
      <4>1. /\ receipt'[b].amount = receipt[b].amount
            /\ receipt'[b].unallocated = receipt[b].unallocated - held
        BY <2>1, <3>3 DEF LedgerInv, TypeOK
      <4>2. HeldFrom(difference, b)[d] = 0 /\ HeldFrom(difference', b)[d] = held
        BY <2>3, <3>3
      <4> HIDE DEF held
      <4> QED
        BY <3>1, <3>2, <4>1, <4>2
    <3>4. CASE b # c
      <4>1. receipt'[b] = receipt[b]
        BY <2>1, <3>4 DEF LedgerInv, TypeOK
      <4>2. HeldFrom(difference, b)[d] = 0 /\ HeldFrom(difference', b)[d] = 0
        BY <2>3, <3>4
      <4> QED
        BY <3>1, <3>2, <4>1, <4>2
    <3> QED
      BY <3>3, <3>4
  <2> QED
    BY <2>1, <2>2, <2>4, HeldMovesMoney
<1>2. ASSUME NEW d \in Differences, difference[d].exists, NEW refund \in BOOLEAN, NEW by,
             NEW status \in DifferenceStatuses,
             difference[d].status # "APPROVED", status # "APPROVED",
             UpdateDifference(d, refund, by, status),
             UNCHANGED <<receivable, receipt, allocation, reversal>>
      PROVE  MoneyInv'
  <2>1. difference' = [difference EXCEPT ![d] =
             [exists |-> TRUE, receipt |-> difference[d].receipt, amount |-> difference[d].amount,
              short |-> difference[d].short, refund |-> refund, by |-> by, status |-> status]]
    BY <1>2 DEF UpdateDifference, LedgerInv, TypeOK
  <2>2. \A e \in Differences \ {d} : difference'[e] = difference[e]
    BY <2>1 DEF LedgerInv, TypeOK
  <2>3. \A b : HeldFrom(difference', b)[d] = HeldFrom(difference, b)[d]
    BY <1>2, <2>1 DEF LedgerInv, TypeOK, HeldFrom
  <2>4. \A b : HeldFrom(difference, b)[d] \in Int
    BY Tables, HeldSummands DEF LedgerInv
  <2>5. ASSUME NEW b \in Receipts, receipt'[b].exists
        PROVE  /\ receipt[b].exists
               /\ receipt'[b].amount = receipt[b].amount
               /\ receipt'[b].unallocated =
                    receipt[b].unallocated + HeldFrom(difference, b)[d] - HeldFrom(difference', b)[d]
    <3>1. receipt' = receipt /\ receipt[b].exists
      BY <1>2, <2>5
    <3>2. receipt[b].unallocated \in Nat
      BY <3>1, Rows DEF LedgerInv, ReceiptRows
    <3> QED
      BY <2>3, <2>4, <3>1, <3>2
  <2> QED
    BY <1>2, <2>2, <2>5, HeldMovesMoney
<1>3. ASSUME NEW u \in Users, NEW d \in Differences, ApproveReceiptDifference(u, d),
             ~ difference[d].refund
      PROVE  MoneyInv'
  <2> DEFINE c == difference[d].receipt
             held == HeldBy(d)
  <2>1. /\ difference[d].exists /\ difference[d].status = "REVIEW_PENDING"
        /\ receipt' = [receipt EXCEPT ![c] =
             [exists |-> TRUE, account |-> receipt[c].account, amount |-> receipt[c].amount,
              unallocated |-> receipt[c].unallocated + held, status |-> receipt[c].status]]
        /\ difference' = [difference EXCEPT ![d] =
             [exists |-> TRUE, receipt |-> difference[d].receipt, amount |-> difference[d].amount,
              short |-> difference[d].short, refund |-> difference[d].refund,
              by |-> difference[d].by, status |-> "APPROVED"]]
        /\ UNCHANGED <<receivable, allocation, reversal>>
    BY <1>3 DEF ApproveReceiptDifference, UpdateReceipt, UpdateDifference, LedgerInv, TypeOK
  <2>2. \A e \in Differences \ {d} : difference'[e] = difference[e]
    BY <2>1 DEF LedgerInv, TypeOK
  <2>3. difference[d] \in DifferenceRows /\ c \in Receipts /\ receipt[c].exists /\ held \in Nat
    BY <2>1, Rows DEF LedgerInv, DifferenceRows, Referenced, DifferencesReferenced, HeldBy
  <2>4. \A b : /\ HeldFrom(difference, b)[d] = IF b = c THEN held ELSE 0
               /\ HeldFrom(difference', b)[d] = 0
    BY <2>1 DEF LedgerInv, TypeOK, HeldFrom, HeldBy
  <2> HIDE DEF c, held
  <2>5. ASSUME NEW b \in Receipts, receipt'[b].exists
        PROVE  /\ receipt[b].exists
               /\ receipt'[b].amount = receipt[b].amount
               /\ receipt'[b].unallocated =
                    receipt[b].unallocated + HeldFrom(difference, b)[d] - HeldFrom(difference', b)[d]
    <3>1. receipt[b].exists
      BY <2>1, <2>3, <2>5 DEF LedgerInv, TypeOK
    <3>2. receipt[b].unallocated \in Nat
      BY <3>1, Rows DEF LedgerInv, ReceiptRows
    <3>3. CASE b = c
      <4>1. /\ receipt'[b].amount = receipt[b].amount
            /\ receipt'[b].unallocated = receipt[b].unallocated + held
        BY <2>1, <3>3 DEF LedgerInv, TypeOK
      <4>2. HeldFrom(difference, b)[d] = held /\ HeldFrom(difference', b)[d] = 0
        BY <2>4, <3>3
      <4> QED
        BY <2>3, <3>1, <3>2, <4>1, <4>2
    <3>4. CASE b # c
      <4>1. receipt'[b] = receipt[b]
        BY <2>1, <3>4 DEF LedgerInv, TypeOK
      <4>2. HeldFrom(difference, b)[d] = 0 /\ HeldFrom(difference', b)[d] = 0
        BY <2>4, <3>4
      <4> QED
        BY <3>1, <3>2, <4>1, <4>2
    <3> QED
      BY <3>3, <3>4
  <2> QED
    BY <2>1, <2>2, <2>5, HeldMovesMoney
<1>4. ASSUME NEW u \in Users, NEW d \in Differences, NEW refund \in BOOLEAN,
             ResolveReceiptDifference(u, d, refund)
      PROVE  MoneyInv'
  <2>1. "REVIEW_PENDING" \in DifferenceStatuses
    BY DEF DifferenceStatuses
  <2> QED
    BY <1>2, <1>4, <2>1 DEF ResolveReceiptDifference
<1>5. ASSUME NEW u \in Users, NEW d \in Differences, ApproveReceiptDifference(u, d)
      PROVE  MoneyInv'
  <2>1. CASE difference[d].refund
    <3>1. "REFUND_PENDING" \in DifferenceStatuses /\ difference[d].refund \in BOOLEAN
          /\ difference[d].exists
      BY <1>5, Rows DEF ApproveReceiptDifference, DifferenceStatuses, LedgerInv, DifferenceRows
    <3> QED
      BY <1>2, <1>5, <2>1, <3>1 DEF ApproveReceiptDifference
  <2> QED
    BY <1>3, <1>5, <2>1
<1>6. ASSUME NEW d \in Differences, ConfirmReceiptRefund(d)
      PROVE  MoneyInv'
  <2>1. "REFUND_CONFIRMED" \in DifferenceStatuses
    BY DEF DifferenceStatuses
  <2> QED
    BY <1>2, <1>6, <2>1 DEF ConfirmReceiptRefund
<1> QED
  BY <1>1, <1>4, <1>5, <1>6 DEF DifferenceNext

\* Every step of the ledger or of a publisher conserves money.
LEMMA MoneyStep == LedgerInv /\ LedgerInv' /\ MoneyInv /\ [Next]_vars => MoneyInv'
<1> SUFFICES ASSUME LedgerInv, LedgerInv', MoneyInv, [Next]_vars PROVE MoneyInv'
  OBVIOUS
<1>1. ASSUME UNCHANGED ledgerVars PROVE MoneyInv'
  BY <1>1 DEF ledgerVars, MoneyInv, LedgerSummed, ReversalsReferenced
<1>2. CASE LedgerNext
  BY <1>2, PlansMoveNoMoney, AllocationMovesMoney, ReversalMovesMoney, DifferencesMoveMoney
     DEF LedgerNext
<1> QED
  BY <1>1, <1>2 DEF Next, vars

\* Money is neither created nor lost by any number of requests: the part of a
\* receipt that is not free is exactly its unreversed allocations and what its
\* differences hold, and a receivable's received amount is its unreversed
\* allocations, so no CHECK constraint on amounts ever refuses a transaction.
THEOREM MoneyAlwaysConserved == Spec => []MoneyConserved
<1>1. Init => LedgerInv /\ MoneyInv
  BY LedgerInit, MoneyInit
<1>2. LedgerInv /\ MoneyInv /\ [Next]_vars => LedgerInv' /\ MoneyInv'
  BY LedgerStep, MoneyStep
<1>3. LedgerInv /\ MoneyInv => MoneyConserved
  BY MoneyIsSummed DEF LedgerInv, MoneyInv
<1> QED
  BY <1>1, <1>2, <1>3, PTL DEF Spec

-----------------------------------------------------------------------------
(* Credit follows settlement.  Every step but an AdjustPlan of the           *)
(* receivable itself keeps the two in line.                                  *)

\* The live completed events of an eligible receivable.
CreditFollows(r) ==
    IF receivable[r].status = "SETTLED" THEN \E e : LiveCompleted(r) = {e}
                                        ELSE LiveCompleted(r) = {}

\* A plan that is not confirmed is unpaid.
PendingUnpaid == \A r \in Receivables : ~ receivable[r].confirmed =>
                                          receivable[r].status = "UNPAID"

\* What follows its settlement does so after the step.
FollowsOn(r) == CreditFollows(r) => CreditFollows(r)'

\* One live event, or none: what the count of CreditMatches says.
Counted == \A r \in CreditEligible : CreditMatches(r) <=> CreditFollows(r)

LEMMA FollowsCounted == Counted
<1> SUFFICES ASSUME NEW r \in CreditEligible PROVE CreditMatches(r) <=> CreditFollows(r)
  BY DEF Counted
<1>1. IsFiniteSet(CreditIds)
  BY CreditAssumption, FS_Interval DEF CreditIds
<1>2. IsFiniteSet(LiveCompleted(r))
  BY <1>1, FS_Subset DEF LiveCompleted
<1>3. /\ Cardinality(LiveCompleted(r)) = 0 <=> LiveCompleted(r) = {}
      /\ Cardinality(LiveCompleted(r)) = 1 <=> \E e : LiveCompleted(r) = {e}
  BY <1>2, FS_EmptySet, FS_Singleton
<1> QED
  BY <1>3 DEF CreditMatches, CreditFollows

\* Rows that keep their parties and are not cancelled stay as live as they were.
LEMMA LiveKept ==
    ASSUME NEW S, \A e \in CreditIds :
             /\ credit'[e].type = credit[e].type
             /\ credit'[e].rcv = credit[e].rcv
             /\ credit'[e].original = credit[e].original
             /\ credit[e].rcv \in S => (credit'[e].status = "CANCELLED" <=>
                                        credit[e].status = "CANCELLED")
    PROVE  \A r \in S : LiveCompleted(r)' = LiveCompleted(r)
<1>1. \A e : Compensated(e)' = Compensated(e)
  BY DEF Compensated
<1> QED
  BY <1>1 DEF LiveCompleted

\* No publisher cancels a row or moves one that is cancelled.
LEMMA PublishersKeepLive ==
    ASSUME LedgerInv, QueueInv, CreditNext, UNCHANGED ledgerVars
    PROVE  \A r \in Receivables : LiveCompleted(r)' = LiveCompleted(r)
<1> USE CreditAssumption
<1>1. ASSUME NEW e \in CreditIds PROVE credit'[e].status = "CANCELLED" => credit[e].status = "CANCELLED"
  <2>1. \A d \in CreditIds, s \in CreditStatuses :
          credit' = [credit EXCEPT ![d].status = s] =>
            credit'[e].status \in {credit[e].status, s}
    BY DEF LedgerInv, TypeOK, CreditTypeOK, CreditRows
  <2>2. ASSUME NEW h \in Handlers, ClaimForRetry(h)
        PROVE  credit'[e].status \in {credit[e].status, "PROCESSING"}
    <3>1. PICK d \in job[h].batch :
            \/ credit' = [credit EXCEPT ![d].status = "PROCESSING"]
            \/ credit' = credit
      BY <2>2 DEF ClaimForRetry
    <3>2. d \in CreditIds
      BY <2>2 DEF LedgerInv, TypeOK, CreditTypeOK, Jobs, Publishers
    <3> QED
      BY <2>1, <3>1, <3>2 DEF CreditStatuses
  <2>3. ASSUME NEW w \in Workers, ClaimBatch(w)
        PROVE  credit'[e].status \in {credit[e].status, "PROCESSING"}
    BY <2>3 DEF ClaimBatch, LedgerInv, TypeOK, CreditTypeOK, CreditRows
  <2>4. ASSUME NEW p \in Publishers, RecordDelivered(p) \/ RecordRetryWait(p)
        PROVE  credit'[e].status \in {credit[e].status, "DELIVERED", "RETRY_WAIT"}
    <3>1. job[p].ev \in CreditIds
      BY <2>4 DEF LedgerInv, CallsKnown, TypeOK, CreditTypeOK, Jobs, RecordDelivered, RecordRetryWait
    <3>2. PICK s \in {"DELIVERED", "RETRY_WAIT"} : RecordOutcome(job[p].ev, s)
      BY <2>4 DEF RecordDelivered, RecordRetryWait
    <3> QED
      BY <2>1, <3>1, <3>2 DEF RecordOutcome, CreditStatuses
  <2>5. ASSUME NEW p \in Publishers, NEW d \in CreditIds,
               \/ PublishAccepted(p, d)
               \/ PublishFailed(p, d, TRUE) \/ PublishFailed(p, d, FALSE)
        PROVE  credit' = credit
    BY <2>5 DEF PublishAccepted, PublishFailed
  <2> QED
    BY <2>2, <2>3, <2>4, <2>5 DEF CreditNext, ResendCreditSync, Abandon, LeaseExpires
<1>2. RowsMove \/ RowAdded
  BY QueueSteps DEF Next
<1>3. creditCount' = creditCount
  BY DEF CreditNext, ResendCreditSync, ClaimForRetry, ClaimBatch, PublishAccepted, PublishFailed,
         RecordDelivered, RecordRetryWait, Abandon, LeaseExpires
<1>4. RowsMove
  <2>1. RowAdded => creditCount' = creditCount + 1
    BY DEF RowAdded, InsertCreditSync
  <2>2. creditCount \in Nat
    BY DEF LedgerInv, TypeOK, CreditTypeOK
  <2>3. ~ RowAdded
    BY <1>3, <2>1, <2>2
  <2> QED
    BY <1>2, <2>3
<1>5. \A e \in CreditIds :
        /\ credit'[e].type = credit[e].type /\ credit'[e].rcv = credit[e].rcv
        /\ credit'[e].original = credit[e].original
        /\ credit'[e].status = "CANCELLED" <=> credit[e].status = "CANCELLED"
  BY <1>1, <1>4 DEF RowsMove, RowMoves, Waiting
<1> QED
  BY <1>5, LiveKept

\* An event for a receivable changes the live events of that receivable only.
LEMMA InsertLive ==
    ASSUME LedgerInv, QueueInv, NEW r \in Receivables, NEW type \in {"completed", "reversed"},
           NEW original \in 0 .. MaxCreditEvents, InsertCreditSync(type, r, original),
           type = "reversed" => original \in LiveCompleted(r),
           type = "completed" => original = 0
    PROVE  /\ \A s \in Receivables \ {r} : LiveCompleted(s)' = LiveCompleted(s)
           /\ type = "completed" => LiveCompleted(r)' = LiveCompleted(r) \cup {creditCount + 1}
           /\ type = "reversed" => LiveCompleted(r)' = LiveCompleted(r) \ {original}
<1> USE CreditAssumption
<1> DEFINE n == creditCount + 1
<1>1. n \in CreditIds /\ credit[n] = NoRow
  BY DEF InsertCreditSync, LedgerInv, TypeOK, CreditTypeOK, CreditIds, QueueInv, RowsInOrder
<1>2. /\ credit'[n].type = type /\ credit'[n].rcv = r
      /\ credit'[n].original = original /\ credit'[n].status = "PENDING"
      /\ \A e \in CreditIds : e # n => credit'[e] = credit[e]
  BY <1>1 DEF InsertCreditSync, LedgerInv, TypeOK, CreditTypeOK
<1>3. credit[n].type = "NONE" /\ ~ Compensated(n)
  <2>1. \A e \in CreditIds : credit[e].type = "reversed" => credit[credit[e].original].type = "completed"
    BY DEF QueueInv, CompensatedOnce
  <2>2. credit[n].type = "NONE"
    BY <1>1 DEF NoRow
  <2> QED
    BY <2>1, <2>2 DEF Compensated
<1>4. ~ (0 \in CreditIds) /\ original # n
  <2>1. ~ (0 \in CreditIds) /\ n # 0
    BY DEF CreditIds, LedgerInv, TypeOK, CreditTypeOK
  <2>2. type = "reversed" => original # n
    BY <1>3 DEF LiveCompleted
  <2> QED
    BY <2>1, <2>2
<1>5. \A e \in CreditIds : Compensated(e)' <=> Compensated(e) \/ (type = "reversed" /\ e = original)
  BY <1>1, <1>2, <1>3 DEF Compensated
<1> HIDE DEF n
<1>6. \A s \in Receivables : \A e \in CreditIds :
        e \in LiveCompleted(s)' <=>
          \/ e = n /\ type = "completed" /\ s = r
          \/ e \in LiveCompleted(s) /\ ~ (type = "reversed" /\ e = original)
  BY <1>1, <1>2, <1>3, <1>4, <1>5 DEF LiveCompleted
<1>7. \A s \in Receivables : LiveCompleted(s) \subseteq CreditIds /\ LiveCompleted(s)' \subseteq CreditIds
  BY DEF LiveCompleted
<1>8. type = "reversed" => \A s \in Receivables \ {r} : original \notin LiveCompleted(s)
  BY DEF LiveCompleted
<1> QED
  BY <1>1, <1>6, <1>7, <1>8 DEF n

\* The compensation of a receivable's settlement leaves it no live event if it
\* had one, and leaves the others theirs.
LEMMA EnqueueLive ==
    ASSUME LedgerInv, QueueInv, NEW r \in Receivables, EnqueueCreditReversal(r)
    PROVE  /\ \A s \in Receivables \ {r} : LiveCompleted(s)' = LiveCompleted(s)
           /\ \A e : LiveCompleted(r) = {e} => LiveCompleted(r)' = {}
<1> USE CreditAssumption
<1>1. CASE LiveCompleted(r) = {}
  <2>1. credit' = credit
    BY <1>1 DEF EnqueueCreditReversal
  <2>2. \A s \in Receivables : LiveCompleted(s)' = LiveCompleted(s)
    BY <2>1, LiveKept
  <2> QED
    BY <1>1, <2>2
<1>2. CASE LiveCompleted(r) # {}
  <2>1. PICK e \in LiveCompleted(r) :
          IF credit[e].status \in {"PENDING", "RETRY_WAIT"}
          THEN /\ credit' = [credit EXCEPT ![e].status = "CANCELLED"]
               /\ UNCHANGED creditCount
          ELSE InsertCreditSync("reversed", r, e)
    BY <1>2 DEF EnqueueCreditReversal
  <2>2. e \in CreditIds /\ e \in 0 .. MaxCreditEvents /\ credit[e].rcv = r
    BY DEF LiveCompleted, CreditIds
  <2>3. CASE credit[e].status \in {"PENDING", "RETRY_WAIT"}
    <3>1. credit' = [credit EXCEPT ![e].status = "CANCELLED"]
      BY <2>1, <2>3
    <3>2. /\ \A d \in CreditIds \ {e} : credit'[d] = credit[d]
          /\ credit'[e].type = credit[e].type /\ credit'[e].rcv = credit[e].rcv
          /\ credit'[e].original = credit[e].original /\ credit'[e].status = "CANCELLED"
      BY <2>2, <3>1 DEF LedgerInv, TypeOK, CreditTypeOK, CreditRows
    <3>3. \A s \in Receivables \ {r} : LiveCompleted(s)' = LiveCompleted(s)
      BY <2>2, <3>2, LiveKept
    <3>4. \A d : Compensated(d)' = Compensated(d)
      BY <3>2 DEF Compensated
    <3>5. LiveCompleted(r)' = LiveCompleted(r) \ {e}
      BY <2>2, <3>2, <3>4 DEF LiveCompleted
    <3> QED
      BY <3>3, <3>5
  <2>4. CASE credit[e].status \notin {"PENDING", "RETRY_WAIT"}
    <3>1. InsertCreditSync("reversed", r, e)
      BY <2>1, <2>4
    <3>2. /\ \A s \in Receivables \ {r} : LiveCompleted(s)' = LiveCompleted(s)
          /\ LiveCompleted(r)' = LiveCompleted(r) \ {e}
      BY <2>2, <3>1, InsertLive
    <3> QED
      BY <3>2
  <2> QED
    BY <2>3, <2>4
<1> QED
  BY <1>1, <1>2

\* Before the first plan is confirmed nothing is settled and nothing published.
LEMMA SettlementInit == Init => PendingUnpaid /\ \A r \in CreditEligible : CreditFollows(r)
BY LedgerAssumption DEF Init, CreditInit, PendingUnpaid, CreditFollows, LiveCompleted,
       PendingPlan, NoRow

\* An allocation that settles a receivable leaves it one live event.
LEMMA AllocationCredits ==
    ASSUME LedgerInv, QueueInv, PendingUnpaid,
           NEW h \in Handlers, NEW u \in Users, NEW a \in Allocations, NEW c \in Receipts,
           NEW r \in Receivables, NEW x \in Amounts,
           ConfirmAllocation(h, u, a, c, r, x)
    PROVE  PendingUnpaid' /\ \A s \in CreditEligible : FollowsOn(s)
<1> USE LedgerAssumption, CreditAssumption
<1>1. /\ receivable[r].confirmed /\ receivable[r].status # "SETTLED"
      /\ receivable'[r].confirmed
      /\ receivable'[r].status = IF receivable[r].open - x = 0 THEN "SETTLED"
                                                              ELSE "PARTIALLY_SETTLED"
      /\ \A s \in Receivables \ {r} : receivable'[s] = receivable[s]
  BY DEF ConfirmAllocation, UpdateReceivable, LedgerInv, TypeOK
<1>2. receivable[r].open - x = 0 <=> receivable[r].open = x
  BY DEF LedgerInv, TypeOK, ReceivableRows
<1>3. PendingUnpaid'
  BY <1>1 DEF PendingUnpaid
<1>4. CASE receivable[r].open = x /\ r \in CreditEligible
  <2>1. InsertCreditSync("completed", r, 0)
    BY <1>4 DEF ConfirmAllocation
  <2>2. 0 \in 0 .. MaxCreditEvents
    OBVIOUS
  <2>3. /\ \A s \in Receivables \ {r} : LiveCompleted(s)' = LiveCompleted(s)
        /\ LiveCompleted(r)' = LiveCompleted(r) \cup {creditCount + 1}
    BY <2>1, <2>2, InsertLive
  <2>4. CreditFollows(r) => LiveCompleted(r) = {}
    BY <1>1 DEF CreditFollows
  <2>5. CreditFollows(r) => LiveCompleted(r)' = {creditCount + 1}
    BY <2>3, <2>4
  <2>6. receivable'[r].status = "SETTLED"
    BY <1>1, <1>2, <1>4
  <2>7. FollowsOn(r)
    BY <2>5, <2>6 DEF FollowsOn, CreditFollows
  <2> QED
    BY <1>1, <1>3, <2>3, <2>7 DEF FollowsOn, CreditFollows
<1>5. CASE ~ (receivable[r].open = x /\ r \in CreditEligible)
  <2>1. credit' = credit
    BY <1>5 DEF ConfirmAllocation
  <2>2. \A s \in Receivables : LiveCompleted(s)' = LiveCompleted(s)
    BY <2>1, LiveKept
  <2>3. r \in CreditEligible => receivable'[r].status # "SETTLED"
    BY <1>1, <1>2, <1>5
  <2> QED
    BY <1>1, <1>3, <2>2, <2>3 DEF FollowsOn, CreditFollows
<1> QED
  BY <1>4, <1>5

\* A reversal that reopens a settled receivable leaves it none.
LEMMA ReversalCredits ==
    ASSUME LedgerInv, QueueInv, PendingUnpaid,
           NEW h \in Handlers, NEW u \in Users, NEW k \in Keys, NEW a \in Allocations,
           NEW x \in Amounts,
           ReverseAllocation(h, u, k, a, x)
    PROVE  PendingUnpaid' /\ \A s \in CreditEligible : FollowsOn(s)
<1> USE LedgerAssumption, CreditAssumption
<1>0. allocation[a].exists /\ allocation[a].rcv \in Receivables
  BY Rows DEF ReverseAllocation, LedgerInv, AllocationRows
<1>a. PICK r \in Receivables : r = allocation[a].rcv
  BY <1>0
<1>1. receivable[r].confirmed
  BY <1>0, <1>a DEF LedgerInv, Referenced, AllocationsReferenced
<1>2. /\ receivable'[r].confirmed /\ receivable'[r].status # "SETTLED"
      /\ \A s \in Receivables \ {r} : receivable'[s] = receivable[s]
  BY <1>1, <1>a DEF ReverseAllocation, UpdateReceivable, LedgerInv, TypeOK
<1>3. receivable[r].status = "SETTLED" <=> receivable[r].open = 0
  BY <1>1 DEF LedgerInv, BalancesAgree
<1>4. PendingUnpaid'
  BY <1>1, <1>2 DEF PendingUnpaid
<1>5. /\ \A s \in Receivables \ {r} : LiveCompleted(s)' = LiveCompleted(s)
      /\ CreditFollows(r) => LiveCompleted(r)' = {}
  <2>1. CASE receivable[r].open = 0
    <3>1. EnqueueCreditReversal(r)
      BY <1>a, <2>1 DEF ReverseAllocation
    <3>2. CreditFollows(r) => \E e : LiveCompleted(r) = {e}
      BY <1>3, <2>1 DEF CreditFollows
    <3> QED
      BY <3>1, <3>2, EnqueueLive
  <2>2. CASE receivable[r].open # 0
    <3>1. credit' = credit
      BY <1>a, <2>2 DEF ReverseAllocation
    <3>2. \A s \in Receivables : LiveCompleted(s)' = LiveCompleted(s)
      BY <3>1, LiveKept
    <3>3. CreditFollows(r) => LiveCompleted(r) = {}
      BY <1>3, <2>2 DEF CreditFollows
    <3> QED
      BY <3>2, <3>3
  <2> QED
    BY <2>1, <2>2
<1>6. FollowsOn(r)
  BY <1>2, <1>5 DEF FollowsOn, CreditFollows
<1> QED
  BY <1>2, <1>4, <1>5, <1>6 DEF FollowsOn, CreditFollows

\* Every step keeps credit in line with settlement, except for the receivable
\* whose plan it adjusts.
LEMMA SettlementStep ==
    LedgerInv /\ QueueInv /\ PendingUnpaid /\ [Next]_vars
      => /\ PendingUnpaid'
         /\ \A r \in CreditEligible : FollowsOn(r) \/ \E x \in AdjustAmounts : AdjustPlan(r, x)
<1> DEFINE Kept == PendingUnpaid' /\ \A r \in CreditEligible : FollowsOn(r)
<1> SUFFICES ASSUME LedgerInv, QueueInv, PendingUnpaid, [Next]_vars
             PROVE  /\ PendingUnpaid'
                    /\ \A r \in CreditEligible :
                         FollowsOn(r) \/ \E x \in AdjustAmounts : AdjustPlan(r, x)
  OBVIOUS
<1> USE LedgerAssumption
<1>1. ASSUME \A s \in Receivables : LiveCompleted(s)' = LiveCompleted(s),
             UNCHANGED receivable
      PROVE  Kept
  BY <1>1 DEF PendingUnpaid, FollowsOn, CreditFollows
<1>2. ASSUME UNCHANGED credit, UNCHANGED receivable PROVE Kept
  BY <1>1, <1>2, LiveKept
<1>3. ASSUME NEW r \in Receivables, NEW x \in Amounts, ConfirmPlan(r, x) PROVE Kept
  <2>1. credit' = credit
    BY <1>3 DEF ConfirmPlan, creditVars
  <2>2. \A s \in Receivables : LiveCompleted(s)' = LiveCompleted(s)
    BY <2>1, LiveKept
  <2>3. \A s \in Receivables : /\ receivable'[s].status = receivable[s].status
                               /\ ~ receivable'[s].confirmed => ~ receivable[s].confirmed
    BY <1>3 DEF ConfirmPlan, LedgerInv, TypeOK, PendingUnpaid
  <2> QED
    BY <2>2, <2>3 DEF PendingUnpaid, FollowsOn, CreditFollows
<1>4. ASSUME NEW r \in Receivables, NEW x \in AdjustAmounts, AdjustPlan(r, x)
      PROVE  PendingUnpaid' /\ \A s \in CreditEligible \ {r} : FollowsOn(s)
  <2>1. credit' = credit
    BY <1>4 DEF AdjustPlan, creditVars
  <2>2. \A s \in Receivables : LiveCompleted(s)' = LiveCompleted(s)
    BY <2>1, LiveKept
  <2>3. /\ receivable'[r].confirmed
        /\ \A s \in Receivables \ {r} : receivable'[s] = receivable[s]
    BY <1>4 DEF AdjustPlan, LedgerInv, TypeOK
  <2> QED
    BY <2>2, <2>3 DEF PendingUnpaid, FollowsOn, CreditFollows
<1>5. ASSUME NEW c \in Receipts, NEW n \in Accounts, NEW x \in Amounts, CreateReceipt(c, n, x)
      PROVE  Kept
  BY <1>2, <1>5 DEF CreateReceipt, creditVars
<1>6. ASSUME DifferenceNext PROVE Kept
  <2>1. UNCHANGED credit
    BY <1>6, DifferenceLeavesCredit DEF creditVars
  <2>2. UNCHANGED receivable
    BY <1>6 DEF DifferenceNext, CreateReceiptDifference, ResolveReceiptDifference,
                ApproveReceiptDifference, ConfirmReceiptRefund
  <2> QED
    BY <1>2, <2>1, <2>2
<1>7. CASE CreditNext /\ UNCHANGED ledgerVars
  BY <1>1, <1>7, PublishersKeepLive DEF ledgerVars
<1>8. CASE UNCHANGED vars
  BY <1>2, <1>8 DEF vars, ledgerVars, creditVars
<1>9. CASE LedgerNext
  BY <1>3, <1>4, <1>5, <1>6, <1>9, AllocationCredits, ReversalCredits DEF LedgerNext
<1> QED
  BY <1>7, <1>8, <1>9 DEF Next

\* The CRM is told of a settlement exactly while it stands, whatever the
\* allocations, reversals, publishers, resends and stops: an eligible receivable
\* starts with one live completed event if it is SETTLED and none otherwise, and
\* no step but an AdjustPlan of its own plan ever changes that.
THEOREM CreditFollowsSettlement == Spec => CreditMatchesSettlement
<1> DEFINE Step == \A r \in CreditEligible :
                     CreditMatches(r) => \/ CreditMatches(r)'
                                         \/ \E x \in AdjustAmounts : AdjustPlan(r, x)
           Start == \A r \in CreditEligible : CreditMatches(r)
<1>1. Init => Start
  BY SettlementInit, FollowsCounted DEF Counted
<1>2. Init => PendingUnpaid
  BY SettlementInit
<1>3. Counted /\ Counted'
  BY FollowsCounted, PTL
<1>4. LedgerInv /\ QueueInv /\ PendingUnpaid /\ [Next]_vars => PendingUnpaid' /\ Step
  BY <1>3, SettlementStep DEF FollowsOn, Counted
<1>5. LedgerInv /\ QueueInv /\ PendingUnpaid /\ [Next]_vars
        => LedgerInv' /\ QueueInv' /\ PendingUnpaid' /\ [Step]_vars
  BY <1>4, LedgerStep, QueueStep
<1>6. CreditMatchesSettlement <=> Start /\ [][Step]_vars
  BY DEF CreditMatchesSettlement
<1> HIDE DEF Step, Start
<1> QED
  BY <1>1, <1>2, <1>5, <1>6, LedgerInit, QueueInit, PTL DEF Spec
=============================================================================
