--------------------------- MODULE RedFlush_proofs --------------------------
(***************************************************************************)
(* Proofs about InvoiceIssue and RedFlush, which extends it, for every     *)
(* value of their constants.                                               *)
(***************************************************************************)
EXTENDS RedFlush, FiniteSetTheorems, TLAPS

-----------------------------------------------------------------------------
(* Sums of amounts over finite sets of rows, as MapThenSumSet computes     *)
(* them: a fold that takes the elements in an order of its own choice.     *)
(* The lemmas say that the order does not matter, and what one added,      *)
(* removed or changed row does to a sum.  AllocationLedger_proofs has the   *)
(* same section.                                                           *)

\* Induction over the naturals, for a set in place of a predicate.
LEMMA NatSetInduction ==
    ASSUME NEW P, 0 \in P, \A n \in Nat : n \in P => n + 1 \in P
    PROVE  Nat \subseteq P
<1> DEFINE T == Nat \ P
           R == OpToRel(<, Nat)
<1> SUFFICES ASSUME T # {} PROVE FALSE
  OBVIOUS
<1>1. PICK m \in T : \A y \in T : <<y, m>> \notin R
  <2>1. IsWellFoundedOn(R, Nat)
    BY NatLessThanWellFounded
  <2>2. T \subseteq Nat
    OBVIOUS
  <2> HIDE DEF T, R
  <2> QED
    BY <2>1, <2>2, WFMin
<1>2. m \in Nat \ {0} /\ m - 1 \in Nat
  OBVIOUS
<1>3. m - 1 \in P
  <2>1. <<m - 1, m>> \in R
    BY <1>2 DEF OpToRel
  <2> QED
    BY <1>1, <1>2, <2>1
<1> QED
  BY <1>2, <1>3

\* A sum whose summands are given by a function.
SumOver(f, S) == MapThenSumSet(LAMBDA x : f[x], S)

\* The element the fold takes next.
Chosen(s) == CHOOSE x \in s : TRUE

\* h is the function the fold defines recursively over the subsets of S.
Equation(h, f, S) ==
    h = [s \in SUBSET S |-> IF s = {} THEN 0 ELSE f[Chosen(s)] + h[s \ {Chosen(s)}]]

\* The fold is some solution of its recursion.
LEMMA SumDef ==
    ASSUME NEW f, NEW S
    PROVE  SumOver(f, S) = (CHOOSE h : Equation(h, f, S))[S]
BY DEF SumOver, MapThenSumSet, MapThenFoldSet, Chosen, Equation

\* The fold takes an element of the set.
LEMMA ChosenIn ==
    ASSUME NEW s, s # {}
    PROVE  Chosen(s) \in s
BY DEF Chosen

\* The recursion has a solution, built up by the size of the subsets.
LEMMA EquationSolved ==
    ASSUME NEW S, IsFiniteSet(S), NEW f, \A x \in S : f[x] \in Int
    PROVE  \E h \in [SUBSET S -> Int] : Equation(h, f, S)
<1> DEFINE Val(h, s) == IF s = {} THEN 0 ELSE f[Chosen(s)] + h[s \ {Chosen(s)}]
           Upto(n) == {h \in [SUBSET S -> Int] :
                         \A s \in SUBSET S : Cardinality(s) <= n => h[s] = Val(h, s)}
           P == {n \in Nat : Upto(n) # {}}
<1>1. \A s \in SUBSET S : /\ IsFiniteSet(s) /\ Cardinality(s) \in Nat
                          /\ Cardinality(s) = 0 <=> s = {}
  BY FS_Subset, FS_CardinalityType, FS_EmptySet
<1>2. \A s \in SUBSET S : s # {} =>
        /\ Chosen(s) \in S /\ s \ {Chosen(s)} \in SUBSET S
        /\ Cardinality(s \ {Chosen(s)}) = Cardinality(s) - 1
  BY <1>1, ChosenIn, FS_RemoveElement
<1>3. ASSUME NEW h \in [SUBSET S -> Int], NEW s \in SUBSET S PROVE Val(h, s) \in Int
  <2>1. s # {} => f[Chosen(s)] \in Int /\ h[s \ {Chosen(s)}] \in Int
    BY <1>2
  <2> QED
    BY <2>1
<1>4. 0 \in P
  <2> DEFINE h == [s \in SUBSET S |-> 0]
  <2>1. h \in Upto(0)
    BY <1>1
  <2> QED
    BY <2>1
<1>5. ASSUME NEW n \in Nat, n \in P PROVE n + 1 \in P
  <2>1. PICK h \in [SUBSET S -> Int] :
          \A s \in SUBSET S : Cardinality(s) <= n => h[s] = Val(h, s)
    BY <1>5
  <2> HIDE DEF Val
  <2> DEFINE g == [s \in SUBSET S |-> Val(h, s)]
  <2>2. g \in [SUBSET S -> Int]
    BY <1>3, <2>1
  <2>3. \A s \in SUBSET S : Cardinality(s) <= n => g[s] = h[s]
    BY <2>1
  <2>4. ASSUME NEW s \in SUBSET S, Cardinality(s) <= n + 1 PROVE g[s] = Val(g, s)
    <3>1. g[s] = Val(h, s)
      OBVIOUS
    <3>2. s # {} => g[s \ {Chosen(s)}] = h[s \ {Chosen(s)}]
      <4>1. s # {} => Cardinality(s \ {Chosen(s)}) <= n
        BY <1>1, <1>2, <2>4
      <4> QED
        BY <4>1, <1>2, <2>3
    <3> HIDE DEF g
    <3> QED
      BY <3>1, <3>2 DEF Val
  <2> HIDE DEF g
  <2>5. g \in Upto(n + 1)
    BY <2>2, <2>4
  <2> QED
    BY <2>5
<1>6. Cardinality(S) \in P
  <2> HIDE DEF P
  <2>1. Nat \subseteq P
    BY <1>4, <1>5, NatSetInduction
  <2> QED
    BY <2>1, <1>1
<1>7. PICK h \in [SUBSET S -> Int] :
        \A s \in SUBSET S : Cardinality(s) <= Cardinality(S) => h[s] = Val(h, s)
  BY <1>6
<1>8. \A s \in SUBSET S : Cardinality(s) <= Cardinality(S)
  BY FS_Subset
<1>9. h = [s \in SUBSET S |-> Val(h, s)]
  <2> HIDE DEF Val
  <2> QED
    BY <1>7, <1>8
<1> QED
  BY <1>9 DEF Equation

\* The value of a solution at s does not depend on the set it is a solution for.
LEMMA EquationUnique ==
    ASSUME NEW S, IsFiniteSet(S), NEW T \in SUBSET S, NEW f, NEW g, NEW h,
           Equation(g, f, S), Equation(h, f, T)
    PROVE  g[T] = h[T]
<1> DEFINE P == {n \in Nat : \A s \in SUBSET T : Cardinality(s) <= n => g[s] = h[s]}
<1>1. \A s \in SUBSET T : /\ IsFiniteSet(s) /\ Cardinality(s) \in Nat
                          /\ Cardinality(s) = 0 <=> s = {}
                          /\ s \in SUBSET S
  BY FS_Subset, FS_CardinalityType, FS_EmptySet
<1>2. \A s \in SUBSET T : s # {} =>
        s \ {Chosen(s)} \in SUBSET T /\ Cardinality(s \ {Chosen(s)}) = Cardinality(s) - 1
  BY <1>1, ChosenIn, FS_RemoveElement
<1>3. \A s \in SUBSET T :
        /\ g[s] = IF s = {} THEN 0 ELSE f[Chosen(s)] + g[s \ {Chosen(s)}]
        /\ h[s] = IF s = {} THEN 0 ELSE f[Chosen(s)] + h[s \ {Chosen(s)}]
  BY <1>1 DEF Equation
<1>4. 0 \in P
  BY <1>1, <1>3
<1>5. ASSUME NEW n \in Nat, n \in P PROVE n + 1 \in P
  <2> SUFFICES ASSUME NEW s \in SUBSET T, Cardinality(s) <= n + 1, s # {} PROVE g[s] = h[s]
    BY <1>3
  <2>1. g[s \ {Chosen(s)}] = h[s \ {Chosen(s)}]
    BY <1>1, <1>2, <1>5
  <2> QED
    BY <1>3, <2>1
<1>6. Nat \subseteq P
  <2> HIDE DEF P
  <2> QED
    BY <1>4, <1>5, NatSetInduction
<1> QED
  BY <1>1, <1>6

\* The sum is the value of any solution.
LEMMA SumSolves ==
    ASSUME NEW S, IsFiniteSet(S), NEW f, \A x \in S : f[x] \in Int,
           NEW h, Equation(h, f, S)
    PROVE  SumOver(f, S) = h[S]
<1> DEFINE c == CHOOSE g : Equation(g, f, S)
<1>1. Equation(c, f, S)
  OBVIOUS
<1>2. SumOver(f, S) = c[S]
  BY SumDef
<1> HIDE DEF c
<1> QED
  BY <1>1, <1>2, EquationUnique

\* The recursion of the fold.
LEMMA SumUnfold ==
    ASSUME NEW S, IsFiniteSet(S), NEW f, \A x \in S : f[x] \in Int
    PROVE  /\ SumOver(f, S) \in Int
           /\ SumOver(f, S) = IF S = {} THEN 0 ELSE f[Chosen(S)] + SumOver(f, S \ {Chosen(S)})
<1>1. PICK h \in [SUBSET S -> Int] : Equation(h, f, S)
  BY EquationSolved
<1>2. SumOver(f, S) = h[S]
  BY <1>1, SumSolves
<1>3. ASSUME S # {} PROVE h[S \ {Chosen(S)}] = SumOver(f, S \ {Chosen(S)})
  <2> DEFINE T == S \ {Chosen(S)}
  <2>1. T \in SUBSET S /\ IsFiniteSet(T) /\ \A x \in T : f[x] \in Int
    BY FS_Subset
  <2> HIDE DEF T
  <2>2. PICK g \in [SUBSET T -> Int] : Equation(g, f, T)
    BY <2>1, EquationSolved
  <2>3. SumOver(f, T) = g[T]
    BY <2>1, <2>2, SumSolves
  <2>4. h[T] = g[T]
    BY <1>1, <2>1, <2>2, EquationUnique
  <2> QED
    BY <2>3, <2>4 DEF T
<1>4. h[S] = IF S = {} THEN 0 ELSE f[Chosen(S)] + h[S \ {Chosen(S)}]
  BY <1>1 DEF Equation
<1> QED
  BY <1>1, <1>2, <1>3, <1>4

\* Nothing adds up to zero.
LEMMA SumEmpty == ASSUME NEW f PROVE SumOver(f, {}) = 0
BY SumUnfold, FS_EmptySet

\* Any element may be taken first, whatever the order of the fold.
LEMMA SumAdd ==
    ASSUME NEW S, IsFiniteSet(S), NEW f, \A x \in S : f[x] \in Int, NEW x \in S
    PROVE  SumOver(f, S) = f[x] + SumOver(f, S \ {x})
<1> DEFINE Taken(T) == \A y \in T : SumOver(f, T) = f[y] + SumOver(f, T \ {y})
           P == {n \in Nat : \A T \in SUBSET S : Cardinality(T) <= n => Taken(T)}
<1>1. \A T \in SUBSET S : /\ IsFiniteSet(T) /\ Cardinality(T) \in Nat
                          /\ Cardinality(T) = 0 <=> T = {}
  BY FS_Subset, FS_CardinalityType, FS_EmptySet
<1>2. \A T \in SUBSET S : /\ SumOver(f, T) \in Int
                          /\ T # {} => SumOver(f, T) = f[Chosen(T)] + SumOver(f, T \ {Chosen(T)})
  BY <1>1, SumUnfold
<1>3. \A T \in SUBSET S : \A y \in T :
        T \ {y} \in SUBSET S /\ Cardinality(T \ {y}) = Cardinality(T) - 1
  BY <1>1, FS_RemoveElement
<1>4. 0 \in P
  <2>1. \A T \in SUBSET S : Cardinality(T) <= 0 => T = {}
    BY <1>1
  <2>2. Taken({})
    OBVIOUS
  <2> HIDE DEF Taken
  <2> QED
    BY <2>1, <2>2
<1>5. ASSUME NEW n \in Nat, n \in P PROVE n + 1 \in P
  <2>1. \A T \in SUBSET S : Cardinality(T) <= n => Taken(T)
    <3> HIDE DEF Taken
    <3> QED
      BY <1>5
  <2>2. ASSUME NEW T \in SUBSET S, Cardinality(T) <= n + 1, NEW y \in T
        PROVE  SumOver(f, T) = f[y] + SumOver(f, T \ {y})
    <3> DEFINE c == Chosen(T)
    <3>1. c \in T
      BY ChosenIn
    <3>2. SumOver(f, T) = f[c] + SumOver(f, T \ {c})
      BY <1>2
    <3> HIDE DEF c
    <3>3. CASE c = y
      BY <3>2, <3>3
    <3>4. CASE c # y
      <4>1. /\ T \ {c} \in SUBSET S /\ Cardinality(T \ {c}) <= n /\ y \in T \ {c}
            /\ T \ {y} \in SUBSET S /\ Cardinality(T \ {y}) <= n /\ c \in T \ {y}
        BY <1>1, <1>3, <2>2, <3>1, <3>4
      <4>2. SumOver(f, T \ {c}) = f[y] + SumOver(f, (T \ {c}) \ {y})
        BY <2>1, <4>1
      <4>3. SumOver(f, T \ {y}) = f[c] + SumOver(f, (T \ {y}) \ {c})
        BY <2>1, <4>1
      <4>4. (T \ {c}) \ {y} = (T \ {y}) \ {c} /\ (T \ {y}) \ {c} \in SUBSET S
        OBVIOUS
      <4>5. SumOver(f, (T \ {y}) \ {c}) \in Int /\ f[y] \in Int /\ f[c] \in Int
        BY <1>2, <4>4, <3>1
      <4> DEFINE r == SumOver(f, (T \ {y}) \ {c})
      <4>6. SumOver(f, T) = f[c] + (f[y] + r)
        BY <3>2, <4>2, <4>4
      <4>7. SumOver(f, T \ {y}) = f[c] + r /\ r \in Int
        BY <4>3, <4>5
      <4> HIDE DEF r
      <4> QED
        BY <4>5, <4>6, <4>7
    <3> QED
      BY <3>3, <3>4
  <2>3. \A T \in SUBSET S : Cardinality(T) <= n + 1 => Taken(T)
    BY <2>2
  <2> HIDE DEF Taken
  <2> QED
    BY <2>3
<1>6. Nat \subseteq P
  <2> HIDE DEF P
  <2> QED
    BY <1>4, <1>5, NatSetInduction
<1>7. Taken(S)
  <2> HIDE DEF Taken
  <2> QED
    BY <1>1, <1>6
<1> QED
  BY <1>7

\* Only the summands of the set count.
LEMMA SumEqual ==
    ASSUME NEW S, IsFiniteSet(S), NEW f, NEW g, \A x \in S : f[x] \in Int /\ f[x] = g[x]
    PROVE  SumOver(f, S) = SumOver(g, S)
<1>1. PICK h \in [SUBSET S -> Int] : Equation(h, f, S)
  BY EquationSolved
<1>2. Equation(h, g, S)
  <2>1. \A s \in SUBSET S : s # {} => f[Chosen(s)] = g[Chosen(s)]
    BY ChosenIn
  <2> QED
    BY <1>1, <2>1 DEF Equation
<1> QED
  BY <1>1, <1>2, SumSolves

\* Natural summands have a natural sum.
LEMMA SumNat ==
    ASSUME NEW S, IsFiniteSet(S), NEW f, \A x \in S : f[x] \in Nat
    PROVE  SumOver(f, S) \in Nat
<1> DEFINE P == {n \in Nat : \A T \in SUBSET S : Cardinality(T) <= n => SumOver(f, T) \in Nat}
<1>1. \A T \in SUBSET S : /\ IsFiniteSet(T) /\ Cardinality(T) \in Nat
                          /\ Cardinality(T) = 0 <=> T = {}
  BY FS_Subset, FS_CardinalityType, FS_EmptySet
<1>2. \A T \in SUBSET S : \A y \in T :
        T \ {y} \in SUBSET S /\ Cardinality(T \ {y}) = Cardinality(T) - 1
  BY <1>1, FS_RemoveElement
<1>3. 0 \in P
  <2>1. \A T \in SUBSET S : Cardinality(T) <= 0 => T = {}
    BY <1>1
  <2> QED
    BY <2>1, SumEmpty
<1>4. ASSUME NEW n \in Nat, n \in P PROVE n + 1 \in P
  <2>1. ASSUME NEW T \in SUBSET S, Cardinality(T) <= n + 1, T # {} PROVE SumOver(f, T) \in Nat
    <3>1. PICK y \in T : TRUE
      BY <2>1
    <3>2. T \ {y} \in SUBSET S /\ Cardinality(T \ {y}) <= n
      BY <1>1, <1>2, <2>1
    <3>3. SumOver(f, T \ {y}) \in Nat
      BY <1>4, <3>2
    <3>4. SumOver(f, T) = f[y] + SumOver(f, T \ {y})
      BY <1>1, SumAdd
    <3> QED
      BY <3>3, <3>4
  <2> QED
    BY <2>1, SumEmpty
<1>5. Nat \subseteq P
  <2> HIDE DEF P
  <2> QED
    BY <1>3, <1>4, NatSetInduction
<1> QED
  BY <1>1, <1>5

\* One row changes its amount.
LEMMA SumChange ==
    ASSUME NEW S, IsFiniteSet(S), NEW f, NEW g, NEW x \in S,
           \A y \in S : f[y] \in Int /\ g[y] \in Int, \A y \in S \ {x} : g[y] = f[y]
    PROVE  SumOver(g, S) = SumOver(f, S) - f[x] + g[x]
<1> DEFINE T == S \ {x}
<1>1. T \in SUBSET S /\ IsFiniteSet(T)
  BY FS_Subset
<1>2. SumOver(f, S) = f[x] + SumOver(f, T)
  BY SumAdd
<1>3. SumOver(g, S) = g[x] + SumOver(g, T)
  BY SumAdd
<1>4. SumOver(f, T) = SumOver(g, T)
  BY <1>1, SumEqual
<1>5. SumOver(f, T) \in Int
  BY <1>1, SumUnfold
<1> HIDE DEF T
<1> QED
  BY <1>2, <1>3, <1>4, <1>5

\* Rows that count as zero may be left out.
LEMMA SumFilter ==
    ASSUME NEW S, IsFiniteSet(S), NEW T \in SUBSET S, NEW f, NEW g,
           \A x \in S : g[x] \in Int,
           \A x \in T : f[x] = g[x], \A x \in S \ T : g[x] = 0
    PROVE  SumOver(f, T) = SumOver(g, S)
<1> DEFINE P == {n \in Nat : \A U \in SUBSET S :
                   T \subseteq U /\ Cardinality(U) <= n => SumOver(g, U) = SumOver(g, T)}
<1>1. \A U \in SUBSET S : /\ IsFiniteSet(U) /\ Cardinality(U) \in Nat
                          /\ Cardinality(U) = 0 <=> U = {}
                          /\ SumOver(g, U) \in Int
  BY FS_Subset, FS_CardinalityType, FS_EmptySet, SumUnfold
<1>2. \A U \in SUBSET S : \A y \in U :
        U \ {y} \in SUBSET S /\ Cardinality(U \ {y}) = Cardinality(U) - 1
  BY <1>1, FS_RemoveElement
<1>3. 0 \in P
  <2>1. \A U \in SUBSET S : T \subseteq U /\ Cardinality(U) <= 0 => U = T
    BY <1>1
  <2> QED
    BY <2>1
<1>4. ASSUME NEW n \in Nat, n \in P PROVE n + 1 \in P
  <2> SUFFICES ASSUME NEW U \in SUBSET S, T \subseteq U, Cardinality(U) <= n + 1, U # T
               PROVE  SumOver(g, U) = SumOver(g, T)
    OBVIOUS
  <2>1. PICK y \in U : y \notin T
    OBVIOUS
  <2>2. SumOver(g, U) = g[y] + SumOver(g, U \ {y})
    BY <1>1, SumAdd
  <2>3. U \ {y} \in SUBSET S /\ Cardinality(U \ {y}) <= n /\ T \subseteq U \ {y}
    BY <1>1, <1>2, <2>1
  <2>4. SumOver(g, U \ {y}) = SumOver(g, T)
    BY <1>4, <2>3
  <2> QED
    BY <1>1, <2>1, <2>2, <2>4
<1>5. Nat \subseteq P
  <2> HIDE DEF P
  <2> QED
    BY <1>3, <1>4, NatSetInduction
<1>6. SumOver(g, S) = SumOver(g, T)
  BY <1>1, <1>5
<1>7. SumOver(f, T) = SumOver(g, T)
  BY <1>1, SumEqual
<1> QED
  BY <1>6, <1>7

\* Zeroes add up to zero.
LEMMA SumZero ==
    ASSUME NEW S, IsFiniteSet(S), NEW f, \A x \in S : f[x] = 0
    PROVE  SumOver(f, S) = 0
BY SumFilter, SumEmpty

\* A natural summand is at most the sum.
LEMMA SumBound ==
    ASSUME NEW S, IsFiniteSet(S), NEW f, \A x \in S : f[x] \in Nat, NEW y \in S
    PROVE  f[y] <= SumOver(f, S)
<1>1. IsFiniteSet(S \ {y})
  BY FS_Subset
<1>2. SumOver(f, S) = f[y] + SumOver(f, S \ {y})
  BY SumAdd
<1>3. SumOver(f, S \ {y}) \in Nat
  BY <1>1, SumNat
<1> QED
  BY <1>2, <1>3

-----------------------------------------------------------------------------
(* The queue.  A worker's batch holds rows that exist, and a row that is    *)
(* not dead has a try left: without the two, recording an outcome could     *)
(* write a row that was never inserted or count past the limit.             *)

BatchesExist == \A w \in Workers : \A c \in worker[w].batch : command[c].exists

TryLeft == \A c \in Commands : command[c].exists /\ command[c].status # "DEAD_LETTER" =>
                                 command[c].tries < MaxTries

QueueInv == TaxTypeOK /\ BatchesExist /\ TryLeft

\* Rows that exist have all their columns.
LEMMA CommandRow ==
    ASSUME TaxTypeOK, NEW c \in Commands, command[c].exists
    PROVE  command[c] \in CommandRows
BY DEF TaxTypeOK, Absent

\* The number of tries is a number up to the limit, and the limit is not zero.
LEMMA TriesRange ==
    /\ MaxTries \in Nat /\ 0 < MaxTries /\ 0 \in 0 .. MaxTries
    /\ \A row \in CommandRows : row.tries \in 0 .. MaxTries /\ row.tries \in Nat
<1>1. MaxTries \in Nat /\ 0 < MaxTries
  BY TaxCommandAssumption
<1>2. \A n \in 0 .. MaxTries : n \in Nat
  BY <1>1
<1>3. \A row \in CommandRows : row.tries \in 0 .. MaxTries
  BY DEF CommandRows
<1>4. 0 \in 0 .. MaxTries
  BY <1>1
<1> QED
  BY <1>1, <1>2, <1>3, <1>4

\* A command that is inserted, and some dead one.
LEMMA FreshRows ==
    /\ NewCommand \in CommandRows /\ NewCommand.exists /\ NewCommand.tries = 0
    /\ \E row \in CommandRows : row.status = "DEAD_LETTER"
<1> DEFINE n == 0 .. MaxTries
<1>1. 0 \in n
  BY TriesRange
<1> HIDE DEF n
<1>2. CommandRows = [exists : {TRUE}, status : CommandStatuses, tries : n,
                     holder : Workers \cup {NoWorker}]
  BY DEF CommandRows, n
<1>3. NewCommand \in CommandRows
  BY <1>1, <1>2 DEF NewCommand, CommandStatuses
<1>4. /\ [exists |-> TRUE, status |-> "DEAD_LETTER", tries |-> 0, holder |-> NoWorker] \in CommandRows
      /\ [exists |-> TRUE, status |-> "DEAD_LETTER", tries |-> 0, holder |-> NoWorker].status = "DEAD_LETTER"
  BY <1>1, <1>2 DEF CommandStatuses
<1> QED
  BY <1>3, <1>4 DEF NewCommand

\* A row that changes keeps the queue's invariant.
LEMMA RowKept ==
    ASSUME QueueInv, NEW c \in Commands, NEW row \in CommandRows,
           row.status # "DEAD_LETTER" => row.tries < MaxTries,
           command' = [command EXCEPT ![c] = row],
           UNCHANGED <<leaseOver, worker, providerVars>>
    PROVE  QueueInv'
<1>1. row.exists
  BY DEF CommandRows
<1>2. TaxTypeOK'
  BY DEF QueueInv, TaxTypeOK, providerVars
<1>3. BatchesExist'
  BY <1>1 DEF QueueInv, TaxTypeOK, BatchesExist
<1>4. TryLeft'
  BY DEF QueueInv, TaxTypeOK, TryLeft
<1> QED
  BY <1>2, <1>3, <1>4 DEF QueueInv

\* So does a row recorded for a worker that holds it, with the rest of its batch.
LEMMA RowRecorded ==
    ASSUME QueueInv, NEW w \in Workers, NEW c \in worker[w].batch, NEW row \in CommandRows,
           row.status # "DEAD_LETTER" => row.tries < MaxTries,
           command' = IF Holds(w, c) THEN [command EXCEPT ![c] = row] ELSE command,
           NextInBatch(w, c), UNCHANGED <<leaseOver, providerVars>>
    PROVE  QueueInv'
<1>1. row.exists
  BY DEF CommandRows
<1>2. c \in Commands /\ worker[w] \in Jobs
  BY DEF QueueInv, TaxTypeOK, Jobs
<1>3. command' \in [Commands -> CommandRows \cup {Absent}]
  BY <1>2 DEF QueueInv, TaxTypeOK
<1>4. \A d \in Commands : command[d].exists => command'[d].exists
  BY <1>1, <1>2 DEF QueueInv, TaxTypeOK
<1>5. Idle \in Jobs /\ [worker[w] EXCEPT !.batch = worker[w].batch \ {c}] \in Jobs
  BY <1>2 DEF Idle, Jobs
<1>6. worker' \in [Workers -> Jobs] /\ \A v \in Workers : worker'[v].batch \subseteq worker[v].batch
  <2>1. \/ worker' = [worker EXCEPT ![w] = Idle]
        \/ worker' = [worker EXCEPT ![w] = [worker[w] EXCEPT !.batch = worker[w].batch \ {c}]]
    BY DEF NextInBatch, QueueInv, TaxTypeOK
  <2>2. /\ Idle.batch = {}
        /\ [worker[w] EXCEPT !.batch = worker[w].batch \ {c}].batch = worker[w].batch \ {c}
    BY <1>2 DEF Idle, Jobs
  <2> QED
    BY <1>5, <2>1, <2>2 DEF QueueInv, TaxTypeOK
<1>7. BatchesExist'
  <2>1. \A v \in Workers : worker[v].batch \subseteq Commands
    BY DEF QueueInv, TaxTypeOK, Jobs
  <2> QED
    BY <1>4, <1>6, <2>1 DEF QueueInv, BatchesExist
<1>8. TryLeft'
  BY <1>2 DEF QueueInv, TaxTypeOK, TryLeft
<1> QED
  BY <1>3, <1>6, <1>7, <1>8 DEF QueueInv, TaxTypeOK, providerVars

\* The row of a batch that a worker records.
LEMMA BatchRow ==
    ASSUME QueueInv, NEW w \in Workers, NEW c \in worker[w].batch
    PROVE  c \in Commands /\ command[c] \in CommandRows
BY CommandRow DEF QueueInv, TaxTypeOK, BatchesExist, Jobs

\* Recording a delivery keeps the queue's invariant and inserts no row.
LEMMA DeliveredKept ==
    ASSUME QueueInv, NEW w \in Workers, NEW c, DeliveredRow(w, c)
    PROVE  QueueInv' /\ \A d \in Commands : command'[d].exists => command[d].exists
<1> DEFINE row == [command[c] EXCEPT !.status = "DELIVERED", !.holder = NoWorker]
<1>0. c \in worker[w].batch
  BY DEF DeliveredRow
<1>1. c \in Commands /\ command[c] \in CommandRows /\ command[c].exists
  BY <1>0, BatchRow DEF CommandRows
<1>2. CASE Holds(w, c)
  <2>1. row \in CommandRows /\ row.status = "DELIVERED" /\ row.tries = command[c].tries
    BY <1>1 DEF CommandRows, CommandStatuses
  <2>2. command[c].tries < MaxTries
    BY <1>1, <1>2 DEF QueueInv, TryLeft, Holds
  <2>3. command' = [command EXCEPT ![c] = row]
    BY <1>1, <1>2 DEF DeliveredRow, QueueInv, TaxTypeOK
  <2>4. NextInBatch(w, c) /\ UNCHANGED <<leaseOver, providerVars>>
    BY DEF DeliveredRow
  <2>5. \A d \in Commands : command'[d].exists => command[d].exists
    BY <1>1, <2>3 DEF QueueInv, TaxTypeOK
  <2> HIDE DEF row
  <2>6. QueueInv'
    BY <1>0, <1>2, <2>1, <2>2, <2>3, <2>4, RowRecorded
  <2> QED
    BY <2>5, <2>6
<1>3. CASE ~ Holds(w, c)
  <2>1. command' = command /\ NextInBatch(w, c) /\ UNCHANGED <<leaseOver, providerVars>>
    BY <1>3 DEF DeliveredRow
  <2>2. PICK any \in CommandRows : any.status = "DEAD_LETTER"
    BY FreshRows
  <2> QED
    BY <1>0, <1>3, <2>1, <2>2, RowRecorded
<1> QED
  BY <1>2, <1>3

\* A dead letter that is sent again has all its tries before it.
LEMMA RequeueKept ==
    ASSUME QueueInv, NEW c \in Commands, Requeue(c)
    PROVE  QueueInv' /\ \A d \in Commands : command'[d].exists => command[d].exists
<1> DEFINE row == [command[c] EXCEPT !.status = "PENDING", !.tries = 0]
<1>1. command[c] \in CommandRows /\ command[c].exists
  BY CommandRow DEF Requeue, QueueInv
<1>2. command' = [command EXCEPT ![c] = row] /\ UNCHANGED <<leaseOver, worker, providerVars>>
  BY <1>1 DEF Requeue, QueueInv, TaxTypeOK
<1>3. row \in CommandRows /\ row.tries = 0 /\ 0 < MaxTries
  BY <1>1, TriesRange DEF CommandRows, CommandStatuses
<1>4. \A d \in Commands : command'[d].exists => command[d].exists
  BY <1>1, <1>2 DEF QueueInv, TaxTypeOK
<1> HIDE DEF row
<1> QED
  BY <1>2, <1>3, <1>4, RowKept

\* So does the command of a new attempt.
LEMMA NewCommandKept ==
    ASSUME QueueInv, NEW c \in Commands, command' = [command EXCEPT ![c] = NewCommand],
           UNCHANGED <<leaseOver, worker, providerVars>>
    PROVE  QueueInv' /\ \A d \in Commands \ {c} : command'[d] = command[d]
<1>1. \A d \in Commands \ {c} : command'[d] = command[d]
  BY DEF QueueInv, TaxTypeOK
<1>2. NewCommand \in CommandRows /\ NewCommand.tries < MaxTries
  BY FreshRows, TriesRange
<1>3. QueueInv'
  BY <1>2, RowKept
<1> QED
  BY <1>1, <1>3

\* Every step of the queue and the provider keeps the queue's invariant and
\* inserts no row.
LEMMA QueueStep ==
    ASSUME QueueInv, TaxNext
    PROVE  QueueInv' /\ \A d \in Commands : command'[d].exists => command[d].exists
<1> USE TaxCommandAssumption
<1>1. ASSUME NEW w \in Workers, Acquire(w)
      PROVE  QueueInv' /\ \A d \in Commands : command'[d].exists => command[d].exists
  <2>1. PICK batch \in SUBSET Commands :
          /\ batch = {c \in Commands : Due(c)}
          /\ command' = [c \in Commands |->
               IF c \in batch THEN [command[c] EXCEPT !.status = "PROCESSING", !.holder = w]
                              ELSE command[c]]
          /\ leaseOver' = leaseOver \ batch
          /\ worker' = [worker EXCEPT ![w] = [pc |-> "acquired", batch |-> batch]]
          /\ UNCHANGED providerVars
    BY <1>1 DEF Acquire
  <2>2. \A c \in batch : command[c] \in CommandRows /\ command[c].status # "DEAD_LETTER"
    BY <2>1, CommandRow DEF QueueInv, Due
  <2>3. ASSUME NEW c \in batch
        PROVE  /\ command'[c] \in CommandRows /\ command'[c].exists
               /\ command'[c].tries < MaxTries
    <3>1. /\ command'[c] = [command[c] EXCEPT !.status = "PROCESSING", !.holder = w]
          /\ command[c] \in CommandRows /\ command[c].tries < MaxTries
      BY <2>1, <2>2 DEF QueueInv, TryLeft, CommandRows
    <3> QED
      BY <3>1 DEF CommandRows, CommandStatuses
  <2>4. \A c \in Commands \ batch : command'[c] = command[c]
    BY <2>1
  <2>5. \A c \in batch : command[c].exists
    BY <2>2 DEF CommandRows
  <2>6. /\ [pc |-> "acquired", batch |-> batch] \in Jobs
        /\ [pc |-> "acquired", batch |-> batch].batch = batch
    BY DEF Jobs
  <2>7. command' \in [Commands -> CommandRows \cup {Absent}]
    <3>1. \A c \in Commands : command'[c] \in CommandRows \cup {Absent}
      BY <2>3, <2>4 DEF QueueInv, TaxTypeOK
    <3> QED
      BY <2>1, <3>1
  <2>8. TaxTypeOK'
    BY <2>1, <2>6, <2>7 DEF QueueInv, TaxTypeOK, providerVars
  <2>9. BatchesExist'
    <3>1. \A c \in Commands : command[c].exists => command'[c].exists
      BY <2>3, <2>4
    <3>2. \A v \in Workers : worker[v].batch \subseteq Commands
      BY DEF QueueInv, TaxTypeOK, Jobs
    <3> QED
      BY <2>1, <2>3, <2>6, <3>1, <3>2 DEF QueueInv, TaxTypeOK, BatchesExist
  <2>10. TryLeft'
    BY <2>3, <2>4 DEF QueueInv, TryLeft
  <2> QED
    BY <2>4, <2>5, <2>8, <2>9, <2>10 DEF QueueInv
<1>2. ASSUME NEW w \in Workers, NEW job \in Jobs, job.batch \in {{}, worker[w].batch},
             worker' = [worker EXCEPT ![w] = job], UNCHANGED <<command, leaseOver>>,
             received' \in SUBSET Commands
      PROVE  QueueInv' /\ \A d \in Commands : command'[d].exists => command[d].exists
  BY <1>2 DEF QueueInv, TaxTypeOK, BatchesExist, TryLeft
<1>3. ASSUME NEW w \in Workers, PostAccepted(w) \/ PostRejected(w) \/ Stop(w)
                                \/ \E taken \in SUBSET Commands : PostFailed(w, taken)
      PROVE  QueueInv' /\ \A d \in Commands : command'[d].exists => command[d].exists
  <2>1. worker[w] \in Jobs /\ worker[w].batch \in SUBSET Commands /\ received \in SUBSET Commands
    BY DEF QueueInv, TaxTypeOK, Jobs
  <2>2. PICK job \in {Idle} \cup {[worker[w] EXCEPT !.pc = x] : x \in {"accepted", "rejected", "failed"}} :
          worker' = [worker EXCEPT ![w] = job]
    BY <1>3 DEF PostAccepted, PostRejected, Stop, PostFailed, QueueInv, TaxTypeOK
  <2>3. job \in Jobs /\ job.batch \in {{}, worker[w].batch}
    BY <2>1 DEF Idle, Jobs
  <2>4. UNCHANGED <<command, leaseOver>> /\ received' \in SUBSET Commands
    BY <1>3, <2>1 DEF PostAccepted, PostRejected, Stop, PostFailed, providerVars
  <2> QED
    BY <1>2, <2>2, <2>3, <2>4
<1>4. ASSUME NEW w \in Workers, NEW c \in Commands, Failed(w, c)
      PROVE  QueueInv' /\ \A d \in Commands : command'[d].exists => command[d].exists
  <2> DEFINE tries == command[c].tries + 1
             dead == worker[w].pc = "rejected" \/ tries >= MaxTries
             row == [command[c] EXCEPT !.status = IF dead THEN "DEAD_LETTER" ELSE "RETRY_WAIT",
                                       !.tries = tries, !.holder = NoWorker]
  <2>0. c \in worker[w].batch /\ NextInBatch(w, c) /\ UNCHANGED <<leaseOver, providerVars>>
    BY <1>4 DEF Failed
  <2>1. command[c] \in CommandRows /\ command[c].exists
    BY <2>0, BatchRow DEF CommandRows
  <2>2. CASE Holds(w, c)
    <3>1. command' = [command EXCEPT ![c] = row]
      BY <1>4, <2>2 DEF Failed, QueueInv, TaxTypeOK
    <3>2. command[c].tries \in Nat /\ command[c].tries < MaxTries
      BY <2>1, <2>2, TriesRange DEF QueueInv, TryLeft, Holds
    <3>3. tries \in 0 .. MaxTries /\ (~ dead => tries < MaxTries)
      BY <3>2, TriesRange
    <3>6. row \in CommandRows /\ (row.status # "DEAD_LETTER" => row.tries < MaxTries)
      BY <2>1, <3>3 DEF CommandRows, CommandStatuses
    <3>4. \A d \in Commands : command'[d].exists => command[d].exists
      BY <2>1, <3>1 DEF QueueInv, TaxTypeOK
    <3> HIDE DEF row
    <3>5. QueueInv'
      BY <2>0, <2>2, <3>1, <3>6, RowRecorded
    <3> QED
      BY <3>4, <3>5
  <2>3. CASE ~ Holds(w, c)
    <3>1. command' = command
      BY <1>4, <2>3 DEF Failed
    <3>2. PICK any \in CommandRows : any.status = "DEAD_LETTER"
      BY FreshRows
    <3> QED
      BY <2>0, <2>3, <3>1, <3>2, RowRecorded
  <2> QED
    BY <2>2, <2>3
<1>5. ASSUME NEW c \in Commands, LeaseExpires(c)
      PROVE  QueueInv' /\ \A d \in Commands : command'[d].exists => command[d].exists
  BY <1>5 DEF LeaseExpires, QueueInv, TaxTypeOK, BatchesExist, TryLeft, providerVars
<1>6. ASSUME NEW c \in Commands, Requeue(c)
      PROVE  QueueInv' /\ \A d \in Commands : command'[d].exists => command[d].exists
  BY <1>6, RequeueKept
<1> QED
  BY <1>1, <1>3, <1>4, <1>5, <1>6 DEF TaxNext, RetryOutboxEvent

-----------------------------------------------------------------------------
(* Requests and attempts.                                                  *)

\* How the status of a request follows that of its latest attempt.
Follows(rq, at) ==
    /\ rq = "ISSUE_PENDING" <=> at \in {"PENDING", "ACCEPTED"}
    /\ rq = "ISSUE_UNKNOWN" <=> at = "UNKNOWN"
    /\ rq = "ISSUED" <=> at = "ISSUED"
    /\ rq = "CANCELLED" <=> at = "ABANDONED"

\* Attempts are numbered without gaps, all but the latest have failed, and the
\* latest decides the request's status and has its invoice.
AttemptSound(a) ==
    /\ attempt[a].exists <=> request[a[1]].exists /\ a[2] <= request[a[1]].attempts
    /\ attempt[a].exists =>
         /\ a[2] < request[a[1]].attempts => attempt[a].status = "ISSUE_FAILED"
         /\ a[2] = request[a[1]].attempts => Follows(request[a[1]].status, attempt[a].status)
    /\ a \in invoices <=> attempt[a].exists /\ attempt[a].status = "ISSUED"
    /\ command[a].exists => attempt[a].exists

\* A request's reservation follows its status.
RequestSound(q) ==
    request[q].exists =>
      /\ request[q].attempts = 0 => request[q].status \in {"SUBMITTED", "SPECIAL_REVIEW", "REJECTED"}
      /\ request[q].allocation = "INVOICED" <=> request[q].status = "ISSUED"
      /\ request[q].allocation = "RELEASED" <=> request[q].status \in {"REJECTED", "CANCELLED"}

\* Results that are filed and decide nothing.
Filed == {"PROVIDER_CONFLICT", "IGNORED_STALE"}

\* A success that was not merely filed found or made its request ISSUED.
InboxSound ==
    \A b \in Attempts, s \in Processing :
      <<b, "issued", s>> \in inbox /\ s \notin Filed =>
        request[b[1]].exists /\ request[b[1]].status = "ISSUED"

AttemptsSound == \A a \in Attempts : AttemptSound(a)
RequestsSound == \A q \in Requests : RequestSound(q)

\* Everything but the amounts.
IssueInv == TypeOK /\ QueueInv /\ AttemptsSound /\ RequestsSound /\ InboxSound


\* Requests and attempts that exist have all their columns.
LEMMA RowsTyped ==
    ASSUME TypeOK
    PROVE  /\ \A q \in Requests : request[q].exists =>
                request[q] \in RequestRows /\ request[q].attempts \in 0 .. MaxAttempts
           /\ \A a \in Attempts : attempt[a].exists => attempt[a] \in AttemptRows
<1>1. \A q \in Requests : request[q].exists => request[q] \in RequestRows
  BY DEF TypeOK, Absent
<1>2. \A a \in Attempts : attempt[a].exists => attempt[a] \in AttemptRows
  BY DEF TypeOK, Absent
<1>3. \A row \in RequestRows : row.attempts \in 0 .. MaxAttempts
  BY DEF RequestRows
<1> QED
  BY <1>1, <1>2, <1>3

\* An attempt belongs to a request and has a number.
LEMMA AttemptPair ==
    /\ MaxAttempts \in Nat \ {0}
    /\ \A a \in Attempts : /\ a[1] \in Requests /\ a[2] \in Nat /\ 1 <= a[2] /\ a[2] <= MaxAttempts
                           /\ a = <<a[1], a[2]>>
    /\ \A q \in Requests : \A n \in Nat : 1 <= n /\ n <= MaxAttempts =>
         <<q, n>> \in Attempts /\ <<q, n>>[1] = q /\ <<q, n>>[2] = n
BY InvoiceAssumption DEF Attempts

\* The latest attempt of a request that was ever approved is there.
LEMMA LatestThere ==
    ASSUME IssueInv, NEW q \in Requests, request[q].exists, request[q].attempts # 0
    PROVE  /\ Latest(q) \in Attempts /\ Latest(q)[1] = q /\ Latest(q)[2] = request[q].attempts
           /\ attempt[Latest(q)].exists
<1>1. request[q].attempts \in Nat /\ 1 <= request[q].attempts /\ request[q].attempts <= MaxAttempts
  BY RowsTyped, AttemptPair DEF IssueInv
<1>2. Latest(q) \in Attempts /\ Latest(q)[1] = q /\ Latest(q)[2] = request[q].attempts
  BY <1>1, AttemptPair DEF Latest
<1>3. AttemptSound(Latest(q))
  BY <1>2 DEF IssueInv, AttemptsSound
<1> QED
  BY <1>1, <1>2, <1>3 DEF AttemptSound

\* An attempt that has not simply failed is its request's latest.
LEMMA NotFailedIsLatest ==
    ASSUME IssueInv, NEW a \in Attempts, attempt[a].exists, attempt[a].status # "ISSUE_FAILED"
    PROVE  /\ a[1] \in Requests /\ request[a[1]].exists /\ a = Latest(a[1])
           /\ request[a[1]].attempts # 0
           /\ Follows(request[a[1]].status, attempt[a].status)
<1>1. AttemptSound(a)
  BY DEF IssueInv, AttemptsSound
<1>2. a[1] \in Requests /\ a[2] \in Nat /\ 1 <= a[2] /\ a = <<a[1], a[2]>>
  BY AttemptPair
<1>3. request[a[1]].exists /\ a[2] <= request[a[1]].attempts /\ ~ (a[2] < request[a[1]].attempts)
  BY <1>1 DEF AttemptSound
<1>4. request[a[1]].attempts \in Nat
  BY <1>2, <1>3, RowsTyped, AttemptPair DEF IssueInv
<1>5. a[2] = request[a[1]].attempts
  BY <1>2, <1>3, <1>4
<1> QED
  BY <1>1, <1>2, <1>3, <1>4, <1>5 DEF AttemptSound, Latest

\* The results kept so far stay sound: the ones that are added are merely filed,
\* or are of a request that is ISSUED from now on.
InboxGrows ==
    /\ cancelling' \in SUBSET Requests
    /\ inbox' \in SUBSET (Attempts \X ResultTypes \X Processing)
    /\ \A b \in Attempts, s \in Processing :
         <<b, "issued", s>> \in inbox' /\ s \notin Filed =>
           \/ <<b, "issued", s>> \in inbox
           \/ request'[b[1]].exists /\ request'[b[1]].status = "ISSUED"

\* A step that leaves requests, attempts and invoices alone.
LEMMA IssueKept ==
    ASSUME IssueInv, UNCHANGED <<request, attempt, invoices>>, QueueInv', InboxGrows,
           original' \in [Receivables -> Nat], invoiced' \in [Receivables -> Nat],
           \A a \in Attempts : command'[a].exists => command[a].exists
    PROVE  IssueInv'
<1>1. TypeOK'
  BY DEF IssueInv, TypeOK, QueueInv, InboxGrows
<1>2. AttemptsSound'
  BY DEF IssueInv, AttemptsSound, AttemptSound
<1>3. RequestsSound'
  BY DEF IssueInv, RequestsSound, RequestSound
<1>4. InboxSound'
  BY DEF IssueInv, InboxSound, InboxGrows
<1> QED
  BY <1>1, <1>2, <1>3, <1>4 DEF IssueInv

\* A request's latest attempt moves, and the request with it.
LEMMA LatestMoves ==
    ASSUME IssueInv, NEW q \in Requests, request[q].exists, request[q].attempts # 0,
           NEW rq \in RequestRows, NEW at \in AttemptRows,
           request' = [request EXCEPT ![q] = rq],
           attempt' = [attempt EXCEPT ![Latest(q)] = at],
           invoices' = (IF at.status = "ISSUED" THEN invoices \cup {Latest(q)} ELSE invoices),
           rq.attempts = request[q].attempts,
           Follows(rq.status, at.status),
           rq.allocation = "INVOICED" <=> rq.status = "ISSUED",
           rq.allocation = "RELEASED" <=> rq.status \in {"REJECTED", "CANCELLED"},
           request[q].status = "ISSUED" => rq.status = "ISSUED",
           QueueInv', InboxGrows,
           original' = original, invoiced' \in [Receivables -> Nat],
           \A a \in Attempts : command'[a].exists => command[a].exists
    PROVE  IssueInv'
<1> DEFINE l == Latest(q)
<1>1. l \in Attempts /\ l[1] = q /\ l[2] = request[q].attempts /\ attempt[l].exists
  BY LatestThere
<1>2. rq.exists /\ at.exists
  BY DEF RequestRows, AttemptRows
<1>3. /\ request'[q] = rq /\ \A p \in Requests \ {q} : request'[p] = request[p]
      /\ attempt'[l] = at /\ \A a \in Attempts \ {l} : attempt'[a] = attempt[a]
      /\ request' \in [Requests -> RequestRows \cup {Absent}]
      /\ attempt' \in [Attempts -> AttemptRows \cup {Absent}]
  BY <1>1 DEF IssueInv, TypeOK
<1>4. /\ invoices' \in SUBSET Attempts
      /\ \A a \in Attempts \ {l} : a \in invoices' <=> a \in invoices
      /\ l \in invoices' <=> l \in invoices \/ at.status = "ISSUED"
  BY <1>1 DEF IssueInv, TypeOK
<1>5. request[q].status = "ISSUED" <=> attempt[l].status = "ISSUED"
  BY <1>1 DEF IssueInv, AttemptsSound, AttemptSound, Follows
<1>6. l \in invoices => at.status = "ISSUED"
  BY <1>1, <1>5 DEF IssueInv, AttemptsSound, AttemptSound, Follows
<1>7. \A a \in Attempts : AttemptSound(a)
  BY DEF IssueInv, AttemptsSound
<1> HIDE DEF l
<1>8. ASSUME NEW a \in Attempts PROVE AttemptSound(a)'
  <2>1. a[1] \in Requests
    BY AttemptPair
  <2>2. CASE a = l
    <3>1. a[2] = rq.attempts /\ a[2] <= rq.attempts /\ ~ (a[2] < rq.attempts)
      BY <1>1, <2>2, AttemptPair
    <3>2. request'[a[1]] = rq /\ attempt'[a] = at /\ (command'[a].exists => command[a].exists)
      BY <1>1, <1>3, <2>2
    <3>3. a \in invoices' <=> at.status = "ISSUED"
      BY <1>4, <1>6, <2>2
    <3> QED
      BY <1>2, <3>1, <3>2, <3>3 DEF AttemptSound
  <2>3. CASE a # l /\ a[1] # q
    BY <1>3, <1>4, <1>7, <2>1, <2>3 DEF AttemptSound
  <2>4. CASE a # l /\ a[1] = q
    <3>1. a[2] # request[q].attempts
      BY <1>1, <2>4, AttemptPair
    <3> QED
      BY <1>2, <1>3, <1>4, <1>7, <2>4, <3>1 DEF AttemptSound
  <2> QED
    BY <2>2, <2>3, <2>4
<1>9. ASSUME NEW p \in Requests PROVE RequestSound(p)'
  <2>1. CASE p = q
    BY <1>3, <2>1 DEF RequestSound
  <2>2. CASE p # q
    BY <1>3, <2>2 DEF RequestSound, IssueInv, RequestsSound
  <2> QED
    BY <2>1, <2>2
<1>10. InboxSound'
  <2>1. \A p \in Requests : request[p].exists /\ request[p].status = "ISSUED" =>
                              request'[p].exists /\ request'[p].status = "ISSUED"
    BY <1>2, <1>3
  <2>2. \A b \in Attempts : b[1] \in Requests
    BY AttemptPair
  <2> QED
    BY <2>1, <2>2 DEF IssueInv, InboxSound, InboxGrows
<1>11. TypeOK'
  BY <1>3, <1>4 DEF IssueInv, TypeOK, QueueInv, InboxGrows
<1> QED
  BY <1>8, <1>9, <1>10, <1>11 DEF IssueInv, AttemptsSound, RequestsSound

\* A request moves between approval steps, with no attempt or only failed ones.
LEMMA RequestMoves ==
    ASSUME IssueInv, NEW q \in Requests, request[q].exists,
           request[q].status \in {"SUBMITTED", "SPECIAL_REVIEW", "ISSUE_FAILED"},
           NEW rq \in RequestRows,
           request' = [request EXCEPT ![q] = rq],
           rq.status \in {"SUBMITTED", "SPECIAL_REVIEW", "REJECTED"},
           rq.attempts = request[q].attempts,
           rq.allocation = IF rq.status = "REJECTED" THEN "RELEASED" ELSE request[q].allocation,
           UNCHANGED <<original, invoiced, attempt, invoices, inbox, taxVars>>,
           cancelling' \in SUBSET Requests
    PROVE  IssueInv'
<1>1. rq.exists
  BY DEF RequestRows
<1>2. /\ request'[q] = rq /\ \A p \in Requests \ {q} : request'[p] = request[p]
      /\ request' \in [Requests -> RequestRows \cup {Absent}]
  BY DEF IssueInv, TypeOK
<1>3. QueueInv' /\ TaxTypeOK'
  BY DEF IssueInv, QueueInv, TaxTypeOK, BatchesExist, TryLeft, taxVars, queueVars, providerVars
<1>4. TypeOK'
  BY <1>2, <1>3 DEF IssueInv, TypeOK
<1>5. ASSUME NEW a \in Attempts PROVE AttemptSound(a)'
  <2>1. a[1] \in Requests
    BY AttemptPair
  <2>2. AttemptSound(a)
    BY DEF IssueInv, AttemptsSound
  <2>3. UNCHANGED <<attempt[a], command[a], invoices>>
    BY DEF taxVars, queueVars
  <2>4. CASE a[1] # q
    BY <1>2, <2>1, <2>2, <2>3, <2>4 DEF AttemptSound
  <2>5. CASE a[1] = q
    BY <1>1, <1>2, <2>2, <2>3, <2>5 DEF AttemptSound, Follows
  <2> QED
    BY <2>4, <2>5
<1>6. ASSUME NEW p \in Requests PROVE RequestSound(p)'
  BY <1>2 DEF RequestSound, IssueInv, RequestsSound
<1>7. InboxSound'
  <2>1. \A b \in Attempts : b[1] \in Requests
    BY AttemptPair
  <2> QED
    BY <1>2, <2>1 DEF IssueInv, InboxSound
<1> QED
  BY <1>3, <1>4, <1>5, <1>6, <1>7 DEF IssueInv, AttemptsSound, RequestsSound

\* A new request has no attempts.
LEMMA CreateKept ==
    ASSUME IssueInv, NEW u \in Users, NEW q \in Requests, NEW v \in Receivables,
           NEW x \in Amounts, NEW b \in Specials, CreateInvoiceRequest(u, q, v, x, b)
    PROVE  IssueInv'
<1> DEFINE rq == [exists |-> TRUE, status |-> "SUBMITTED", by |-> u, rcv |-> v,
                  amount |-> x, special |-> b, allocation |-> "RESERVED", attempts |-> 0]
<1>1. /\ ~ request[q].exists /\ request' = [request EXCEPT ![q] = rq]
      /\ UNCHANGED <<original, invoiced, attempt, invoices, queueVars, inbox, cancelling, providerVars>>
  BY DEF CreateInvoiceRequest
<1>2. 0 \in 0 .. MaxAttempts /\ b \in BOOLEAN
  BY InvoiceAssumption
<1>3. rq \in RequestRows
  BY <1>2 DEF RequestRows, RequestStatuses
<1>4. rq.exists /\ rq.status = "SUBMITTED" /\ rq.attempts = 0 /\ rq.allocation = "RESERVED"
  OBVIOUS
<1> HIDE DEF rq
<1>5. /\ request'[q] = rq /\ \A p \in Requests \ {q} : request'[p] = request[p]
      /\ request' \in [Requests -> RequestRows \cup {Absent}]
  BY <1>1, <1>3 DEF IssueInv, TypeOK
<1>6. QueueInv' /\ TaxTypeOK'
  BY <1>1 DEF IssueInv, QueueInv, TaxTypeOK, BatchesExist, TryLeft, queueVars, providerVars
<1>7. TypeOK'
  BY <1>1, <1>5, <1>6 DEF IssueInv, TypeOK
<1>8. ASSUME NEW a \in Attempts PROVE AttemptSound(a)'
  <2>1. a[1] \in Requests /\ ~ (a[2] <= 0)
    BY AttemptPair
  <2>2. AttemptSound(a)
    BY DEF IssueInv, AttemptsSound
  <2>3. UNCHANGED <<attempt[a], command[a], invoices>>
    BY <1>1 DEF queueVars
  <2>4. CASE a[1] # q
    BY <1>5, <2>1, <2>2, <2>3, <2>4 DEF AttemptSound
  <2>5. CASE a[1] = q
    BY <1>1, <1>4, <1>5, <2>1, <2>2, <2>3, <2>5 DEF AttemptSound
  <2> QED
    BY <2>4, <2>5
<1>9. ASSUME NEW p \in Requests PROVE RequestSound(p)'
  BY <1>4, <1>5 DEF RequestSound, IssueInv, RequestsSound
<1>10. InboxSound'
  <2>1. \A c \in Attempts : c[1] \in Requests
    BY AttemptPair
  <2> QED
    BY <1>1, <1>5, <2>1 DEF IssueInv, InboxSound
<1> QED
  BY <1>6, <1>7, <1>8, <1>9, <1>10 DEF IssueInv, AttemptsSound, RequestsSound

\* The next attempt of an approved request: the ones before it have failed.
LEMMA AttemptCreated ==
    ASSUME IssueInv, NEW q \in Requests, NEW channel \in Channels, request[q].exists,
           request[q].status \in {"SUBMITTED", "SPECIAL_REVIEW"},
           CreateApprovedInvoiceAttempt(q, channel),
           UNCHANGED <<original, invoiced, invoices, leaseOver, worker, inbox, providerVars>>,
           cancelling' \in SUBSET Requests
    PROVE  IssueInv' /\ \A d \in Commands \ Attempts : command'[d] = command[d]
<1> DEFINE n == request[q].attempts + 1
           l == <<q, request[q].attempts + 1>>
           rq == [request[q] EXCEPT !.status = "ISSUE_PENDING", !.attempts = n]
           at == [exists |-> TRUE, status |-> "PENDING", channel |-> channel,
                  accepted |-> FALSE, seq |-> 0]
<1>1. /\ request[q] \in RequestRows /\ request[q].attempts \in Nat
      /\ request[q].attempts < MaxAttempts /\ MaxAttempts \in Nat
  BY RowsTyped, AttemptPair DEF IssueInv, CreateApprovedInvoiceAttempt
<1>2. n \in Nat /\ 1 <= n /\ n <= MaxAttempts /\ n \in 0 .. MaxAttempts /\ request[q].attempts < n
  BY <1>1
<1>3. l \in Attempts /\ l[1] = q /\ l[2] = n
  BY <1>2, AttemptPair
<1>4. /\ request' = [request EXCEPT ![q] = rq]
      /\ attempt' = [attempt EXCEPT ![l] = at]
      /\ command' = [command EXCEPT ![l] = NewCommand] \/ command' = command
  BY DEF CreateApprovedInvoiceAttempt, IssueInv, TypeOK
<1>5. rq \in RequestRows
  <2>1. n \in 0 .. MaxAttempts
    BY <1>2
  <2> HIDE DEF n
  <2> QED
    BY <1>1, <2>1 DEF RequestRows, RequestStatuses
<1>6. rq.exists /\ rq.status = "ISSUE_PENDING" /\ rq.attempts = n /\ rq.allocation = request[q].allocation
  BY <1>1 DEF RequestRows
<1>7. at \in AttemptRows /\ at.exists /\ at.status = "PENDING"
  BY DEF AttemptRows, AttemptStatuses
<1> HIDE DEF rq, at, l, n
<1>8. /\ request'[q] = rq /\ \A p \in Requests \ {q} : request'[p] = request[p]
      /\ attempt'[l] = at /\ \A a \in Attempts \ {l} : attempt'[a] = attempt[a]
      /\ request' \in [Requests -> RequestRows \cup {Absent}]
      /\ attempt' \in [Attempts -> AttemptRows \cup {Absent}]
  BY <1>3, <1>4, <1>5, <1>7 DEF IssueInv, TypeOK
<1>9. QueueInv' /\ \A a \in Attempts \ {l} : command'[a] = command[a]
  <2>1. Attempts \subseteq Commands /\ QueueInv
    BY InvoiceAssumption DEF IssueInv
  <2>2. CASE command' = [command EXCEPT ![l] = NewCommand]
    BY <1>3, <2>1, <2>2, NewCommandKept
  <2>3. CASE command' = command
    BY <2>1, <2>3 DEF QueueInv, TaxTypeOK, BatchesExist, TryLeft, providerVars
  <2> QED
    BY <1>4, <2>2, <2>3
<1>10. TypeOK'
  BY <1>8, <1>9 DEF IssueInv, TypeOK, QueueInv
<1>11. ASSUME NEW a \in Attempts PROVE AttemptSound(a)'
  <2>1. a[1] \in Requests /\ a[2] \in Nat /\ a = <<a[1], a[2]>>
    BY AttemptPair
  <2>2. AttemptSound(a)
    BY DEF IssueInv, AttemptsSound
  <2>3. CASE a[1] # q
    <3>1. a # l
      BY <1>3, <2>3
    <3> QED
      BY <1>8, <1>9, <2>1, <2>2, <2>3, <3>1 DEF AttemptSound
  <2>4. CASE a = l
    <3>1. a[2] = rq.attempts /\ a[2] <= rq.attempts /\ ~ (a[2] < rq.attempts)
      BY <1>2, <1>3, <1>6, <2>4
    <3>2. ~ (a[2] <= request[q].attempts)
      BY <1>1, <1>2, <1>3, <2>4
    <3>3. a \notin invoices'
      BY <1>3, <2>2, <2>4, <3>2 DEF AttemptSound
    <3>4. Follows(rq.status, at.status)
      BY <1>6, <1>7 DEF Follows
    <3> QED
      BY <1>3, <1>6, <1>7, <1>8, <2>4, <3>1, <3>3, <3>4 DEF AttemptSound
  <2>5. CASE a[1] = q /\ a # l
    <3>1. a[2] # n
      BY <1>3, <2>1, <2>5, AttemptPair DEF l, n
    <3>2. a[2] <= request[q].attempts <=> a[2] <= n
      BY <1>1, <2>1, <3>1 DEF n
    <3>3. a[2] <= request[q].attempts => a[2] < request[q].attempts \/ a[2] = request[q].attempts
      BY <1>1, <2>1
    <3>4. attempt[a].exists => attempt[a].status = "ISSUE_FAILED"
      <4>1. SUFFICES ASSUME attempt[a].exists PROVE attempt[a].status = "ISSUE_FAILED"
        OBVIOUS
      <4>2. attempt[a].status \in AttemptStatuses
        BY <4>1, RowsTyped DEF IssueInv, AttemptRows
      <4> QED
        BY <2>2, <2>5, <3>3, <4>1, <4>2 DEF AttemptSound, Follows, AttemptStatuses
    <3>5. UNCHANGED <<attempt[a], command[a], invoices>> /\ request'[a[1]] = rq
      BY <1>8, <1>9, <2>5
    <3> QED
      BY <1>6, <2>2, <2>5, <3>1, <3>2, <3>4, <3>5 DEF AttemptSound
  <2> QED
    BY <2>3, <2>4, <2>5
<1>12. ASSUME NEW p \in Requests PROVE RequestSound(p)'
  BY <1>2, <1>6, <1>8 DEF RequestSound, IssueInv, RequestsSound
<1>13. InboxSound'
  <2>1. \A c \in Attempts : c[1] \in Requests
    BY AttemptPair
  <2> QED
    BY <1>8, <2>1 DEF IssueInv, InboxSound
<1>14. \A d \in Commands \ Attempts : command'[d] = command[d]
  BY <1>3, <1>4 DEF IssueInv, TypeOK, TaxTypeOK
<1> QED
  BY <1>9, <1>10, <1>11, <1>12, <1>13, <1>14 DEF IssueInv, AttemptsSound, RequestsSound

\* The steps of approval and review keep the invariant.
LEMMA ReviewKept ==
    ASSUME IssueInv, NEW u \in Users, NEW q \in Requests,
           \/ \E c \in ChannelsFor[q] : ApproveInvoiceRequest(u, q, c)
           \/ \E c \in ChannelsFor[q] : ReviewSpecialInvoice(u, q, c)
           \/ RejectInvoiceRequest(u, q)
           \/ RecoverFailedInvoice(u, q)
    PROVE  IssueInv' /\ \A d \in Commands \ Attempts : command'[d] = command[d]
<1>0. ChannelsFor[q] \subseteq Channels /\ (NewVersion(q) => cancelling' \in SUBSET Requests)
  BY InvoiceAssumption DEF NewVersion, IssueInv, TypeOK
<1>1. ASSUME request[q].exists,
             request[q].status \in {"SUBMITTED", "SPECIAL_REVIEW", "ISSUE_FAILED"},
             NEW s \in {"SUBMITTED", "SPECIAL_REVIEW"},
             request' = [request EXCEPT ![q].status = s],
             UNCHANGED <<original, invoiced, attempt, invoices, inbox, taxVars>>, NewVersion(q)
      PROVE  IssueInv'
  <2> DEFINE rq == [request[q] EXCEPT !.status = s]
  <2>1. request[q] \in RequestRows
    BY <1>1, RowsTyped DEF IssueInv
  <2>2. /\ rq \in RequestRows /\ rq.status = s /\ rq.attempts = request[q].attempts
        /\ rq.allocation = request[q].allocation
    BY <2>1 DEF RequestRows, RequestStatuses
  <2>3. request' = [request EXCEPT ![q] = rq]
    BY <1>1 DEF IssueInv, TypeOK
  <2>4. rq.status \in {"SUBMITTED", "SPECIAL_REVIEW", "REJECTED"} /\ rq.status # "REJECTED"
    BY <2>2
  <2> HIDE DEF rq
  <2> QED
    BY <1>0, <1>1, <2>2, <2>3, <2>4, RequestMoves
<1>2. ASSUME NEW c \in ChannelsFor[q], ApproveInvoiceRequest(u, q, c)
      PROVE  IssueInv' /\ \A d \in Commands \ Attempts : command'[d] = command[d]
  <2>1. request[q].exists /\ request[q].status = "SUBMITTED"
    BY <1>2 DEF ApproveInvoiceRequest, InStatus
  <2>2. CASE request[q].special
    BY <1>1, <1>2, <2>1, <2>2
      DEF ApproveInvoiceRequest, taxVars, queueVars
  <2>3. CASE ~ request[q].special
    BY <1>0, <1>2, <2>1, <2>3, AttemptCreated DEF ApproveInvoiceRequest
  <2> QED
    BY <2>2, <2>3
<1>3. ASSUME NEW c \in ChannelsFor[q], ReviewSpecialInvoice(u, q, c)
      PROVE  IssueInv' /\ \A d \in Commands \ Attempts : command'[d] = command[d]
  BY <1>0, <1>3, AttemptCreated DEF ReviewSpecialInvoice, InStatus
<1>4. ASSUME RejectInvoiceRequest(u, q) PROVE IssueInv'
  <2> DEFINE rq == [request[q] EXCEPT !.status = "REJECTED", !.allocation = "RELEASED"]
  <2>1. request[q].exists /\ request[q].status \in {"SUBMITTED", "SPECIAL_REVIEW"}
    BY <1>4 DEF RejectInvoiceRequest, InStatus
  <2>2. request[q] \in RequestRows
    BY <2>1, RowsTyped DEF IssueInv
  <2>3. /\ rq \in RequestRows /\ rq.status = "REJECTED" /\ rq.attempts = request[q].attempts
        /\ rq.allocation = "RELEASED"
    BY <2>2 DEF RequestRows, RequestStatuses
  <2>4. request' = [request EXCEPT ![q] = rq]
    BY <1>4 DEF RejectInvoiceRequest, IssueInv, TypeOK
  <2>5. UNCHANGED <<original, invoiced, attempt, invoices, inbox, taxVars>> /\ NewVersion(q)
    BY <1>4 DEF RejectInvoiceRequest, taxVars
  <2> HIDE DEF rq
  <2> QED
    BY <1>0, <2>1, <2>3, <2>4, <2>5, RequestMoves
<1>5. ASSUME RecoverFailedInvoice(u, q) PROVE IssueInv'
  BY <1>1, <1>5 DEF RecoverFailedInvoice, InStatus, taxVars
<1>6. RejectInvoiceRequest(u, q) \/ RecoverFailedInvoice(u, q) => command' = command
  BY DEF RejectInvoiceRequest, RecoverFailedInvoice, queueVars
<1> QED
  BY <1>2, <1>3, <1>4, <1>5, <1>6

\* The rows an issued attempt leaves behind.
LEMMA IssueKeeps ==
    ASSUME IssueInv, NEW q \in Requests, request[q].exists, request[q].attempts # 0,
           request[q].status \in Issuing, NEW seq \in Nat, Issue(q, Latest(q), seq),
           UNCHANGED <<original, taxVars>>, NewVersion(q), inbox' \in SUBSET (Attempts \X ResultTypes \X Processing),
           \A b \in Attempts, s \in Processing :
             <<b, "issued", s>> \in inbox' => <<b, "issued", s>> \in inbox \/ b[1] = q
    PROVE  /\ IssueInv'
           /\ request[q].allocation = "RESERVED"
           /\ \A p \in Requests \ {q} : request'[p] = request[p]
           /\ request'[q] = [request[q] EXCEPT !.status = "ISSUED", !.allocation = "INVOICED"]
           /\ invoiced' = [invoiced EXCEPT ![request[q].rcv] = @ + request[q].amount]
<1> DEFINE l == Latest(q)
           rq == [request[q] EXCEPT !.status = "ISSUED", !.allocation = "INVOICED"]
           at == [attempt[l] EXCEPT !.status = "ISSUED", !.seq = seq]
<1>1. l \in Attempts /\ l[1] = q /\ attempt[l].exists
  BY LatestThere
<1>2. request[q] \in RequestRows /\ attempt[l] \in AttemptRows
  BY <1>1, RowsTyped DEF IssueInv
<1>3. request[q].allocation = "RESERVED"
  BY <1>2 DEF IssueInv, RequestsSound, RequestSound, Issuing, RequestRows
<1>4. /\ rq \in RequestRows /\ rq.exists /\ rq.status = "ISSUED" /\ rq.allocation = "INVOICED"
      /\ rq.attempts = request[q].attempts
  BY <1>2 DEF RequestRows, RequestStatuses
<1>5. at \in AttemptRows /\ at.status = "ISSUED"
  BY <1>2 DEF AttemptRows, AttemptStatuses
<1>6. request' = [request EXCEPT ![q] = rq]
  BY <1>3 DEF Issue, IssueInv, TypeOK
<1>7. attempt' = [attempt EXCEPT ![l] = at] /\ invoices' = invoices \cup {l}
  BY <1>1 DEF Issue, IssueInv, TypeOK
<1>8. invoiced' = [invoiced EXCEPT ![request[q].rcv] = @ + request[q].amount]
  BY <1>3 DEF Issue
<1>9. invoiced' \in [Receivables -> Nat]
  <2>1. request[q].rcv \in Receivables /\ request[q].amount \in Nat
    BY <1>2, InvoiceAssumption DEF RequestRows
  <2> QED
    BY <1>8, <2>1 DEF IssueInv, TypeOK
<1>10. request'[q] = rq /\ \A p \in Requests \ {q} : request'[p] = request[p]
  BY <1>6 DEF IssueInv, TypeOK
<1>11. QueueInv' /\ command' = command
  BY DEF IssueInv, QueueInv, TaxTypeOK, BatchesExist, TryLeft, taxVars, queueVars, providerVars
<1>12. InboxGrows
  BY <1>4, <1>10 DEF InboxGrows, NewVersion, IssueInv, TypeOK
<1>13. Follows(rq.status, at.status)
  BY <1>4, <1>5 DEF Follows
<1>14. request[q].status # "ISSUED"
  BY DEF Issuing
<1> HIDE DEF rq, at, l
<1>15. IssueInv'
  BY <1>4, <1>5, <1>6, <1>7, <1>9, <1>11, <1>12, <1>13, <1>14, LatestMoves DEF l
<1> QED
  BY <1>3, <1>8, <1>10, <1>15 DEF rq

\* A manual invoice is registered for the latest attempt.
LEMMA RegisterEffect ==
    ASSUME IssueInv, NEW q \in Requests, RegisterManualInvoice(q)
    PROVE  /\ IssueInv' /\ UNCHANGED original
           /\ request[q].exists /\ request[q].status # "ISSUED" /\ request[q].allocation = "RESERVED"
           /\ \A p \in Requests \ {q} : request'[p] = request[p]
           /\ request'[q] = [request[q] EXCEPT !.status = "ISSUED", !.allocation = "INVOICED"]
           /\ invoiced' = [invoiced EXCEPT ![request[q].rcv] = @ + request[q].amount]
<1>1. request[q].exists /\ request[q].status = "ISSUE_PENDING"
  BY DEF RegisterManualInvoice, InStatus
<1>2. request[q].attempts # 0 /\ request[q].status \in Issuing
  BY <1>1 DEF IssueInv, RequestsSound, RequestSound, Issuing
<1>3. Issue(q, Latest(q), 0) /\ NewVersion(q) /\ UNCHANGED <<original, taxVars, inbox>>
  BY DEF RegisterManualInvoice, taxVars
<1>4. inbox' \in SUBSET (Attempts \X ResultTypes \X Processing)
  BY <1>3 DEF IssueInv, TypeOK
<1>5. 0 \in Nat /\ request[q].status # "ISSUED"
  BY <1>1
<1>6. \A b \in Attempts, s \in Processing :
        <<b, "issued", s>> \in inbox' => <<b, "issued", s>> \in inbox \/ b[1] = q
  BY <1>3
<1>7. UNCHANGED <<original, taxVars>>
  BY <1>3
<1> HIDE DEF Issuing
<1> QED
  BY <1>1, <1>2, <1>3, <1>4, <1>5, <1>6, <1>7, IssueKeeps

\* A cancelled request gives its reservation back; its latest attempt is dropped.
LEMMA CancelEffect ==
    ASSUME IssueInv, NEW u \in Users, NEW q \in Requests, CancelInvoiceRequest(u, q)
    PROVE  /\ IssueInv' /\ UNCHANGED <<original, invoiced>>
           /\ request[q].exists /\ request[q].status # "ISSUED"
           /\ \A p \in Requests \ {q} : request'[p] = request[p]
           /\ request'[q] = [request[q] EXCEPT !.status = "CANCELLED", !.allocation = "RELEASED"]
<1> DEFINE l == Latest(q)
           rq == [request[q] EXCEPT !.status = "CANCELLED", !.allocation = "RELEASED"]
           at == [attempt[l] EXCEPT !.status = "ABANDONED"]
<1>1. request[q].exists /\ request[q].status \in {"ISSUE_PENDING", "ISSUE_FAILED"}
  BY DEF CancelInvoiceRequest, Cancellable, InStatus
<1>2. request[q].attempts # 0
  BY <1>1 DEF IssueInv, RequestsSound, RequestSound
<1>3. l \in Attempts /\ attempt[l].exists
  BY <1>1, <1>2, LatestThere
<1>4. request[q] \in RequestRows /\ attempt[l] \in AttemptRows
  BY <1>1, <1>3, RowsTyped DEF IssueInv
<1>5. /\ rq \in RequestRows /\ rq.status = "CANCELLED" /\ rq.allocation = "RELEASED"
      /\ rq.attempts = request[q].attempts
  BY <1>4 DEF RequestRows, RequestStatuses
<1>6. at \in AttemptRows /\ at.status = "ABANDONED"
  BY <1>4 DEF AttemptRows, AttemptStatuses
<1>7. /\ request' = [request EXCEPT ![q] = rq] /\ attempt' = [attempt EXCEPT ![l] = at]
      /\ UNCHANGED <<original, invoiced, invoices, inbox, queueVars, providerVars>>
  BY <1>3 DEF CancelInvoiceRequest, IssueInv, TypeOK
<1>8. request'[q] = rq /\ \A p \in Requests \ {q} : request'[p] = request[p]
  BY <1>7 DEF IssueInv, TypeOK
<1>9. QueueInv' /\ command' = command
  BY <1>7 DEF IssueInv, QueueInv, TaxTypeOK, BatchesExist, TryLeft, queueVars, providerVars
<1>10. InboxGrows /\ invoiced' \in [Receivables -> Nat]
  BY <1>7 DEF CancelInvoiceRequest, NewVersion, InboxGrows, IssueInv, TypeOK
<1>11. Follows(rq.status, at.status)
  BY <1>5, <1>6 DEF Follows
<1> HIDE DEF rq, at, l
<1>12. IssueInv'
  BY <1>1, <1>2, <1>5, <1>6, <1>7, <1>9, <1>10, <1>11, LatestMoves DEF l
<1> QED
  BY <1>1, <1>7, <1>8, <1>12 DEF rq

\* Recording a delivery moves an attempt that still waits for it.
LEMMA DeliveredEffect ==
    ASSUME IssueInv, NEW w \in Workers, NEW a \in Attempts, Delivered(w, a)
    PROVE  IssueInv' /\ UNCHANGED <<original, invoiced, request>>
<1>1. /\ DeliveredRow(w, a) /\ UNCHANGED <<original, invoiced, request, invoices, inbox, cancelling>>
      /\ \/ attempt' = attempt
         \/ attempt[a].status = "PENDING" /\ Holds(w, a)
            /\ attempt' = [attempt EXCEPT ![a].status = "ACCEPTED", ![a].accepted = TRUE]
  BY DEF Delivered, AcceptAttempt
<1>2. QueueInv' /\ \A d \in Commands : command'[d].exists => command[d].exists
  BY <1>1, DeliveredKept DEF IssueInv
<1>3. \A b \in Attempts : command'[b].exists => command[b].exists
  BY <1>2, InvoiceAssumption
<1>4. InboxGrows /\ original' \in [Receivables -> Nat] /\ invoiced' \in [Receivables -> Nat]
  BY <1>1 DEF InboxGrows, IssueInv, TypeOK
<1>5. CASE attempt' = attempt
  BY <1>1, <1>2, <1>3, <1>4, <1>5, IssueKept
<1>6. CASE /\ attempt[a].status = "PENDING" /\ Holds(w, a)
           /\ attempt' = [attempt EXCEPT ![a].status = "ACCEPTED", ![a].accepted = TRUE]
  <2> DEFINE at == [attempt[a] EXCEPT !.status = "ACCEPTED", !.accepted = TRUE]
             q == a[1]
  <2>1. a \in Commands /\ command[a] \in CommandRows
    BY <1>1, BatchRow DEF DeliveredRow, IssueInv
  <2>2. attempt[a].exists
    BY <2>1 DEF IssueInv, AttemptsSound, AttemptSound, CommandRows
  <2>3. attempt[a] \in AttemptRows
    BY <2>2, RowsTyped DEF IssueInv
  <2>4. /\ q \in Requests /\ request[q].exists /\ a = Latest(q) /\ request[q].attempts # 0
        /\ Follows(request[q].status, attempt[a].status)
    BY <1>6, <2>2, NotFailedIsLatest
  <2>5. request[q] \in RequestRows
    BY <2>4, RowsTyped DEF IssueInv
  <2>6. at \in AttemptRows /\ at.status = "ACCEPTED" /\ attempt' = [attempt EXCEPT ![a] = at]
    BY <1>6, <2>3 DEF AttemptRows, AttemptStatuses, IssueInv, TypeOK
  <2>7. Follows(request[q].status, at.status)
    BY <1>6, <2>4, <2>6 DEF Follows
  <2>8. request' = [request EXCEPT ![q] = request[q]]
    BY <1>1 DEF IssueInv, TypeOK
  <2>9. /\ request[q].allocation = "INVOICED" <=> request[q].status = "ISSUED"
        /\ request[q].allocation = "RELEASED" <=> request[q].status \in {"REJECTED", "CANCELLED"}
    BY <2>4 DEF IssueInv, RequestsSound, RequestSound
  <2> HIDE DEF at, q
  <2>10. IssueInv'
    BY <1>1, <1>2, <1>3, <1>4, <2>4, <2>5, <2>6, <2>7, <2>8, <2>9, LatestMoves
  <2> QED
    BY <1>1, <2>10
<1> QED
  BY <1>1, <1>5, <1>6

\* A result has a type and a sequence.
LEMMA ResultTyped == \A r \in Results : r.type \in ResultTypes /\ r.seq \in Nat
BY TaxCommandAssumption

\* What a received result may leave in the inbox.
LEMMA ReceiveEffect ==
    ASSUME IssueInv, NEW a \in Attempts, NEW r \in Results, NEW V,
           Receive(a, r, V)
    PROVE  /\ attempt[a].exists /\ UNCHANGED taxVars
           /\ a[1] \in Requests /\ request[a[1]].exists
           /\ QueueInv' /\ command' = command
           /\ inbox' \in SUBSET (Attempts \X ResultTypes \X Processing)
           /\ \A b \in Attempts, s \in Processing :
                <<b, "issued", s>> \in inbox' /\ s \notin Filed =>
                  \/ <<b, "issued", s>> \in inbox
                  \/ b = a /\ r.type = "issued"
                     /\ (request[a[1]].status = "ISSUED" \/ Verdict(a, r) = "APPLIED")
<1>1. attempt[a].exists /\ UNCHANGED taxVars
  BY DEF Receive, taxVars
<1>2. QueueInv' /\ command' = command
  BY <1>1 DEF IssueInv, QueueInv, TaxTypeOK, BatchesExist, TryLeft, taxVars, queueVars, providerVars
<1>3. a[1] \in Requests /\ request[a[1]].exists
  BY <1>1, AttemptPair DEF IssueInv, AttemptsSound, AttemptSound
<1>4. Verdict(a, r) \in Processing /\ r.type \in ResultTypes
  BY ResultTyped DEF Verdict, Processing
<1>5. inbox' = inbox \/ inbox' = inbox \cup {<<a, r.type, Verdict(a, r)>>}
  BY DEF Receive
<1>6. inbox' \in SUBSET (Attempts \X ResultTypes \X Processing)
  BY <1>4, <1>5 DEF IssueInv, TypeOK
<1>7. ASSUME r.type = "issued", Verdict(a, r) = "IGNORED_TERMINAL"
      PROVE  request[a[1]].status = "ISSUED"
  <2>1. attempt[a].status = "ISSUED" \/ request[a[1]].status = "ISSUED"
    BY <1>7 DEF Verdict
  <2>2. attempt[a].status = "ISSUED" => request[a[1]].status = "ISSUED"
    BY <1>1, NotFailedIsLatest DEF Follows
  <2> QED
    BY <2>1, <2>2
<1>8. ASSUME NEW b \in Attempts, NEW s \in Processing,
             <<b, "issued", s>> \in inbox', s \notin Filed, <<b, "issued", s>> \notin inbox
      PROVE  /\ b = a /\ r.type = "issued"
             /\ request[a[1]].status = "ISSUED" \/ Verdict(a, r) = "APPLIED"
  <2>1. <<b, "issued", s>> = <<a, r.type, Verdict(a, r)>>
    BY <1>5, <1>8
  <2>2. b = a /\ r.type = "issued" /\ s = Verdict(a, r)
    BY <2>1
  <2> QED
    BY <1>7, <1>8, <2>2 DEF Processing, Filed
<1> QED
  BY <1>1, <1>2, <1>3, <1>6, <1>8

\* A result that is applied finds its attempt in the provider's hands.
LEMMA AppliedIsLive ==
    ASSUME IssueInv, NEW a \in Attempts, NEW r \in Results, attempt[a].exists,
           Verdict(a, r) = "APPLIED"
    PROVE  /\ a[1] \in Requests /\ request[a[1]].exists /\ a = Latest(a[1])
           /\ request[a[1]].attempts # 0 /\ request[a[1]].status \in Issuing
<1>1. attempt[a].status \notin {"ISSUED", "ISSUE_FAILED", "ABANDONED"}
  BY DEF Verdict, Cancelled
<1>2. attempt[a].status \in AttemptStatuses
  BY RowsTyped DEF IssueInv, AttemptRows
<1> QED
  BY <1>1, <1>2, NotFailedIsLatest DEF AttemptStatuses, Follows, Issuing

\* A success that is applied issues the invoice.
LEMMA IssuedEffect ==
    ASSUME IssueInv, NEW a \in Attempts, NEW r \in Results, ApplyIssued(a, r)
    PROVE  /\ IssueInv' /\ UNCHANGED original
           /\ a[1] \in Requests
           /\ request[a[1]].exists /\ request[a[1]].status # "ISSUED"
           /\ request[a[1]].allocation = "RESERVED"
           /\ \A p \in Requests \ {a[1]} : request'[p] = request[p]
           /\ request'[a[1]] = [request[a[1]] EXCEPT !.status = "ISSUED", !.allocation = "INVOICED"]
           /\ invoiced' = [invoiced EXCEPT ![request[a[1]].rcv] = @ + request[a[1]].amount]
<1> DEFINE q == a[1]
<1>0. /\ Receive(a, r, {"APPLIED"}) /\ Issue(a[1], a, r.seq) /\ UNCHANGED original
      /\ NewVersion(a[1])
  BY DEF ApplyIssued
<1>1. Verdict(a, r) = "APPLIED"
  BY <1>0 DEF Receive
<1>2. /\ attempt[a].exists /\ UNCHANGED taxVars
      /\ inbox' \in SUBSET (Attempts \X ResultTypes \X Processing)
  BY <1>0, ReceiveEffect
<1>3. /\ q \in Requests /\ request[q].exists /\ a = Latest(q)
      /\ request[q].attempts # 0 /\ request[q].status \in Issuing
  BY <1>0, <1>1, <1>2, AppliedIsLive
<1>4. r.seq \in Nat /\ NewVersion(q)
  BY <1>0, ResultTyped
<1>5. \A b \in Attempts, s \in Processing :
        <<b, "issued", s>> \in inbox' => <<b, "issued", s>> \in inbox \/ b[1] = q
  BY <1>0 DEF Receive
<1>6. request[q].status # "ISSUED"
  BY <1>3 DEF Issuing
<1>7. Issue(q, Latest(q), r.seq) /\ UNCHANGED <<original, taxVars>>
  BY <1>0, <1>2, <1>3
<1> HIDE DEF q
<1>8. /\ IssueInv'
      /\ request[q].allocation = "RESERVED"
      /\ \A p \in Requests \ {q} : request'[p] = request[p]
      /\ request'[q] = [request[q] EXCEPT !.status = "ISSUED", !.allocation = "INVOICED"]
      /\ invoiced' = [invoiced EXCEPT ![request[q].rcv] = @ + request[q].amount]
  BY <1>2, <1>3, <1>4, <1>5, <1>7, IssueKeeps
<1> QED
  BY <1>0, <1>3, <1>6, <1>8 DEF q

\* A failure, or an answer that is not one yet.
LEMMA NotIssuedEffect ==
    ASSUME IssueInv, NEW a \in Attempts, NEW r \in Results, ApplyNotIssued(a, r)
    PROVE  /\ IssueInv' /\ UNCHANGED <<original, invoiced>>
           /\ a[1] \in Requests
           /\ request[a[1]].exists /\ request[a[1]].status # "ISSUED"
           /\ \A p \in Requests \ {a[1]} : request'[p] = request[p]
           /\ \E s \in {"ISSUE_FAILED", "ISSUE_UNKNOWN"} :
                request'[a[1]] = [request[a[1]] EXCEPT !.status = s]
<1> DEFINE q == a[1]
           s == IF r.type = "failed" THEN "ISSUE_FAILED" ELSE "ISSUE_UNKNOWN"
           t == IF r.type = "failed" THEN "ISSUE_FAILED" ELSE "UNKNOWN"
           rq == [request[q] EXCEPT !.status = s]
           at == [attempt[a] EXCEPT !.status = t, !.seq = r.seq]
<1>0. /\ r.type # "issued" /\ Receive(a, r, {"APPLIED"}) /\ NewVersion(q)
      /\ UNCHANGED <<original, invoiced, invoices>>
  BY DEF ApplyNotIssued
<1>1. Verdict(a, r) = "APPLIED"
  BY <1>0 DEF Receive
<1>2. /\ attempt[a].exists /\ QueueInv' /\ command' = command
      /\ inbox' \in SUBSET (Attempts \X ResultTypes \X Processing)
  BY <1>0, ReceiveEffect
<1>3. /\ q \in Requests /\ request[q].exists /\ a = Latest(q)
      /\ request[q].attempts # 0 /\ request[q].status \in Issuing
  BY <1>1, <1>2, AppliedIsLive
<1>4. request[q] \in RequestRows /\ attempt[a] \in AttemptRows
  BY <1>2, <1>3, RowsTyped DEF IssueInv
<1>5. /\ s \in {"ISSUE_FAILED", "ISSUE_UNKNOWN"} /\ t \in {"ISSUE_FAILED", "UNKNOWN"}
      /\ Follows(s, t)
  BY DEF Follows
<1>6. request' = [request EXCEPT ![q] = rq] /\ attempt' = [attempt EXCEPT ![a] = at]
  BY <1>3 DEF ApplyNotIssued, IssueInv, TypeOK
<1> HIDE DEF s, t, q
<1>7. /\ rq \in RequestRows /\ rq.status = s /\ rq.attempts = request[q].attempts
      /\ rq.allocation = request[q].allocation
  BY <1>4, <1>5 DEF RequestRows, RequestStatuses
<1>8. at \in AttemptRows /\ at.status = t
  BY <1>4, <1>5, ResultTyped DEF AttemptRows, AttemptStatuses
<1>9. request'[q] = rq /\ \A p \in Requests \ {q} : request'[p] = request[p]
  BY <1>3, <1>6 DEF IssueInv, TypeOK
<1>10. InboxGrows /\ invoiced' \in [Receivables -> Nat]
  <2>1. \A b \in Attempts, v \in Processing :
          <<b, "issued", v>> \in inbox' => <<b, "issued", v>> \in inbox
    BY <1>0 DEF Receive
  <2> QED
    BY <1>0, <1>2, <2>1 DEF InboxGrows, NewVersion, IssueInv, TypeOK
<1>11. request[q].status # "ISSUED" /\ rq.status # "ISSUED" /\ at.status # "ISSUED"
  BY <1>3, <1>5, <1>7, <1>8 DEF Issuing
<1>12. /\ request[q].allocation # "INVOICED" /\ request[q].allocation # "RELEASED"
       /\ rq.status \notin {"REJECTED", "CANCELLED"}
  BY <1>3, <1>5, <1>7 DEF IssueInv, RequestsSound, RequestSound, Issuing
<1>13. rq = [request[q] EXCEPT !.status = s]
  OBVIOUS
<1> HIDE DEF rq, at
<1>14. IssueInv'
  BY <1>0, <1>2, <1>3, <1>5, <1>6, <1>7, <1>8, <1>10, <1>11, <1>12, LatestMoves
<1> QED
  BY <1>0, <1>3, <1>5, <1>9, <1>11, <1>13, <1>14 DEF q

-----------------------------------------------------------------------------
(* The quota.  R is the set of requests whose invoice has been flushed:    *)
(* none in InvoiceIssue.                                                   *)

ReservedIn(rq, v) ==
    [q \in Requests |-> IF rq[q].exists /\ rq[q].rcv = v /\ rq[q].allocation = "RESERVED"
                        THEN rq[q].amount ELSE 0]
IssuedIn(rq, R, v) ==
    [q \in Requests |-> IF rq[q].exists /\ rq[q].rcv = v /\ rq[q].status = "ISSUED" /\ q \notin R
                        THEN rq[q].amount ELSE 0]

\* The quota of receivable v in terms of these sums.
QuotaSummed(org, inv, rq, R, v) ==
    /\ inv[v] = SumOver(IssuedIn(rq, R, v), Requests)
    /\ inv[v] + SumOver(ReservedIn(rq, v), Requests) <= org[v]

\* The requests whose allocation was reversed.
ReversedRequests == {q \in Requests : \E f \in Flushes : <<q, f>> \in reversals}

Quota(R) == \A v \in Receivables : QuotaSummed(original, invoiced, request, R, v)

RequestTables == [Requests -> RequestRows \cup {Absent}]

\* The summands are natural numbers.
LEMMA QuotaSummands ==
    ASSUME NEW rq \in RequestTables, NEW R, NEW v
    PROVE  \A q \in Requests : ReservedIn(rq, v)[q] \in Nat /\ IssuedIn(rq, R, v)[q] \in Nat
<1>1. \A q \in Requests : rq[q].exists => rq[q].amount \in Nat
  <2>1. \A q \in Requests : rq[q].exists => rq[q] \in RequestRows
    BY DEF RequestTables, Absent
  <2>2. \A row \in RequestRows : row.amount \in Amounts
    BY DEF RequestRows
  <2> QED
    BY <2>1, <2>2, InvoiceAssumption
<1> QED
  BY <1>1 DEF ReservedIn, IssuedIn

\* A change at one request changes the sums by what changes there.
LEMMA ReservedChange ==
    ASSUME NEW rq \in RequestTables, NEW rq2 \in RequestTables, NEW q \in Requests,
           \A p \in Requests \ {q} : rq2[p] = rq[p], NEW v
    PROVE  /\ SumOver(ReservedIn(rq, v), Requests) \in Nat
           /\ SumOver(ReservedIn(rq2, v), Requests) =
                SumOver(ReservedIn(rq, v), Requests) - ReservedIn(rq, v)[q] + ReservedIn(rq2, v)[q]
<1> DEFINE f == ReservedIn(rq, v)
           g == ReservedIn(rq2, v)
<1>0. IsFiniteSet(Requests)
  BY InvoiceAssumption
<1>1. \A p \in Requests \ {q} : g[p] = f[p]
  BY DEF ReservedIn
<1>2. \A p \in Requests : f[p] \in Nat /\ g[p] \in Nat
  BY QuotaSummands
<1> HIDE DEF f, g
<1>3. SumOver(g, Requests) = SumOver(f, Requests) - f[q] + g[q]
  BY <1>0, <1>1, <1>2, SumChange
<1>4. SumOver(f, Requests) \in Nat
  BY <1>0, <1>2, SumNat
<1> QED
  BY <1>3, <1>4 DEF f, g

\* The same for the issued ones; what is issued at one is at most the sum.
LEMMA IssuedChange ==
    ASSUME NEW rq \in RequestTables, NEW rq2 \in RequestTables, NEW R, NEW R2, NEW q \in Requests, NEW v,
           \A p \in Requests \ {q} : IssuedIn(rq2, R2, v)[p] = IssuedIn(rq, R, v)[p]
    PROVE  /\ SumOver(IssuedIn(rq, R, v), Requests) \in Nat
           /\ SumOver(IssuedIn(rq2, R2, v), Requests) =
                SumOver(IssuedIn(rq, R, v), Requests) - IssuedIn(rq, R, v)[q] + IssuedIn(rq2, R2, v)[q]
           /\ IssuedIn(rq, R, v)[q] <= SumOver(IssuedIn(rq, R, v), Requests)
<1> DEFINE f == IssuedIn(rq, R, v)
           g == IssuedIn(rq2, R2, v)
<1>0. IsFiniteSet(Requests)
  BY InvoiceAssumption
<1>1. \A p \in Requests \ {q} : g[p] = f[p]
  OBVIOUS
<1>2. \A p \in Requests : f[p] \in Nat /\ g[p] \in Nat
  BY QuotaSummands
<1> HIDE DEF f, g
<1>3. SumOver(g, Requests) = SumOver(f, Requests) - f[q] + g[q]
  BY <1>0, <1>1, <1>2, SumChange
<1>4. SumOver(f, Requests) \in Nat
  BY <1>0, <1>2, SumNat
<1>5. f[q] <= SumOver(f, Requests)
  BY <1>0, <1>2, SumBound
<1> QED
  BY <1>3, <1>4, <1>5 DEF f, g

\* A step that changes none of the columns the quota depends on.
SameQuota ==
    \A q \in Requests :
      /\ request'[q].exists <=> request[q].exists
      /\ request[q].exists =>
           /\ request'[q].rcv = request[q].rcv /\ request'[q].amount = request[q].amount
           /\ request'[q].allocation = request[q].allocation
           /\ request'[q].status = "ISSUED" <=> request[q].status = "ISSUED"

\* Such a step keeps the quota.
LEMMA QuotaSame ==
    ASSUME NEW R, Quota(R), SameQuota, UNCHANGED <<original, invoiced>>
    PROVE  Quota(R)'
<1> SUFFICES ASSUME NEW v \in Receivables PROVE QuotaSummed(original, invoiced, request', R, v)
  BY DEF Quota
<1>1. ReservedIn(request', v) = ReservedIn(request, v)
  BY DEF ReservedIn, SameQuota
<1>2. IssuedIn(request', R, v) = IssuedIn(request, R, v)
  BY DEF IssuedIn, SameQuota
<1> QED
  BY <1>1, <1>2 DEF Quota, QuotaSummed

\* The summands of request q when its row is r.
ReservedRow(r, v) == IF r.exists /\ r.rcv = v /\ r.allocation = "RESERVED" THEN r.amount ELSE 0
IssuedRow(r, v) == IF r.exists /\ r.rcv = v /\ r.status = "ISSUED" THEN r.amount ELSE 0

\* A step that moves one request keeps the quota if the counters move with it.
LEMMA QuotaMove ==
    ASSUME TypeOK, TypeOK', NEW R, Quota(R), NEW q \in Requests, q \notin R,
           \A p \in Requests \ {q} : request'[p] = request[p],
           original' = original,
           \A v \in Receivables :
             /\ invoiced'[v] = invoiced[v] - IssuedRow(request[q], v) + IssuedRow(request'[q], v)
             /\ \/ /\ invoiced'[v] <= invoiced[v] + ReservedRow(request[q], v)
                                        - ReservedRow(request'[q], v)
                \/ /\ ReservedRow(request[q], v) = 0 /\ IssuedRow(request'[q], v) = 0
                   /\ invoiced[v] + SumOver(ReservedIn(request, v), Requests)
                        + ReservedRow(request'[q], v) <= original[v]
    PROVE  Quota(R)'
<1> SUFFICES ASSUME NEW v \in Receivables PROVE QuotaSummed(original, invoiced', request', R, v)
  BY DEF Quota
<1> DEFINE res == SumOver(ReservedIn(request, v), Requests)
           iss == SumOver(IssuedIn(request, R, v), Requests)
           r1 == ReservedRow(request[q], v)
           r2 == ReservedRow(request'[q], v)
           i1 == IssuedRow(request[q], v)
           i2 == IssuedRow(request'[q], v)
<1>1. request \in RequestTables /\ request' \in RequestTables
  BY DEF TypeOK, RequestTables
<1>2. /\ ReservedIn(request, v)[q] = r1 /\ ReservedIn(request', v)[q] = r2
      /\ IssuedIn(request, R, v)[q] = i1 /\ IssuedIn(request', R, v)[q] = i2
  BY DEF ReservedIn, IssuedIn, ReservedRow, IssuedRow
<1>3. r1 \in Nat /\ r2 \in Nat /\ i1 \in Nat /\ i2 \in Nat
  BY <1>1, <1>2, QuotaSummands
<1>4. /\ res \in Nat /\ iss \in Nat
      /\ SumOver(ReservedIn(request', v), Requests) = res - ReservedIn(request, v)[q] + ReservedIn(request', v)[q]
      /\ SumOver(IssuedIn(request', R, v), Requests) =
           iss - IssuedIn(request, R, v)[q] + IssuedIn(request', R, v)[q]
      /\ IssuedIn(request, R, v)[q] <= iss
  <2>1. \A p \in Requests \ {q} : request'[p] = request[p]
    OBVIOUS
  <2>2. \A p \in Requests \ {q} : IssuedIn(request', R, v)[p] = IssuedIn(request, R, v)[p]
    BY <2>1 DEF IssuedIn
  <2>3. /\ res \in Nat
        /\ SumOver(ReservedIn(request', v), Requests) = res - ReservedIn(request, v)[q] + ReservedIn(request', v)[q]
    BY ONLY <1>1, <2>1, q \in Requests, ReservedChange
  <2>4. /\ iss \in Nat
        /\ SumOver(IssuedIn(request', R, v), Requests) =
             iss - IssuedIn(request, R, v)[q] + IssuedIn(request', R, v)[q]
        /\ IssuedIn(request, R, v)[q] <= iss
    BY ONLY <1>1, <2>2, q \in Requests, IssuedChange
  <2> QED
    BY <2>3, <2>4
<1>5. /\ invoiced[v] = iss /\ invoiced[v] + res <= original[v]
      /\ original[v] \in Nat /\ invoiced[v] \in Nat /\ invoiced'[v] \in Nat
  BY DEF Quota, QuotaSummed, TypeOK
<1>6. /\ invoiced'[v] = invoiced[v] - i1 + i2
      /\ \/ invoiced'[v] <= invoiced[v] + r1 - r2
         \/ r1 = 0 /\ i2 = 0 /\ invoiced[v] + res + r2 <= original[v]
  OBVIOUS
<1>7. invoiced'[v] = SumOver(IssuedIn(request', R, v), Requests)
  <2> HIDE DEF iss, i1, i2
  <2> QED
    BY <1>2, <1>3, <1>4, <1>5, <1>6
<1>8. invoiced'[v] + SumOver(ReservedIn(request', v), Requests) <= original[v]
  <2> HIDE DEF res, r1, r2, i1, i2
  <2> QED
    BY <1>2, <1>3, <1>4, <1>5, <1>6
<1> QED
  BY <1>7, <1>8 DEF QuotaSummed

\* The sums of the module are these sums.
LEMMA QuotaRestated ==
    ASSUME TypeOK
    PROVE  /\ \A v : Reserved(v) = SumOver(ReservedIn(request, v), Requests)
           /\ QuotaRespected <=> Quota({})
           /\ ReversedRequests \in SUBSET Requests
           /\ QuotaAfterFlush <=> Quota(ReversedRequests)
<1> DEFINE amount == [q \in Requests |-> request[q].amount]
           Res(v) == {q \in Requests : /\ request[q].exists /\ request[q].rcv = v
                                       /\ request[q].allocation = "RESERVED"}
           Iss(v) == {q \in Requests : /\ request[q].exists /\ request[q].rcv = v
                                       /\ request[q].status = "ISSUED"}
           Left(v) == {q \in Requests : /\ request[q].exists /\ request[q].rcv = v
                                        /\ request[q].status = "ISSUED"
                                        /\ \A f \in Flushes : <<q, f>> \notin reversals}
<1>0. IsFiniteSet(Requests) /\ request \in RequestTables
  BY InvoiceAssumption DEF TypeOK, RequestTables
<1>1. ASSUME NEW v PROVE Reserved(v) = SumOver(amount, Res(v))
  BY DEF Reserved, SumOver, MapThenSumSet, MapThenFoldSet
<1>2. ASSUME NEW v PROVE MapThenSumSet(LAMBDA q : request[q].amount, Iss(v)) = SumOver(amount, Iss(v))
  BY DEF SumOver, MapThenSumSet, MapThenFoldSet
<1>3. ASSUME NEW v PROVE MapThenSumSet(LAMBDA q : request[q].amount, Left(v)) = SumOver(amount, Left(v))
  BY DEF SumOver, MapThenSumSet, MapThenFoldSet
<1>4. ReversedRequests \in SUBSET Requests
  BY DEF ReversedRequests
<1>5. ASSUME NEW v PROVE SumOver(amount, Res(v)) = SumOver(ReservedIn(request, v), Requests)
  <2> DEFINE g == ReservedIn(request, v)
  <2>1. /\ Res(v) \in SUBSET Requests
        /\ \A q \in Res(v) : amount[q] = g[q]
        /\ \A q \in Requests \ Res(v) : g[q] = 0
    BY DEF ReservedIn
  <2>2. \A q \in Requests : g[q] \in Int
    BY <1>0, QuotaSummands
  <2> HIDE DEF g, amount, Res
  <2>3. SumOver(amount, Res(v)) = SumOver(g, Requests)
    BY <1>0, <2>1, <2>2, SumFilter
  <2> QED
    BY <2>3 DEF g
<1>6. ASSUME NEW v PROVE SumOver(amount, Iss(v)) = SumOver(IssuedIn(request, {}, v), Requests)
  <2> DEFINE g == IssuedIn(request, {}, v)
  <2>1. /\ Iss(v) \in SUBSET Requests
        /\ \A q \in Iss(v) : amount[q] = g[q]
        /\ \A q \in Requests \ Iss(v) : g[q] = 0
    BY DEF IssuedIn
  <2>2. \A q \in Requests : g[q] \in Int
    BY <1>0, QuotaSummands
  <2> HIDE DEF g, amount, Iss
  <2>3. SumOver(amount, Iss(v)) = SumOver(g, Requests)
    BY <1>0, <2>1, <2>2, SumFilter
  <2> QED
    BY <2>3 DEF g
<1>7. ASSUME NEW v PROVE SumOver(amount, Left(v)) = SumOver(IssuedIn(request, ReversedRequests, v), Requests)
  <2> DEFINE g == IssuedIn(request, ReversedRequests, v)
  <2>1. /\ Left(v) \in SUBSET Requests
        /\ \A q \in Left(v) : amount[q] = g[q]
        /\ \A q \in Requests \ Left(v) : g[q] = 0
    BY DEF IssuedIn, ReversedRequests
  <2>2. \A q \in Requests : g[q] \in Int
    BY <1>0, QuotaSummands
  <2> HIDE DEF g, amount, Left
  <2>3. SumOver(amount, Left(v)) = SumOver(g, Requests)
    BY <1>0, <2>1, <2>2, SumFilter
  <2> QED
    BY <2>3 DEF g
<1>8. \A v : Reserved(v) = SumOver(ReservedIn(request, v), Requests)
  BY <1>1, <1>5
<1> DEFINE IssuedSum(v) == MapThenSumSet(LAMBDA q : request[q].amount, Iss(v))
           LeftSum(v) == MapThenSumSet(LAMBDA q : request[q].amount, Left(v))
<1>9. /\ QuotaRespected <=> \A v \in Receivables : /\ invoiced[v] + Reserved(v) <= original[v]
                                                   /\ invoiced[v] = IssuedSum(v)
      /\ QuotaAfterFlush <=> \A v \in Receivables : /\ invoiced[v] + Reserved(v) <= original[v]
                                                    /\ invoiced[v] = LeftSum(v)
  BY DEF QuotaRespected, QuotaAfterFlush
<1>10. \A v : /\ IssuedSum(v) = SumOver(IssuedIn(request, {}, v), Requests)
              /\ LeftSum(v) = SumOver(IssuedIn(request, ReversedRequests, v), Requests)
  BY <1>2, <1>3, <1>6, <1>7
<1> HIDE DEF IssuedSum, LeftSum
<1> QED
  BY <1>4, <1>8, <1>9, <1>10 DEF Quota, QuotaSummed

-----------------------------------------------------------------------------
(* A step of InvoiceIssue keeps everything, whatever set of issued         *)
(* requests has been reversed.                                             *)

Issued(q) == request[q].exists /\ request[q].status = "ISSUED"

\* Invoices stay, new ones are of requests that had none, and commands are
\* inserted for attempts only.
Forward ==
    /\ invoices \subseteq invoices'
    /\ \A q \in Requests : Issued(q) => Issued(q)'
    /\ \A a \in invoices' \ invoices : ~ Issued(a[1])
    /\ \A f \in Flushes : command'[f].exists => command[f].exists

Kept(R) == IssueInv' /\ Quota(R)' /\ Forward

\* A step that touches neither requests nor amounts.
LEMMA AsideKept ==
    ASSUME IssueInv, NEW R, Quota(R), IssueInv',
           UNCHANGED <<original, invoiced, request, invoices>>,
           \A f \in Flushes : command'[f].exists => command[f].exists
    PROVE  Kept(R)
<1>1. SameQuota
  BY DEF SameQuota
<1>2. Quota(R)'
  BY <1>1, QuotaSame
<1> QED
  BY <1>2 DEF Kept, Forward, Issued

\* A step that moves a request that is not issued and does not become so, and
\* leaves its reservation alone or gives it back.
LEMMA RequestKept ==
    ASSUME IssueInv, NEW R, Quota(R), IssueInv', NEW q \in Requests, q \notin R,
           ~ Issued(q), request[q].exists,
           UNCHANGED <<original, invoiced, invoices>>,
           \A p \in Requests \ {q} : request'[p] = request[p],
           request'[q].exists, request'[q].status # "ISSUED",
           request'[q].rcv = request[q].rcv, request'[q].amount = request[q].amount,
           request'[q].allocation \in {request[q].allocation, "RELEASED"},
           \A f \in Flushes : command'[f].exists => command[f].exists
    PROVE  Kept(R)
<1>1. ASSUME NEW v \in Receivables
      PROVE  /\ invoiced'[v] = invoiced[v] - IssuedRow(request[q], v) + IssuedRow(request'[q], v)
             /\ invoiced'[v] <= invoiced[v] + ReservedRow(request[q], v) - ReservedRow(request'[q], v)
  <2>1. /\ IssuedRow(request[q], v) = 0 /\ IssuedRow(request'[q], v) = 0
        /\ \/ ReservedRow(request'[q], v) = ReservedRow(request[q], v)
           \/ ReservedRow(request'[q], v) = 0
    BY DEF IssuedRow, ReservedRow, Issued
  <2>2. invoiced[v] \in Nat /\ invoiced'[v] = invoiced[v]
    BY DEF IssueInv, TypeOK
  <2>3. request[q].amount \in Nat
    BY InvoiceAssumption, RowsTyped DEF IssueInv, RequestRows
  <2>4. ReservedRow(request[q], v) \in Nat
    BY <2>3 DEF ReservedRow
  <2> QED
    BY <2>1, <2>2, <2>4
<1>2. Quota(R)'
  BY <1>1, QuotaMove DEF IssueInv
<1> QED
  BY <1>2 DEF Kept, Forward, Issued

\* An invoice is issued: the reservation becomes the invoiced amount.
LEMMA IssueKeptQuota ==
    ASSUME IssueInv, NEW R, Quota(R), IssueInv', NEW q \in Requests, q \notin R,
           request[q].exists, request[q].status # "ISSUED", request[q].allocation = "RESERVED",
           \A p \in Requests \ {q} : request'[p] = request[p],
           request'[q] = [request[q] EXCEPT !.status = "ISSUED", !.allocation = "INVOICED"],
           invoiced' = [invoiced EXCEPT ![request[q].rcv] = @ + request[q].amount],
           original' = original, invoices' = invoices \cup {Latest(q)}, command' = command
    PROVE  Kept(R)
<1> DEFINE r == request[q].rcv
           x == request[q].amount
<1>1. request[q] \in RequestRows
  BY RowsTyped DEF IssueInv
<1>2. r \in Receivables /\ x \in Nat
  BY <1>1, InvoiceAssumption DEF RequestRows
<1>3. /\ request'[q].exists /\ request'[q].status = "ISSUED" /\ request'[q].allocation = "INVOICED"
      /\ request'[q].rcv = r /\ request'[q].amount = x
  BY <1>1 DEF RequestRows
<1>4. \A v \in Receivables : invoiced[v] \in Nat /\ invoiced'[v] = IF v = r THEN invoiced[v] + x ELSE invoiced[v]
  BY <1>2 DEF IssueInv, TypeOK
<1>5. \A v \in Receivables :
        /\ IssuedRow(request[q], v) = 0 /\ ReservedRow(request'[q], v) = 0
        /\ IssuedRow(request'[q], v) = IF v = r THEN x ELSE 0
        /\ ReservedRow(request[q], v) = IF v = r THEN x ELSE 0
  BY <1>3 DEF IssuedRow, ReservedRow
<1> HIDE DEF r, x
<1>6. ASSUME NEW v \in Receivables
      PROVE  /\ invoiced'[v] = invoiced[v] - IssuedRow(request[q], v) + IssuedRow(request'[q], v)
             /\ invoiced'[v] <= invoiced[v] + ReservedRow(request[q], v) - ReservedRow(request'[q], v)
  BY <1>2, <1>4, <1>5
<1>7. Quota(R)'
  BY <1>6, QuotaMove DEF IssueInv
<1>8. Latest(q)[1] = q
  BY DEF Latest
<1> QED
  BY <1>3, <1>7, <1>8 DEF Kept, Forward, Issued

\* A new request reserves what is available.
LEMMA CreateKeptQuota ==
    ASSUME IssueInv, NEW R, Quota(R), \A q \in R : Issued(q),
           NEW u \in Users, NEW q \in Requests, NEW v \in Receivables,
           NEW x \in Amounts, NEW b \in Specials, CreateInvoiceRequest(u, q, v, x, b)
    PROVE  Kept(R)
<1>1. IssueInv'
  BY CreateKept
<1>2. /\ ~ request[q].exists /\ x <= Available(v) /\ q \notin R
      /\ UNCHANGED <<original, invoiced, invoices, command>>
  BY DEF CreateInvoiceRequest, queueVars, Issued
<1>3. /\ \A p \in Requests \ {q} : request'[p] = request[p]
      /\ request'[q].exists /\ request'[q].status = "SUBMITTED" /\ request'[q].rcv = v
      /\ request'[q].amount = x /\ request'[q].allocation = "RESERVED"
  BY DEF CreateInvoiceRequest, IssueInv, TypeOK
<1>4. x \in Nat
  BY InvoiceAssumption
<1>5. ASSUME NEW w \in Receivables
      PROVE  /\ invoiced'[w] = invoiced[w] - IssuedRow(request[q], w) + IssuedRow(request'[q], w)
             /\ \/ invoiced'[w] <= invoiced[w] + ReservedRow(request[q], w) - ReservedRow(request'[q], w)
                \/ /\ ReservedRow(request[q], w) = 0 /\ IssuedRow(request'[q], w) = 0
                   /\ invoiced[w] + SumOver(ReservedIn(request, w), Requests)
                        + ReservedRow(request'[q], w) <= original[w]
  <2>1. /\ IssuedRow(request[q], w) = 0 /\ IssuedRow(request'[q], w) = 0
        /\ ReservedRow(request[q], w) = 0
        /\ ReservedRow(request'[q], w) = IF w = v THEN x ELSE 0
    BY <1>2, <1>3 DEF IssuedRow, ReservedRow
  <2>2. invoiced[w] \in Nat /\ original[w] \in Nat /\ invoiced'[w] = invoiced[w]
    BY <1>2 DEF IssueInv, TypeOK
  <2>3. SumOver(ReservedIn(request, w), Requests) \in Nat
    <3>1. request \in RequestTables /\ IsFiniteSet(Requests)
      BY InvoiceAssumption DEF IssueInv, TypeOK, RequestTables
    <3>2. \A p \in Requests : ReservedIn(request, w)[p] \in Nat
      BY <3>1, QuotaSummands
    <3> QED
      BY <3>1, <3>2, SumNat
  <2>4. CASE w = v
    <3>1. Reserved(w) = SumOver(ReservedIn(request, w), Requests)
      BY QuotaRestated DEF IssueInv
    <3>2. x <= original[w] - invoiced[w] - SumOver(ReservedIn(request, w), Requests)
      BY <1>2, <2>4, <3>1 DEF Available
    <3> QED
      BY <1>4, <2>1, <2>2, <2>3, <2>4, <3>2
  <2>5. CASE w # v
    BY <2>1, <2>2, <2>5
  <2> QED
    BY <2>4, <2>5
<1>6. Quota(R)'
  BY <1>1, <1>2, <1>3, <1>5, QuotaMove DEF IssueInv
<1> QED
  BY <1>1, <1>2, <1>3, <1>6 DEF Kept, Forward, Issued

\* The other steps on requests.
LEMMA RequestStep ==
    ASSUME IssueInv, NEW R, Quota(R), \A q \in R : Issued(q), RequestNext
    PROVE  Kept(R)
<1>1. ASSUME NEW u \in Users, NEW q \in Requests,
             \/ \E c \in ChannelsFor[q] : ApproveInvoiceRequest(u, q, c)
             \/ \E c \in ChannelsFor[q] : ReviewSpecialInvoice(u, q, c)
             \/ RejectInvoiceRequest(u, q)
             \/ RecoverFailedInvoice(u, q)
      PROVE  Kept(R)
  <2>1. IssueInv' /\ \A d \in Commands \ Attempts : command'[d] = command[d]
    BY <1>1, ReviewKept
  <2>2. request[q].exists /\ request[q].status \in {"SUBMITTED", "SPECIAL_REVIEW", "ISSUE_FAILED"}
    BY <1>1 DEF ApproveInvoiceRequest, ReviewSpecialInvoice, RejectInvoiceRequest,
                RecoverFailedInvoice, InStatus
  <2>3. request[q] \in RequestRows
    BY <2>2, RowsTyped DEF IssueInv
  <2>4. UNCHANGED <<original, invoiced, invoices>>
    BY <1>1 DEF ApproveInvoiceRequest, ReviewSpecialInvoice, RejectInvoiceRequest,
                RecoverFailedInvoice
  <2>5. \/ \E t \in {"SUBMITTED", "SPECIAL_REVIEW"} : request' = [request EXCEPT ![q].status = t]
        \/ request' = [request EXCEPT ![q].status = "ISSUE_PENDING", ![q].attempts = @ + 1]
        \/ request' = [request EXCEPT ![q].status = "REJECTED", ![q].allocation = "RELEASED"]
    BY <1>1 DEF ApproveInvoiceRequest, ReviewSpecialInvoice, RejectInvoiceRequest,
                RecoverFailedInvoice, CreateApprovedInvoiceAttempt
  <2>6. /\ \A p \in Requests \ {q} : request'[p] = request[p]
        /\ request'[q].exists /\ request'[q].status # "ISSUED"
        /\ request'[q].rcv = request[q].rcv /\ request'[q].amount = request[q].amount
        /\ request'[q].allocation \in {request[q].allocation, "RELEASED"}
    BY <2>2, <2>3, <2>5 DEF IssueInv, TypeOK, RequestRows
  <2>7. q \notin R /\ ~ Issued(q)
    BY <2>2 DEF Issued
  <2>8. \A f \in Flushes : command'[f].exists => command[f].exists
    BY <2>1, FlushAssumption
  <2> QED
    BY <2>1, <2>2, <2>4, <2>6, <2>7, <2>8, RequestKept
<1>2. ASSUME NEW u \in Users, NEW q \in Requests, CancelInvoiceRequest(u, q) PROVE Kept(R)
  <2>1. /\ IssueInv' /\ UNCHANGED <<original, invoiced>>
        /\ request[q].exists /\ request[q].status # "ISSUED"
        /\ \A p \in Requests \ {q} : request'[p] = request[p]
        /\ request'[q] = [request[q] EXCEPT !.status = "CANCELLED", !.allocation = "RELEASED"]
    BY <1>2, CancelEffect
  <2>2. invoices' = invoices /\ command' = command
    BY <1>2 DEF CancelInvoiceRequest, queueVars
  <2>3. request[q] \in RequestRows
    BY <2>1, RowsTyped DEF IssueInv
  <2>4. /\ request'[q].exists /\ request'[q].status # "ISSUED"
        /\ request'[q].rcv = request[q].rcv /\ request'[q].amount = request[q].amount
        /\ request'[q].allocation = "RELEASED"
    BY <2>1, <2>3 DEF RequestRows
  <2>5. q \notin R /\ ~ Issued(q)
    BY <2>1 DEF Issued
  <2> QED
    BY <2>1, <2>2, <2>4, <2>5, RequestKept
<1>3. ASSUME NEW q \in Requests, RegisterManualInvoice(q) PROVE Kept(R)
  <2>1. invoices' = invoices \cup {Latest(q)} /\ command' = command
    BY <1>3 DEF RegisterManualInvoice, Issue, queueVars
  <2>2. q \notin R
    BY <1>3, RegisterEffect DEF Issued
  <2> QED
    BY <1>3, <2>1, <2>2, RegisterEffect, IssueKeptQuota
<1>4. ASSUME NEW v \in Receivables, NEW x \in AdjustAmounts, AdjustPlan(v, x) PROVE Kept(R)
  <2>1. /\ invoiced[v] + Reserved(v) <= x /\ original' = [original EXCEPT ![v] = x]
        /\ UNCHANGED <<invoiced, request, attempt, invoices, command, queueVars, inbox, cancelling, providerVars>>
    BY <1>4 DEF AdjustPlan, queueVars
  <2>2. original' \in [Receivables -> Nat] /\ invoiced' \in [Receivables -> Nat]
    BY <2>1, InvoiceAssumption DEF IssueInv, TypeOK
  <2>3. QueueInv' /\ InboxGrows
    BY <2>1 DEF IssueInv, TypeOK, InboxGrows, QueueInv, TaxTypeOK, BatchesExist, TryLeft,
                queueVars, providerVars
  <2>4. IssueInv'
    BY <2>1, <2>2, <2>3, IssueKept
  <2>5. Reserved(v) = SumOver(ReservedIn(request, v), Requests)
    BY QuotaRestated DEF IssueInv
  <2>6. ASSUME NEW w \in Receivables PROVE QuotaSummed(original', invoiced', request', R, w)
    <3>1. QuotaSummed(original, invoiced, request, R, w)
      BY DEF Quota
    <3>2. original'[w] = IF w = v THEN x ELSE original[w]
      BY <2>1 DEF IssueInv, TypeOK
    <3> QED
      BY <2>1, <2>5, <3>1, <3>2 DEF QuotaSummed
  <2> QED
    BY <2>1, <2>4, <2>6 DEF Kept, Forward, Quota, Issued
<1>5. ASSUME NEW q \in Requests, OpenCancellation(q) \/ GiveUpCancellation(q) PROVE Kept(R)
  <2>1. UNCHANGED <<original, invoiced, request, attempt, invoices, inbox, queueVars, providerVars>>
    BY <1>5 DEF OpenCancellation, GiveUpCancellation, ledgerVars, taxVars
  <2>2. QueueInv' /\ command' = command
    BY <2>1 DEF IssueInv, QueueInv, TaxTypeOK, BatchesExist, TryLeft, queueVars, providerVars
  <2>3. cancelling' \in SUBSET Requests
    BY <1>5 DEF OpenCancellation, GiveUpCancellation, IssueInv, TypeOK
  <2>4. InboxGrows /\ original' \in [Receivables -> Nat] /\ invoiced' \in [Receivables -> Nat]
    BY <2>1, <2>3 DEF InboxGrows, IssueInv, TypeOK
  <2>5. IssueInv'
    BY <2>1, <2>2, <2>4, IssueKept
  <2> QED
    BY <2>1, <2>2, <2>5, AsideKept
<1> QED
  BY <1>1, <1>2, <1>3, <1>4, <1>5, CreateKeptQuota DEF RequestNext

\* Results that are applied, contradict what is known, or come too late.
LEMMA CallbackStep ==
    ASSUME IssueInv, NEW R, Quota(R), \A q \in R : Issued(q),
           NEW a \in Attempts, NEW r \in Results, ApplyTaxCallback(a, r)
    PROVE  Kept(R)
<1>1. CASE ApplyIssued(a, r)
  <2>1. a[1] \in Requests /\ a[1] \notin R
    BY <1>1, IssuedEffect DEF Issued
  <2>2. Verdict(a, r) = "APPLIED" /\ attempt[a].exists
    BY <1>1 DEF ApplyIssued, Receive
  <2>3. a = Latest(a[1])
    BY <2>2, AppliedIsLive
  <2>4. invoices' = invoices \cup {Latest(a[1])} /\ command' = command
    BY <1>1, <2>3 DEF ApplyIssued, Issue, Receive, queueVars
  <2> QED
    BY <1>1, <2>1, <2>4, IssuedEffect, IssueKeptQuota
<1>2. CASE ApplyNotIssued(a, r)
  <2> DEFINE q == a[1]
  <2>1. /\ IssueInv' /\ UNCHANGED <<original, invoiced>>
        /\ q \in Requests /\ request[q].exists /\ request[q].status # "ISSUED"
        /\ \A p \in Requests \ {q} : request'[p] = request[p]
        /\ \E t \in {"ISSUE_FAILED", "ISSUE_UNKNOWN"} : request'[q] = [request[q] EXCEPT !.status = t]
    BY <1>2, NotIssuedEffect
  <2>2. invoices' = invoices /\ command' = command
    BY <1>2 DEF ApplyNotIssued, Receive, queueVars
  <2>3. request[q] \in RequestRows
    BY <2>1, RowsTyped DEF IssueInv
  <2>4. /\ request'[q].exists /\ request'[q].status # "ISSUED"
        /\ request'[q].rcv = request[q].rcv /\ request'[q].amount = request[q].amount
        /\ request'[q].allocation = request[q].allocation
    BY <2>1, <2>3 DEF RequestRows
  <2>5. q \notin R /\ ~ Issued(q)
    BY <2>1 DEF Issued
  <2> HIDE DEF q
  <2> QED
    BY <2>1, <2>2, <2>4, <2>5, RequestKept
<1>3. CASE RecordConflict(a, r)
  <2>1. /\ Receive(a, r, {"PROVIDER_CONFLICT"})
        /\ UNCHANGED <<original, invoiced, request, invoices, cancelling>>
        /\ \/ attempt' = attempt
           \/ /\ attempt[a].status # "ISSUE_FAILED"
              /\ attempt' = [attempt EXCEPT ![a].seq = r.seq]
    BY <1>3 DEF RecordConflict
  <2>2. Verdict(a, r) = "PROVIDER_CONFLICT"
    BY <2>1 DEF Receive
  <2>3. /\ attempt[a].exists /\ QueueInv' /\ command' = command
        /\ inbox' \in SUBSET (Attempts \X ResultTypes \X Processing)
        /\ InboxGrows
    <3>1. /\ attempt[a].exists /\ QueueInv' /\ command' = command
          /\ a[1] \in Requests /\ request[a[1]].exists
          /\ inbox' \in SUBSET (Attempts \X ResultTypes \X Processing)
          /\ \A b \in Attempts, s \in Processing :
               <<b, "issued", s>> \in inbox' /\ s \notin Filed =>
                 \/ <<b, "issued", s>> \in inbox
                 \/ b = a /\ r.type = "issued"
                    /\ (request[a[1]].status = "ISSUED" \/ Verdict(a, r) = "APPLIED")
      BY <2>1, ReceiveEffect
    <3> QED
      BY <2>1, <2>2, <3>1 DEF InboxGrows, IssueInv, TypeOK
  <2>4. original' \in [Receivables -> Nat] /\ invoiced' \in [Receivables -> Nat]
    BY <2>1 DEF IssueInv, TypeOK
  <2>5. CASE attempt' = attempt
    BY <2>1, <2>3, <2>4, <2>5, IssueKept, AsideKept
  <2>6. CASE /\ attempt[a].status # "ISSUE_FAILED"
             /\ attempt' = [attempt EXCEPT ![a].seq = r.seq]
    <3> DEFINE q == a[1]
               at == [attempt[a] EXCEPT !.seq = r.seq]
    <3>1. /\ q \in Requests /\ request[q].exists /\ a = Latest(q) /\ request[q].attempts # 0
          /\ Follows(request[q].status, attempt[a].status)
      BY <2>3, <2>6, NotFailedIsLatest
    <3>2. request[q] \in RequestRows /\ attempt[a] \in AttemptRows
      BY <2>3, <3>1, RowsTyped DEF IssueInv
    <3>3. at \in AttemptRows /\ at.status = attempt[a].status
      BY <3>2, ResultTyped DEF AttemptRows
    <3>4. attempt' = [attempt EXCEPT ![a] = at]
      BY <2>6 DEF IssueInv, TypeOK
    <3>5. request' = [request EXCEPT ![q] = request[q]]
      BY <2>1 DEF IssueInv, TypeOK
    <3>6. invoices' = IF at.status = "ISSUED" THEN invoices \cup {a} ELSE invoices
      BY <2>1, <2>3, <3>3 DEF IssueInv, AttemptsSound, AttemptSound
    <3>7. /\ request[q].allocation = "INVOICED" <=> request[q].status = "ISSUED"
          /\ request[q].allocation = "RELEASED" <=> request[q].status \in {"REJECTED", "CANCELLED"}
      BY <3>1 DEF IssueInv, RequestsSound, RequestSound
    <3> HIDE DEF q, at
    <3>8. IssueInv'
      BY <2>1, <2>3, <2>4, <3>1, <3>2, <3>3, <3>4, <3>5, <3>6, <3>7, LatestMoves
    <3> QED
      BY <2>1, <2>3, <3>8, AsideKept
  <2> QED
    BY <2>1, <2>5, <2>6
<1>4. CASE IgnoreResult(a, r)
  <2>1. /\ Receive(a, r, {"IGNORED_STALE", "IGNORED_TERMINAL"})
        /\ UNCHANGED <<original, invoiced, request, attempt, invoices, cancelling>>
    BY <1>4 DEF IgnoreResult, ledgerVars
  <2>2. Verdict(a, r) # "APPLIED"
    BY <2>1 DEF Receive
  <2>3. QueueInv' /\ command' = command /\ InboxGrows
    <3>1. /\ QueueInv' /\ command' = command
          /\ a[1] \in Requests /\ request[a[1]].exists
          /\ inbox' \in SUBSET (Attempts \X ResultTypes \X Processing)
          /\ \A b \in Attempts, s \in Processing :
               <<b, "issued", s>> \in inbox' /\ s \notin Filed =>
                 \/ <<b, "issued", s>> \in inbox
                 \/ b = a /\ r.type = "issued"
                    /\ (request[a[1]].status = "ISSUED" \/ Verdict(a, r) = "APPLIED")
      BY <2>1, ReceiveEffect
    <3> QED
      BY <2>1, <2>2, <3>1 DEF InboxGrows, IssueInv, TypeOK
  <2>4. original' \in [Receivables -> Nat] /\ invoiced' \in [Receivables -> Nat]
    BY <2>1 DEF IssueInv, TypeOK
  <2> QED
    BY <2>1, <2>3, <2>4, IssueKept, AsideKept
<1> QED
  BY <1>1, <1>2, <1>3, <1>4 DEF ApplyTaxCallback

\* Every step of InvoiceIssue.
LEMMA NextKept ==
    ASSUME IssueInv, NEW R, Quota(R), \A q \in R : Issued(q), Next
    PROVE  Kept(R)
<1>0. Attempts \subseteq Commands /\ Flushes \subseteq Commands
  BY FlushAssumption
<1>1. ASSUME QueueInv', \A d \in Commands : command'[d].exists => command[d].exists,
             UNCHANGED <<ledgerVars, inbox, cancelling>>
      PROVE  Kept(R)
  <2>1. UNCHANGED <<original, invoiced, request, attempt, invoices>>
    BY <1>1 DEF ledgerVars
  <2>2. InboxGrows /\ original' \in [Receivables -> Nat] /\ invoiced' \in [Receivables -> Nat]
    BY <1>1, <2>1 DEF InboxGrows, IssueInv, TypeOK
  <2>3. IssueInv'
    BY <1>0, <1>1, <2>1, <2>2, IssueKept
  <2> QED
    BY <1>0, <1>1, <2>1, <2>3, AsideKept
<1>2. CASE TaxNext /\ UNCHANGED <<ledgerVars, inbox, cancelling>>
  BY <1>1, <1>2, QueueStep DEF IssueInv
<1>3. ASSUME NEW w \in Workers, NEW a \in Attempts, Delivered(w, a) PROVE Kept(R)
  <2>1. IssueInv' /\ UNCHANGED <<original, invoiced, request>>
    BY <1>3, DeliveredEffect
  <2>2. \A d \in Commands : command'[d].exists => command[d].exists
    BY <1>3, DeliveredKept DEF Delivered, IssueInv
  <2>3. invoices' = invoices
    BY <1>3 DEF Delivered
  <2> QED
    BY <1>0, <2>1, <2>2, <2>3, AsideKept
<1>4. ASSUME NEW a \in Attempts, RetryTaxCommandDeadLetter(a) PROVE Kept(R)
  BY <1>0, <1>1, <1>4, RequeueKept DEF RetryTaxCommandDeadLetter, IssueInv
<1>5. ASSUME NEW a \in Attempts, NEW r \in Results, Reconcile(a, r) PROVE Kept(R)
  BY <1>5, CallbackStep DEF Reconcile
<1> QED
  BY <1>2, <1>3, <1>4, <1>5, CallbackStep, RequestStep DEF Next, ResultNext

\* The initial state.
LEMMA IssueInit ==
    ASSUME Init
    PROVE  IssueInv /\ Quota({})
<1>0. ~ Absent.exists
  BY DEF Absent
<1>1. TaxTypeOK
  BY DEF Init, TaxInit, TaxTypeOK, Idle, Jobs
<1>2. QueueInv
  <2>1. \A w \in Workers : worker[w].batch = {}
    BY DEF Init, TaxInit, Idle
  <2>2. \A c \in Commands : ~ command[c].exists
    BY <1>0 DEF Init, TaxInit
  <2> QED
    BY <1>1, <2>1, <2>2 DEF QueueInv, BatchesExist, TryLeft
<1>3. TypeOK
  BY <1>1, InvoiceAssumption DEF Init, TypeOK
<1>4. /\ \A q \in Requests : request[q] = Absent
      /\ \A a \in Attempts : attempt[a] = Absent /\ command[a] = Absent
      /\ invoices = {} /\ inbox = {}
  BY InvoiceAssumption DEF Init, TaxInit
<1>5. AttemptsSound
  <2>1. \A a \in Attempts : a[1] \in Requests
    BY AttemptPair
  <2> QED
    BY <1>0, <1>4, <2>1 DEF AttemptsSound, AttemptSound
<1>6. RequestsSound /\ InboxSound
  BY <1>0, <1>4 DEF RequestsSound, RequestSound, InboxSound
<1>7. ASSUME NEW v \in Receivables PROVE QuotaSummed(original, invoiced, request, {}, v)
  <2>1. \A q \in Requests : ReservedIn(request, v)[q] = 0 /\ IssuedIn(request, {}, v)[q] = 0
    BY <1>0, <1>4 DEF ReservedIn, IssuedIn
  <2>2. /\ SumOver(ReservedIn(request, v), Requests) = 0
        /\ SumOver(IssuedIn(request, {}, v), Requests) = 0
    BY <2>1, InvoiceAssumption, SumZero
  <2>3. invoiced[v] = 0 /\ original[v] \in Nat
    BY InvoiceAssumption DEF Init
  <2> QED
    BY <2>2, <2>3 DEF QuotaSummed
<1> QED
  BY <1>2, <1>3, <1>5, <1>6, <1>7 DEF IssueInv, Quota

\* A step that changes nothing.
LEMMA IssueStutter ==
    ASSUME IssueInv, NEW R, Quota(R), UNCHANGED vars
    PROVE  IssueInv' /\ Quota(R)'
<1>1. /\ UNCHANGED <<original, invoiced, request, attempt, invoices, inbox, cancelling, command,
                     leaseOver, worker, received>>
  BY DEF vars, ledgerVars, taxVars, queueVars, providerVars
<1>2. QueueInv' /\ TypeOK'
  BY <1>1 DEF IssueInv, TypeOK, QueueInv, TaxTypeOK, BatchesExist, TryLeft
<1>3. IssueInv'
  BY <1>1, <1>2 DEF IssueInv, AttemptsSound, AttemptSound, RequestsSound, RequestSound, InboxSound
<1>4. Quota(R)'
  BY <1>1 DEF Quota
<1> QED
  BY <1>3, <1>4

\* Every state of InvoiceIssue.
LEMMA IssueAlways == Spec => [](IssueInv /\ Quota({}))
<1>1. Init => IssueInv /\ Quota({})
  BY IssueInit
<1>2. IssueInv /\ Quota({}) /\ [Next]_vars => (IssueInv /\ Quota({}))'
  <2>1. ASSUME IssueInv, Quota({}), Next PROVE IssueInv' /\ Quota({})'
    <3>1. Kept({})
      BY <2>1, NextKept
    <3> QED
      BY <3>1 DEF Kept
  <2>2. ASSUME IssueInv, Quota({}), UNCHANGED vars PROVE IssueInv' /\ Quota({})'
    BY <2>2, IssueStutter
  <2> QED
    BY <2>1, <2>2
<1> QED
  BY <1>1, <1>2, PTL DEF Spec

\* The rows of invoice requests, issue attempts, tax commands and results keep
\* their types: no queue step writes a row that was never inserted and no retry
\* counts past the limit.
THEOREM InvoiceTypeCorrect == Spec => []TypeOK
<1>1. IssueInv => TypeOK
  BY DEF IssueInv
<1> QED
  BY <1>1, IssueAlways, PTL

\* invoiceAvailableForUpdate, finalizeInvoiceAllocations, incrementInvoiced and
\* AdjustPlan's floor together keep invoiced and reserved within the receivable,
\* and the invoiced column the exact sum of the issued requests.
THEOREM QuotaAlwaysRespected == Spec => []QuotaRespected
<1>1. IssueInv /\ Quota({}) => QuotaRespected
  BY QuotaRestated DEF IssueInv
<1> QED
  BY <1>1, IssueAlways, PTL

\* The invoices of a request are its latest attempt or none.
LEMMA InvoicesOf ==
    ASSUME IssueInv, NEW q \in Requests, request[q].exists
    PROVE  AttemptsOf(q) \cap invoices = IF request[q].status = "ISSUED" THEN {Latest(q)} ELSE {}
<1>1. ASSUME NEW a \in AttemptsOf(q) \cap invoices
      PROVE  a = Latest(q) /\ request[q].status = "ISSUED"
  <2>1. a \in Attempts /\ a[1] = q /\ attempt[a].exists /\ attempt[a].status = "ISSUED"
    BY DEF AttemptsOf, IssueInv, AttemptsSound, AttemptSound
  <2> QED
    BY <2>1, NotFailedIsLatest DEF Follows
<1>2. ASSUME request[q].status = "ISSUED" PROVE Latest(q) \in AttemptsOf(q) \cap invoices
  <2>1. request[q].attempts # 0
    BY <1>2 DEF IssueInv, RequestsSound, RequestSound
  <2>2. /\ Latest(q) \in Attempts /\ Latest(q)[1] = q /\ Latest(q)[2] = request[q].attempts
        /\ attempt[Latest(q)].exists
    BY <2>1, LatestThere
  <2>3. AttemptSound(Latest(q))
    BY <2>2 DEF IssueInv, AttemptsSound
  <2>4. attempt[Latest(q)].status = "ISSUED"
    BY <1>2, <2>2, <2>3 DEF AttemptSound, Follows
  <2> QED
    BY <2>2, <2>3, <2>4 DEF AttemptSound, AttemptsOf
<1>3. CASE request[q].status = "ISSUED"
  BY <1>1, <1>2, <1>3
<1>4. CASE request[q].status # "ISSUED"
  BY <1>1, <1>4
<1> QED
  BY <1>3, <1>4

\* Late, repeated and reordered results of applyInvoiceIssueCallback, manual
\* registration and cancellation leave a request with one invoice if it is
\* ISSUED and none otherwise, and its reservation in the state that goes with it.
THEOREM InvoicesAlwaysMatch == Spec => []InvoiceMatchesRequest
<1>1. ASSUME IssueInv PROVE InvoiceMatchesRequest
  <2> SUFFICES ASSUME NEW q \in Requests, request[q].exists
               PROVE  /\ Cardinality(AttemptsOf(q) \cap invoices)
                           = IF request[q].status = "ISSUED" THEN 1 ELSE 0
                      /\ request[q].allocation = "INVOICED" <=> request[q].status = "ISSUED"
                      /\ request[q].allocation = "RELEASED" <=>
                           request[q].status \in {"REJECTED", "CANCELLED"}
    BY DEF InvoiceMatchesRequest
  <2>1. AttemptsOf(q) \cap invoices = IF request[q].status = "ISSUED" THEN {Latest(q)} ELSE {}
    BY <1>1, InvoicesOf
  <2>2. Cardinality({Latest(q)}) = 1 /\ Cardinality({}) = 0
    BY FS_Singleton, FS_EmptySet
  <2>3. Cardinality(AttemptsOf(q) \cap invoices) = IF request[q].status = "ISSUED" THEN 1 ELSE 0
    BY <2>1, <2>2
  <2> QED
    BY <1>1, <2>3 DEF IssueInv, RequestsSound, RequestSound
<1> QED
  BY <1>1, IssueAlways, PTL

\* Approval, recovery, cancellation and dead-letter retry never leave two
\* attempts of a request with the provider.
THEOREM OneLiveAttempt == Spec => []SingleLiveAttempt
<1>1. ASSUME IssueInv PROVE SingleLiveAttempt
  <2> SUFFICES ASSUME NEW a \in Attempts, attempt[a].exists,
                      attempt[a].status \in {"PENDING", "ACCEPTED", "UNKNOWN"}
               PROVE  /\ a = Latest(a[1])
                      /\ request[a[1]].status = IF attempt[a].status = "UNKNOWN" THEN "ISSUE_UNKNOWN"
                                                                               ELSE "ISSUE_PENDING"
    BY DEF SingleLiveAttempt
  <2>1. a = Latest(a[1]) /\ Follows(request[a[1]].status, attempt[a].status)
    BY <1>1, NotFailedIsLatest
  <2> QED
    BY <2>1 DEF Follows
<1> QED
  BY <1>1, IssueAlways, PTL

\* Only an approval creates an attempt, for a request that is not issued and
\* that no result contradicts.
LEMMA NewAttempt ==
    ASSUME IssueInv, Next, NEW a \in Attempts, attempt'[a].exists, ~ attempt[a].exists
    PROVE  /\ a[1] \in Requests /\ ~ Conflict(a[1])
           /\ request[a[1]].exists => request[a[1]].status # "ISSUED"
<1>0. a[1] \in Requests
  BY AttemptPair
<1>1. ASSUME NEW q \in Requests, NEW c, CreateApprovedInvoiceAttempt(q, c),
             request[q].status \in {"SUBMITTED", "SPECIAL_REVIEW"}
      PROVE  a[1] = q /\ ~ Conflict(q) /\ request[q].status # "ISSUED"
  <2>1. a = <<q, request[q].attempts + 1>>
    BY <1>1 DEF CreateApprovedInvoiceAttempt, IssueInv, TypeOK
  <2> QED
    BY <1>1, <2>1 DEF CreateApprovedInvoiceAttempt
<1>2. ASSUME NEW b, NEW row, row.exists <=> attempt[b].exists,
             attempt' = [attempt EXCEPT ![b] = row]
      PROVE  FALSE
  BY <1>2 DEF IssueInv, TypeOK
<1>3. attempt' # attempt
  OBVIOUS
<1>4. ASSUME NEW b \in Attempts, NEW st, NEW seq,
             attempt' = [attempt EXCEPT ![b].status = st, ![b].seq = seq]
      PROVE  FALSE
  <2> DEFINE row == [attempt[b] EXCEPT !.status = st, !.seq = seq]
  <2>1. attempt' = [attempt EXCEPT ![b] = row]
    BY <1>4 DEF IssueInv, TypeOK
  <2>2. row.exists <=> attempt[b].exists
    BY DEF IssueInv, TypeOK, AttemptRows, Absent
  <2> HIDE DEF row
  <2> QED
    BY <1>2, <2>1, <2>2
<1>5. ASSUME NEW q \in Requests, NEW b \in Attempts, NEW seq, Issue(q, b, seq) PROVE FALSE
  BY <1>4, <1>5 DEF Issue
<1>6. ASSUME NEW u \in Users, NEW q \in Requests, CancelInvoiceRequest(u, q) PROVE FALSE
  <2> DEFINE b == Latest(q)
             row == [attempt[b] EXCEPT !.status = "ABANDONED"]
  <2>1. request[q].exists /\ request[q].attempts # 0
    BY <1>6 DEF CancelInvoiceRequest, Cancellable, InStatus, IssueInv, RequestsSound, RequestSound
  <2>2. b \in Attempts
    BY <2>1, LatestThere
  <2>3. attempt' = [attempt EXCEPT ![b] = row]
    BY <1>6, <2>2 DEF CancelInvoiceRequest, IssueInv, TypeOK
  <2>4. row.exists <=> attempt[b].exists
    BY <2>2 DEF IssueInv, TypeOK, AttemptRows, Absent
  <2> HIDE DEF row
  <2> QED
    BY <1>2, <2>3, <2>4
<1>7. ASSUME NEW q \in Requests, RegisterManualInvoice(q) PROVE FALSE
  <2>1. request[q].exists /\ request[q].attempts # 0
    BY <1>7 DEF RegisterManualInvoice, InStatus, IssueInv, RequestsSound, RequestSound
  <2>2. Latest(q) \in Attempts
    BY <2>1, LatestThere
  <2> QED
    BY <1>5, <1>7, <2>2 DEF RegisterManualInvoice
<1>8. ASSUME RequestNext
      PROVE  ~ Conflict(a[1]) /\ (request[a[1]].exists => request[a[1]].status # "ISSUED")
  <2>1. ASSUME NEW u \in Users, NEW q \in Requests, NEW c,
               ApproveInvoiceRequest(u, q, c) \/ ReviewSpecialInvoice(u, q, c)
        PROVE  ~ Conflict(a[1]) /\ (request[a[1]].exists => request[a[1]].status # "ISSUED")
    <3>1. /\ CreateApprovedInvoiceAttempt(q, c)
          /\ request[q].status \in {"SUBMITTED", "SPECIAL_REVIEW"}
      BY <1>3, <2>1 DEF ApproveInvoiceRequest, ReviewSpecialInvoice, InStatus
    <3> QED
      BY <1>1, <3>1
  <2>2. ASSUME NEW u \in Users, NEW q \in Requests, RejectInvoiceRequest(u, q) \/ RecoverFailedInvoice(u, q)
        PROVE  FALSE
    BY <1>3, <2>2 DEF RejectInvoiceRequest, RecoverFailedInvoice
  <2>3. ASSUME NEW u, NEW q, NEW v, NEW x, NEW b, CreateInvoiceRequest(u, q, v, x, b) PROVE FALSE
    BY <1>3, <2>3 DEF CreateInvoiceRequest
  <2>4. ASSUME NEW v, NEW x, AdjustPlan(v, x) PROVE FALSE
    BY <1>3, <2>4 DEF AdjustPlan
  <2>5. ASSUME NEW q, OpenCancellation(q) \/ GiveUpCancellation(q) PROVE FALSE
    BY <1>3, <2>5 DEF OpenCancellation, GiveUpCancellation, ledgerVars
  <2> QED
    BY <1>6, <1>7, <1>8, <2>1, <2>2, <2>3, <2>4, <2>5 DEF RequestNext
<1>9. ASSUME NEW b \in Attempts, NEW w \in Workers, Delivered(w, b) PROVE FALSE
  <2> DEFINE row == [attempt[b] EXCEPT !.status = "ACCEPTED", !.accepted = TRUE]
  <2>1. attempt' = [attempt EXCEPT ![b] = row]
    BY <1>3, <1>9 DEF Delivered, AcceptAttempt, IssueInv, TypeOK
  <2>2. row.exists <=> attempt[b].exists
    BY DEF IssueInv, TypeOK, AttemptRows, Absent
  <2> HIDE DEF row
  <2> QED
    BY <1>2, <2>1, <2>2
<1>10. ASSUME NEW b \in Attempts, NEW r \in Results, ApplyTaxCallback(b, r) PROVE FALSE
  <2>1. CASE ApplyIssued(b, r)
    BY <1>5, <2>1, AttemptPair DEF ApplyIssued
  <2>2. CASE ApplyNotIssued(b, r)
    BY <1>4, <2>2 DEF ApplyNotIssued
  <2>3. CASE RecordConflict(b, r)
    <3> DEFINE row == [attempt[b] EXCEPT !.seq = r.seq]
    <3>1. attempt' = [attempt EXCEPT ![b] = row]
      BY <1>3, <2>3 DEF RecordConflict, IssueInv, TypeOK
    <3>2. row.exists <=> attempt[b].exists
      BY DEF IssueInv, TypeOK, AttemptRows, Absent
    <3> HIDE DEF row
    <3> QED
      BY <1>2, <3>1, <3>2
  <2>4. CASE IgnoreResult(b, r)
    BY <1>3, <2>4 DEF IgnoreResult, ledgerVars
  <2> QED
    BY <1>10, <2>1, <2>2, <2>3, <2>4 DEF ApplyTaxCallback
<1>11. ASSUME ResultNext PROVE FALSE
  <2>1. \A b \in Attempts : RetryTaxCommandDeadLetter(b) => attempt' = attempt
    BY DEF RetryTaxCommandDeadLetter, ledgerVars
  <2>2. \A b \in Attempts, r \in Results : Reconcile(b, r) => ApplyTaxCallback(b, r)
    BY DEF Reconcile
  <2> QED
    BY <1>3, <1>9, <1>10, <1>11, <2>1, <2>2 DEF ResultNext
<1>12. ASSUME UNCHANGED <<ledgerVars, inbox, cancelling>> PROVE FALSE
  BY <1>3, <1>12 DEF ledgerVars
<1> QED
  BY <1>0, <1>8, <1>11, <1>12 DEF Next

\* createApprovedInvoiceAttempt's look at PROVIDER_CONFLICT rows is enough: once
\* a success of the request is in the inbox, applied, ignored or contradictory, no
\* new attempt of it goes to the provider, for every set of results the provider
\* may send and every order of their sequences; only a success that was filed as
\* stale does not count.
THEOREM NeverReissued == Spec => NoReissueAfterSuccess
<1> DEFINE A == \A a \in Attempts : attempt'[a].exists /\ ~ attempt[a].exists =>
                  \A b \in AttemptsOf(a[1]), s \in Processing \ {"IGNORED_STALE"} :
                    <<b, "issued", s>> \notin inbox
<1>1. IssueInv /\ [Next]_vars => [A]_vars
  <2>1. ASSUME IssueInv, Next, NEW a \in Attempts, attempt'[a].exists, ~ attempt[a].exists,
               NEW b \in AttemptsOf(a[1]), NEW s \in Processing \ {"IGNORED_STALE"}, <<b, "issued", s>> \in inbox
        PROVE  FALSE
    <3>1. /\ a[1] \in Requests /\ ~ Conflict(a[1])
          /\ request[a[1]].exists => request[a[1]].status # "ISSUED"
      BY <2>1, NewAttempt
    <3>2. b \in Attempts /\ b[1] = a[1]
      BY DEF AttemptsOf
    <3>3. "issued" \in ResultTypes
      BY DEF ResultTypes
    <3>4. s \notin Filed
      BY <2>1, <3>1, <3>3 DEF Conflict, Filed
    <3> QED
      BY <2>1, <3>1, <3>2, <3>4 DEF IssueInv, InboxSound
  <2>2. ASSUME IssueInv, Next PROVE A
    BY <2>1, <2>2
  <2> QED
    BY <2>2
<1>2. Spec => []IssueInv
  BY IssueAlways, PTL
<1> QED
  BY <1>1, <1>2, PTL DEF Spec, NoReissueAfterSuccess

-----------------------------------------------------------------------------
(* Red flushes.                                                            *)

FlushSound(f) ==
    /\ command[f].exists => flush[f].exists
    /\ flush[f].exists =>
         /\ flush[f].invoice \in Attempts =>
              flush[f].invoice \in invoices /\ flush[f].request = flush[f].invoice[1]
         /\ flush[f].status \in Active => flush[f].invoice \notin flushed
         /\ flush[f].status = "RED_FLUSHED" => flush[f].invoice \in flushed

\* Two red flushes of an invoice are never both in flight or both done.
FlushesApart ==
    \A f, g \in Flushes :
      /\ flush[f].exists /\ flush[g].exists /\ flush[f].invoice = flush[g].invoice
      /\ \/ flush[f].status \in Active /\ flush[g].status \in Active
         \/ flush[f].status = "RED_FLUSHED" /\ flush[g].status = "RED_FLUSHED"
      => f = g

\* An invoice that was flushed names the request that flushed it, and its
\* allocation was reversed.
FlushedSound ==
    /\ flushed \subseteq Attempts
    /\ \A i \in flushed : \E f \in Flushes : FlushIn(f, {"RED_FLUSHED"}) /\ flush[f].invoice = i
    /\ \A a \in Attempts :
         a \in flushed <=> a \in invoices /\ a[1] \in ReversedRequests
    /\ \A q \in ReversedRequests : request[q].exists /\ request[q].status = "ISSUED"

FlushInv ==
    /\ RedTypeOK /\ IssueInv /\ Quota(ReversedRequests)
    /\ \A f \in Flushes : FlushSound(f)
    /\ FlushesApart /\ FlushedSound

\* Rows that exist have all their columns.
LEMMA FlushRow ==
    ASSUME RedTypeOK, NEW f \in Flushes, flush[f].exists
    PROVE  flush[f] \in FlushRows
BY DEF RedTypeOK, Absent

\* A request with an invoice is issued, and the invoice is its only one.
LEMMA InvoiceIssued ==
    ASSUME IssueInv, NEW a \in invoices
    PROVE  /\ a \in Attempts /\ a[1] \in Requests /\ a = Latest(a[1])
           /\ Issued(a[1]) /\ request[a[1]].allocation = "INVOICED"
<1>1. a \in Attempts /\ attempt[a].exists /\ attempt[a].status = "ISSUED"
  BY DEF IssueInv, TypeOK, AttemptsSound, AttemptSound
<1>2. /\ a[1] \in Requests /\ request[a[1]].exists /\ a = Latest(a[1])
      /\ Follows(request[a[1]].status, attempt[a].status)
  BY <1>1, NotFailedIsLatest
<1>3. request[a[1]].status = "ISSUED"
  BY <1>1, <1>2 DEF Follows
<1>4. request[a[1]].allocation = "INVOICED"
  BY <1>2, <1>3 DEF IssueInv, RequestsSound, RequestSound
<1> QED
  BY <1>1, <1>2, <1>3, <1>4 DEF Issued

\* A step of InvoiceIssue leaves the red flushes sound.
LEMMA NextBesideFlush ==
    ASSUME FlushInv, Next, UNCHANGED flushVars
    PROVE  FlushInv'
<1>0. UNCHANGED <<flush, flushed, reversals>>
  BY DEF flushVars
<1>1. PICK R \in SUBSET Requests : R = ReversedRequests
  BY DEF ReversedRequests
<1>2. ReversedRequests' = R
  BY <1>0, <1>1 DEF ReversedRequests
<1>3. \A q \in R : Issued(q)
  BY <1>1 DEF FlushInv, FlushedSound, Issued
<1>4. Quota(R) /\ IssueInv
  BY <1>1 DEF FlushInv
<1>5. IssueInv' /\ Quota(R)' /\ Forward
  BY <1>3, <1>4, NextKept DEF Kept
<1>6. Quota(ReversedRequests)'
  BY <1>2, <1>5 DEF Quota
<1>7. RedTypeOK'
  BY <1>0, <1>5 DEF FlushInv, RedTypeOK, IssueInv
<1>8. \A f \in Flushes : FlushSound(f)'
  BY <1>0, <1>5 DEF FlushInv, FlushSound, Forward
<1>9. FlushesApart'
  BY <1>0 DEF FlushInv, FlushesApart
<1>10. FlushedSound'
  <2>1. \A a \in invoices' \ invoices : a[1] \notin R
    BY <1>3, <1>5 DEF Forward
  <2>2. \A a \in Attempts : a \in flushed' <=> a \in invoices' /\ a[1] \in ReversedRequests'
    BY <1>0, <1>1, <1>2, <1>5, <2>1 DEF FlushInv, FlushedSound, Forward
  <2>3. \A q \in ReversedRequests' : request'[q].exists /\ request'[q].status = "ISSUED"
    BY <1>2, <1>3, <1>5 DEF Forward, Issued
  <2>4. /\ flushed' \subseteq Attempts
        /\ \A x \in flushed' : \E f \in Flushes :
             flush'[f].exists /\ flush'[f].status \in {"RED_FLUSHED"} /\ flush'[f].invoice = x
    BY <1>0 DEF FlushInv, FlushedSound, FlushIn
  <2> QED
    BY <2>2, <2>3, <2>4 DEF FlushedSound, FlushIn
<1> QED
  BY <1>5, <1>6, <1>7, <1>8, <1>9, <1>10 DEF FlushInv

\* A step that touches only red flushes and commands leaves the rest sound.
LEMMA IssueBesideFlush ==
    ASSUME FlushInv, UNCHANGED <<ledgerVars, inbox, cancelling, reversals>>, QueueInv',
           \A a \in Attempts : command'[a].exists => command[a].exists
    PROVE  IssueInv' /\ Quota(ReversedRequests)'
<1>1. UNCHANGED <<original, invoiced, request, attempt, invoices, inbox, cancelling, reversals>>
  BY DEF ledgerVars
<1>2. InboxGrows /\ original' \in [Receivables -> Nat] /\ invoiced' \in [Receivables -> Nat] /\ IssueInv
  BY <1>1 DEF FlushInv, InboxGrows, IssueInv, TypeOK
<1>3. IssueInv'
  BY <1>1, <1>2, IssueKept
<1>4. ReversedRequests' = ReversedRequests
  BY <1>1 DEF ReversedRequests
<1>5. Quota(ReversedRequests)'
  BY <1>1, <1>4 DEF Quota, FlushInv
<1> QED
  BY <1>3, <1>5

\* One red flush moves, without being done.
LEMMA FlushMoves ==
    ASSUME FlushInv, NEW f \in Flushes, NEW row \in FlushRows,
           flush' = [flush EXCEPT ![f] = row],
           UNCHANGED <<ledgerVars, inbox, cancelling, flushed, reversals>>, QueueInv',
           \A d \in Commands \ {f} : command'[d].exists => command[d].exists,
           row.invoice \in Attempts => row.invoice \in invoices /\ row.request = row.invoice[1],
           \/ /\ flush[f].exists /\ row.status = flush[f].status /\ row.invoice = flush[f].invoice
           \/ /\ row.status # "RED_FLUSHED" /\ (flush[f].exists => flush[f].status # "RED_FLUSHED")
              /\ row.status \in Active =>
                   /\ row.invoice \notin flushed
                   /\ \A g \in Flushes \ {f} : flush[g].exists /\ flush[g].invoice = row.invoice =>
                                                 flush[g].status \notin Active
    PROVE  FlushInv'
<1>1. row.exists
  BY DEF FlushRows
<1>2. /\ flush'[f] = row /\ \A g \in Flushes \ {f} : flush'[g] = flush[g]
      /\ flush' \in [Flushes -> FlushRows \cup {Absent}]
  BY DEF FlushInv, RedTypeOK
<1>3. \A a \in Attempts : command'[a].exists => command[a].exists
  BY FlushAssumption
<1>4. IssueInv' /\ Quota(ReversedRequests)'
  BY <1>3, IssueBesideFlush
<1>5. /\ invoices' = invoices /\ request' = request /\ flushed' = flushed
      /\ ReversedRequests' = ReversedRequests
  BY DEF ledgerVars, ReversedRequests
<1>6. RedTypeOK'
  BY <1>2, <1>4 DEF FlushInv, RedTypeOK, IssueInv
<1>7. ASSUME NEW g \in Flushes PROVE FlushSound(g)'
  <2>1. FlushSound(g)
    BY DEF FlushInv
  <2>2. CASE g = f
    BY <1>1, <1>2, <1>5, <2>1, <2>2 DEF FlushSound
  <2>3. CASE g # f
    <3>1. command'[g].exists => command[g].exists
      BY <2>3, FlushAssumption
    <3> QED
      BY <1>2, <1>5, <2>1, <2>3, <3>1 DEF FlushSound
  <2> QED
    BY <2>2, <2>3
<1>8. FlushesApart'
  <2> SUFFICES ASSUME NEW g \in Flushes, NEW h \in Flushes,
                      flush'[g].exists, flush'[h].exists, flush'[g].invoice = flush'[h].invoice,
                      \/ flush'[g].status \in Active /\ flush'[h].status \in Active
                      \/ flush'[g].status = "RED_FLUSHED" /\ flush'[h].status = "RED_FLUSHED"
               PROVE  g = h
    BY DEF FlushesApart
  <2>1. "RED_FLUSHED" \notin Active
    BY DEF Active
  <2>2. CASE g = f /\ h # f
    BY <1>2, <2>1, <2>2 DEF FlushInv, FlushesApart
  <2>3. CASE g # f /\ h = f
    BY <1>2, <2>1, <2>3 DEF FlushInv, FlushesApart
  <2>4. CASE g # f /\ h # f
    BY <1>2, <2>4 DEF FlushInv, FlushesApart
  <2> QED
    BY <2>2, <2>3, <2>4
<1>9. FlushedSound'
  <2>1. ASSUME NEW x \in flushed
        PROVE  \E g \in Flushes : flush'[g].exists /\ flush'[g].status = "RED_FLUSHED"
                                  /\ flush'[g].invoice = x
    <3>1. PICK g \in Flushes : /\ flush[g].exists /\ flush[g].status = "RED_FLUSHED"
                               /\ flush[g].invoice = x
      BY DEF FlushInv, FlushedSound, FlushIn
    <3>2. CASE g = f
      BY <1>1, <1>2, <3>1, <3>2
    <3>3. CASE g # f
      BY <1>2, <3>1, <3>3
    <3> QED
      BY <3>2, <3>3
  <2> QED
    BY <1>5, <2>1 DEF FlushInv, FlushedSound, FlushIn
<1> QED
  BY <1>4, <1>6, <1>7, <1>8, <1>9 DEF FlushInv

\* A red flush is asked for: the invoice stands and no other one is in flight.
LEMMA FlushRequested ==
    ASSUME FlushInv, NEW u \in Users, NEW f \in Flushes, NEW x \in Commands,
           RequestInvoiceRedFlush(u, f, x)
    PROVE  FlushInv'
<1> DEFINE row == [exists |-> TRUE, by |-> u, invoice |-> x, request |-> RequestOf(x),
                   status |-> "SUBMITTED", attempt |-> "NONE", accepted |-> FALSE, seq |-> 0]
<1>1. /\ ~ flush[f].exists /\ x \in Flushable /\ Free(x)
      /\ flush' = [flush EXCEPT ![f] = row]
      /\ UNCHANGED <<vars, flushed, reversals>>
  BY DEF RequestInvoiceRedFlush
<1>2. /\ x \notin flushed
      /\ x \in invoices \/ (x \in Flushes /\ flush[x].exists)
  BY <1>1 DEF Flushable, RedInvoices, FlushIn
<1>3. RequestOf(x) \in Requests /\ (x \in Attempts => x \in invoices /\ RequestOf(x) = x[1])
  <2>1. CASE x \in Attempts
    BY <1>2, <2>1, AttemptPair, FlushAssumption DEF RequestOf
  <2>2. CASE x \notin Attempts
    <3>1. x \in Flushes /\ flush[x].exists
      BY <1>2, <2>2 DEF FlushInv, IssueInv, TypeOK
    <3>2. flush[x] \in FlushRows
      BY <3>1, FlushRow DEF FlushInv
    <3> QED
      BY <2>2, <3>2 DEF RequestOf, FlushRows
  <2> QED
    BY <2>1, <2>2
<1>4. /\ row \in FlushRows /\ row.status = "SUBMITTED" /\ row.invoice = x
      /\ row.request = RequestOf(x)
  BY <1>3 DEF FlushRows
<1>5. \A g \in Flushes : flush[g].exists /\ flush[g].invoice = x => flush[g].status \notin Active
  BY <1>1 DEF Free, FlushIn
<1>6. UNCHANGED <<ledgerVars, inbox, cancelling, flushed, reversals>> /\ QueueInv' /\ command' = command
  <2>1. UNCHANGED <<ledgerVars, inbox, cancelling, flushed, reversals, command, leaseOver, worker,
                    received>>
    BY <1>1 DEF vars, taxVars, queueVars, providerVars
  <2> QED
    BY <2>1 DEF FlushInv, IssueInv, QueueInv, TaxTypeOK, BatchesExist, TryLeft
<1> HIDE DEF row
<1> QED
  BY <1>1, <1>2, <1>3, <1>4, <1>5, <1>6, FlushMoves

\* A red flush is reviewed, delivered, retried or answered without success.
LEMMA FlushAdvances ==
    ASSUME FlushInv, NEW f \in Flushes,
           \/ \E u \in Users : ApproveRedFlush(u, f) \/ RejectRedFlush(u, f)
           \/ \E w \in Workers : DeliveredFlush(w, f)
           \/ RetryFlushDeadLetter(f)
           \/ \E r \in Results : ApplyNotFlushed(f, r)
    PROVE  FlushInv'
<1>0. f \in Commands /\ QueueInv
  BY FlushAssumption DEF FlushInv, IssueInv
<1>1. ASSUME flush[f].exists, NEW row \in FlushRows, flush' = [flush EXCEPT ![f] = row],
             row.invoice = flush[f].invoice, row.request = flush[f].request,
             \/ row.status = flush[f].status
             \/ /\ flush[f].status \in Active
                /\ row.status \in {"ISSUE_PENDING", "ISSUE_UNKNOWN", "ISSUE_FAILED", "REJECTED"},
             UNCHANGED <<ledgerVars, inbox, cancelling, flushed, reversals>>, QueueInv',
             \A d \in Commands \ {f} : command'[d].exists => command[d].exists
      PROVE  FlushInv'
  <2>1. FlushSound(f)
    BY DEF FlushInv
  <2>2. row.invoice \in Attempts => row.invoice \in invoices /\ row.request = row.invoice[1]
    BY <1>1, <2>1 DEF FlushSound
  <2>3. CASE row.status = flush[f].status
    BY <1>1, <2>2, <2>3, FlushMoves
  <2>4. CASE /\ flush[f].status \in Active
             /\ row.status \in {"ISSUE_PENDING", "ISSUE_UNKNOWN", "ISSUE_FAILED", "REJECTED"}
    <3>1. row.invoice \notin flushed
      BY <1>1, <2>1, <2>4 DEF FlushSound
    <3>2. \A g \in Flushes \ {f} : flush[g].exists /\ flush[g].invoice = row.invoice =>
                                     flush[g].status \notin Active
      BY <1>1, <2>4 DEF FlushInv, FlushesApart
    <3>3. row.status # "RED_FLUSHED" /\ flush[f].status # "RED_FLUSHED"
      BY <2>4 DEF Active
    <3> QED
      BY <1>1, <2>2, <3>1, <3>2, <3>3, FlushMoves
  <2> QED
    BY <1>1, <2>3, <2>4
<1>2. ASSUME NEW u \in Users, ApproveRedFlush(u, f) PROVE FlushInv'
  <2> DEFINE row == [flush[f] EXCEPT !.status = "ISSUE_PENDING", !.attempt = "PENDING"]
  <2>1. /\ flush[f].exists /\ flush[f].status \in Active
        /\ command' = [command EXCEPT ![f] = NewCommand]
        /\ UNCHANGED <<ledgerVars, inbox, cancelling, leaseOver, worker, providerVars, flushed, reversals>>
    BY <1>2 DEF ApproveRedFlush, FlushIn, Active
  <2>2. flush[f] \in FlushRows
    BY <2>1, FlushRow DEF FlushInv
  <2>3. /\ row \in FlushRows /\ row.status = "ISSUE_PENDING"
        /\ row.invoice = flush[f].invoice /\ row.request = flush[f].request
    BY <2>2 DEF FlushRows
  <2>4. flush' = [flush EXCEPT ![f] = row]
    BY <1>2 DEF ApproveRedFlush, FlushInv, RedTypeOK
  <2>5. QueueInv' /\ \A d \in Commands \ {f} : command'[d] = command[d]
    BY <1>0, <2>1, NewCommandKept
  <2> HIDE DEF row
  <2> QED
    BY <1>1, <2>1, <2>3, <2>4, <2>5
<1>3. ASSUME UNCHANGED vars
      PROVE  UNCHANGED <<ledgerVars, inbox, cancelling>> /\ QueueInv' /\ command' = command
  <2>1. UNCHANGED <<ledgerVars, inbox, cancelling, command, leaseOver, worker, received>>
    BY <1>3 DEF vars, taxVars, queueVars, providerVars
  <2> QED
    BY <1>0, <2>1 DEF QueueInv, TaxTypeOK, BatchesExist, TryLeft
<1>4. ASSUME NEW u \in Users, RejectRedFlush(u, f) PROVE FlushInv'
  <2> DEFINE row == [flush[f] EXCEPT !.status = "REJECTED"]
  <2>1. /\ flush[f].exists /\ flush[f].status \in Active
        /\ UNCHANGED vars /\ UNCHANGED <<flushed, reversals>>
    BY <1>4 DEF RejectRedFlush, FlushIn, Active
  <2>2. flush[f] \in FlushRows
    BY <2>1, FlushRow DEF FlushInv
  <2>3. /\ row \in FlushRows /\ row.status = "REJECTED"
        /\ row.invoice = flush[f].invoice /\ row.request = flush[f].request
    BY <2>2 DEF FlushRows
  <2>4. flush' = [flush EXCEPT ![f] = row]
    BY <1>4 DEF RejectRedFlush, FlushInv, RedTypeOK
  <2>5. UNCHANGED <<ledgerVars, inbox, cancelling>> /\ QueueInv' /\ command' = command
    BY <1>3, <2>1
  <2> HIDE DEF row
  <2> QED
    BY <1>1, <2>1, <2>3, <2>4, <2>5
<1>5. ASSUME NEW r \in Results, ApplyNotFlushed(f, r) PROVE FlushInv'
  <2> DEFINE failed == r.type = "failed"
             row == [flush[f] EXCEPT !.status = IF failed THEN "ISSUE_FAILED" ELSE "ISSUE_UNKNOWN",
                                     !.attempt = IF failed THEN "ISSUE_FAILED" ELSE "UNKNOWN",
                                     !.seq = r.seq]
  <2>1. /\ flush[f].exists /\ flush[f].status \in Active
        /\ UNCHANGED vars /\ UNCHANGED <<flushed, reversals>>
    BY <1>5 DEF ApplyNotFlushed, Applies, FlushIn, Active
  <2>2. flush[f] \in FlushRows /\ r.seq \in Nat
    BY <2>1, FlushRow, ResultTyped DEF FlushInv
  <2>3. /\ row \in FlushRows /\ row.status \in {"ISSUE_FAILED", "ISSUE_UNKNOWN"}
        /\ row.invoice = flush[f].invoice /\ row.request = flush[f].request
    BY <2>2 DEF FlushRows
  <2>4. flush' = [flush EXCEPT ![f] = row]
    BY <1>5 DEF ApplyNotFlushed, FlushInv, RedTypeOK
  <2>5. UNCHANGED <<ledgerVars, inbox, cancelling>> /\ QueueInv' /\ command' = command
    BY <1>3, <2>1
  <2> HIDE DEF row
  <2> QED
    BY <1>1, <2>1, <2>3, <2>4, <2>5
<1>6. ASSUME flush' = flush, UNCHANGED <<ledgerVars, inbox, cancelling, flushed, reversals>>, QueueInv',
             \A d \in Commands : command'[d].exists => command[d].exists, command[f].exists
      PROVE  FlushInv'
  <2>1. flush[f].exists
    BY <1>6 DEF FlushInv, FlushSound
  <2>2. flush[f] \in FlushRows /\ flush' = [flush EXCEPT ![f] = flush[f]]
    BY <1>6, <2>1, FlushRow DEF FlushInv, RedTypeOK
  <2> QED
    BY <1>1, <1>6, <2>1, <2>2
<1>7. ASSUME NEW w \in Workers, DeliveredFlush(w, f) PROVE FlushInv'
  <2> DEFINE row == [flush[f] EXCEPT !.attempt = "ACCEPTED", !.accepted = TRUE]
  <2>1. DeliveredRow(w, f) /\ UNCHANGED <<ledgerVars, inbox, cancelling, flushed, reversals>>
    BY <1>7 DEF DeliveredFlush
  <2>2. QueueInv' /\ \A d \in Commands : command'[d].exists => command[d].exists
    BY <1>0, <2>1, DeliveredKept
  <2>3. command[f].exists
    BY <1>0, <2>1, BatchRow DEF DeliveredRow, CommandRows
  <2>4. flush[f].exists
    BY <2>3 DEF FlushInv, FlushSound
  <2>5. flush[f] \in FlushRows
    BY <2>4, FlushRow DEF FlushInv
  <2>6. /\ row \in FlushRows /\ row.status = flush[f].status
        /\ row.invoice = flush[f].invoice /\ row.request = flush[f].request
    BY <2>5 DEF FlushRows
  <2>7. flush' = flush \/ flush' = [flush EXCEPT ![f] = row]
    BY <1>7 DEF DeliveredFlush, FlushInv, RedTypeOK
  <2> HIDE DEF row
  <2>8. CASE flush' = flush
    BY <1>6, <2>1, <2>2, <2>3, <2>8
  <2>9. CASE flush' = [flush EXCEPT ![f] = row]
    BY <1>1, <2>1, <2>2, <2>4, <2>6, <2>9
  <2> QED
    BY <2>7, <2>8, <2>9
<1>8. ASSUME RetryFlushDeadLetter(f) PROVE FlushInv'
  <2>1. /\ Requeue(f) /\ command[f].exists /\ flush' = flush
        /\ UNCHANGED <<ledgerVars, inbox, cancelling, flushed, reversals>>
    BY <1>8 DEF RetryFlushDeadLetter, Requeue, flushVars
  <2>2. QueueInv' /\ \A d \in Commands : command'[d].exists => command[d].exists
    BY <1>0, <2>1, RequeueKept
  <2> QED
    BY <1>6, <2>1, <2>2
<1> QED
  BY <1>2, <1>4, <1>5, <1>7, <1>8

\* A red flush is done: the invoice was not flushed before, so its allocation was
\* not reversed before, and the quota it gives back is part of what is invoiced.
LEMMA FlushDone ==
    ASSUME FlushInv, NEW f \in Flushes, NEW r \in Results, ApplyRedFlushed(f, r)
    PROVE  FlushInv'
<1> DEFINE x == flush[f].invoice
           q == x[1]
           amount == request[q].amount
           rcv == request[q].rcv
           row == [flush[f] EXCEPT !.status = "RED_FLUSHED", !.attempt = "ISSUED", !.seq = r.seq]
<1>1. /\ flush[f].exists /\ flush[f].status \in {"ISSUE_PENDING", "ISSUE_UNKNOWN"}
      /\ x \in Attempts /\ x \notin flushed
      /\ flushed' = flushed \cup {x}
      /\ UNCHANGED <<original, request, attempt, invoices, inbox, cancelling, taxVars>>
  BY DEF ApplyRedFlushed, Applies, FlushIn
<1>2. x \in invoices /\ flush[f].request = q
  BY <1>1 DEF FlushInv, FlushSound
<1>3. /\ q \in Requests /\ x = Latest(q) /\ request[q].exists /\ request[q].status = "ISSUED"
      /\ request[q].allocation = "INVOICED"
  BY <1>2, InvoiceIssued DEF FlushInv, Issued
<1>4. q \notin ReversedRequests
  BY <1>1, <1>2 DEF FlushInv, FlushedSound
<1>5. NotReversed(q, f)
  BY <1>3, <1>4 DEF NotReversed, ReversedRequests
<1>6. /\ reversals' = reversals \cup {<<q, f>>}
      /\ invoiced' = [invoiced EXCEPT ![rcv] = IF @ < amount THEN 0 ELSE @ - amount]
  BY <1>2, <1>3, <1>5 DEF ApplyRedFlushed, ReverseInvoiceAllocations
<1>7. flush[f] \in FlushRows /\ r.seq \in Nat
  BY <1>1, FlushRow, ResultTyped DEF FlushInv
<1>8. row \in FlushRows /\ row.exists /\ row.status = "RED_FLUSHED" /\ row.invoice = x /\ row.request = q
  BY <1>2, <1>7 DEF FlushRows
<1>9. flush' = [flush EXCEPT ![f] = row]
  BY DEF ApplyRedFlushed, FlushInv, RedTypeOK
<1> HIDE DEF row
<1>10. /\ flush'[f] = row /\ \A g \in Flushes \ {f} : flush'[g] = flush[g]
       /\ flush' \in [Flushes -> FlushRows \cup {Absent}]
  BY <1>8, <1>9 DEF FlushInv, RedTypeOK
<1>11. ReversedRequests' = ReversedRequests \cup {q}
  BY <1>3, <1>6 DEF ReversedRequests
<1>12. request[q] \in RequestRows
  BY <1>3, RowsTyped DEF FlushInv, IssueInv
<1>13. rcv \in Receivables /\ amount \in Nat
  BY <1>12, InvoiceAssumption DEF RequestRows
<1> HIDE DEF x, q, amount, rcv
<1>14. PICK R \in SUBSET Requests : R = ReversedRequests
  BY DEF ReversedRequests
<1>15. request \in RequestTables
  BY DEF FlushInv, IssueInv, TypeOK, RequestTables
<1>16. ASSUME NEW v \in Receivables
       PROVE  QuotaSummed(original, invoiced', request, R \cup {q}, v) /\ invoiced'[v] \in Nat
  <2> DEFINE res == SumOver(ReservedIn(request, v), Requests)
             iss == SumOver(IssuedIn(request, R, v), Requests)
             new == SumOver(IssuedIn(request, R \cup {q}, v), Requests)
  <2>1. /\ invoiced[v] = iss /\ invoiced[v] + res <= original[v]
        /\ invoiced[v] \in Nat /\ original[v] \in Nat
    BY <1>14 DEF FlushInv, Quota, QuotaSummed, IssueInv, TypeOK
  <2>2. \A p \in Requests \ {q} : IssuedIn(request, R \cup {q}, v)[p] = IssuedIn(request, R, v)[p]
    BY DEF IssuedIn
  <2>3. /\ iss \in Nat
        /\ new = iss - IssuedIn(request, R, v)[q] + IssuedIn(request, R \cup {q}, v)[q]
        /\ IssuedIn(request, R, v)[q] <= iss
    <3>1. q \in Requests
      BY <1>3
    <3>2. PICK R2 : R2 = R \cup {q}
      OBVIOUS
    <3>3. \A p \in Requests \ {q} : IssuedIn(request, R2, v)[p] = IssuedIn(request, R, v)[p]
      BY <2>2, <3>2
    <3>4. /\ SumOver(IssuedIn(request, R, v), Requests) \in Nat
          /\ SumOver(IssuedIn(request, R2, v), Requests) =
               SumOver(IssuedIn(request, R, v), Requests)
                 - IssuedIn(request, R, v)[q] + IssuedIn(request, R2, v)[q]
          /\ IssuedIn(request, R, v)[q] <= SumOver(IssuedIn(request, R, v), Requests)
      BY ONLY <1>15, <3>1, <3>3, IssuedChange
    <3> QED
      BY <3>2, <3>4
  <2>4. /\ IssuedIn(request, R, v)[q] = IF v = rcv THEN amount ELSE 0
        /\ IssuedIn(request, R \cup {q}, v)[q] = 0
    BY <1>3, <1>4, <1>14 DEF IssuedIn, amount, rcv
  <2>5. invoiced'[v] = IF v = rcv THEN (IF invoiced[v] < amount THEN 0 ELSE invoiced[v] - amount)
                                  ELSE invoiced[v]
    BY <1>6, <1>13 DEF FlushInv, IssueInv, TypeOK
  <2>6. res \in Nat
    <3>1. \A p \in Requests : ReservedIn(request, v)[p] \in Nat
      BY <1>15, QuotaSummands
    <3> QED
      BY <3>1, InvoiceAssumption, SumNat
  <2> HIDE DEF res, iss, new
  <2>7. invoiced'[v] = new /\ invoiced'[v] + res <= original[v] /\ invoiced'[v] \in Nat
    <3>1. CASE v = rcv
      <4>1. amount <= iss /\ new = iss - amount
        BY <1>13, <2>3, <2>4, <3>1
      <4>2. invoiced'[v] = invoiced[v] - amount
        BY <1>13, <2>1, <2>5, <3>1, <4>1
      <4> QED
        BY <1>13, <2>1, <2>6, <4>1, <4>2
    <3>2. CASE v # rcv
      BY <2>1, <2>3, <2>4, <2>5, <2>6, <3>2
    <3> QED
      BY <3>1, <3>2
  <2> QED
    BY <2>7 DEF QuotaSummed, res, new
<1>17. Quota(ReversedRequests)'
  <2>1. \A v \in Receivables : QuotaSummed(original', invoiced', request', ReversedRequests', v)
    BY <1>1, <1>11, <1>14, <1>16
  <2> QED
    BY <2>1 DEF Quota
<1>18. IssueInv'
  <2>1. UNCHANGED <<request, attempt, invoices>> /\ InboxGrows /\ original' \in [Receivables -> Nat]
    BY <1>1 DEF InboxGrows, FlushInv, IssueInv, TypeOK
  <2>2. QueueInv' /\ command' = command
    BY <1>1 DEF FlushInv, IssueInv, QueueInv, TaxTypeOK, BatchesExist, TryLeft, taxVars, queueVars,
                providerVars
  <2>3. invoiced' \in [Receivables -> Nat]
    BY <1>6, <1>16 DEF FlushInv, IssueInv, TypeOK
  <2> QED
    BY <2>1, <2>2, <2>3, IssueKept DEF FlushInv
<1>19. command' = command /\ request' = request /\ invoices' = invoices
  BY <1>1 DEF taxVars, queueVars
<1>20. RedTypeOK'
  <2>1. x \in Commands /\ <<q, f>> \in Requests \X Flushes
    BY <1>1, <1>3, FlushAssumption
  <2> QED
    BY <1>1, <1>6, <1>10, <1>18, <2>1 DEF FlushInv, RedTypeOK, IssueInv
<1>21. ASSUME NEW g \in Flushes PROVE FlushSound(g)'
  <2>1. FlushSound(g)
    BY DEF FlushInv
  <2>2. CASE g = f
    <3>1. row.status \notin Active
      BY <1>8 DEF Active
    <3> QED
      BY <1>1, <1>2, <1>8, <1>10, <1>19, <2>2, <3>1 DEF FlushSound, q
  <2>3. CASE g # f
    <3>1. flush[g].exists /\ flush[g].status \in Active => flush[g].invoice # x
      BY <1>1, <2>3 DEF FlushInv, FlushesApart, Active, x
    <3> QED
      BY <1>1, <1>10, <1>19, <2>1, <2>3, <3>1 DEF FlushSound
  <2> QED
    BY <2>2, <2>3
<1>22. FlushesApart'
  <2>1. \A g \in Flushes : flush[g].exists /\ flush[g].status = "RED_FLUSHED" => flush[g].invoice # x
    BY <1>1 DEF FlushInv, FlushSound
  <2> SUFFICES ASSUME NEW g \in Flushes, NEW h \in Flushes,
                      flush'[g].exists, flush'[h].exists, flush'[g].invoice = flush'[h].invoice,
                      \/ flush'[g].status \in Active /\ flush'[h].status \in Active
                      \/ flush'[g].status = "RED_FLUSHED" /\ flush'[h].status = "RED_FLUSHED"
               PROVE  g = h
    BY DEF FlushesApart
  <2>2. row.status \notin Active /\ "RED_FLUSHED" \notin Active
    BY <1>8 DEF Active
  <2>3. CASE g = f /\ h # f
    BY <1>8, <1>10, <2>1, <2>2, <2>3
  <2>4. CASE g # f /\ h = f
    BY <1>8, <1>10, <2>1, <2>2, <2>4
  <2>5. CASE g # f /\ h # f
    BY <1>10, <2>5 DEF FlushInv, FlushesApart
  <2> QED
    BY <2>3, <2>4, <2>5
<1>23. FlushedSound'
  <2>1. ASSUME NEW i \in flushed'
        PROVE  \E g \in Flushes : flush'[g].exists /\ flush'[g].status = "RED_FLUSHED"
                                  /\ flush'[g].invoice = i
    <3>1. CASE i = x
      BY <1>8, <1>10, <3>1
    <3>2. CASE i # x
      <4>1. PICK g \in Flushes : /\ flush[g].exists /\ flush[g].status = "RED_FLUSHED"
                                 /\ flush[g].invoice = i
        BY <1>1, <3>2 DEF FlushInv, FlushedSound, FlushIn
      <4>2. g # f
        BY <1>1, <4>1
      <4> QED
        BY <1>10, <4>1, <4>2
    <3> QED
      BY <3>1, <3>2
  <2>2. \A a \in invoices : a[1] = q => a = x
    BY <1>3, InvoiceIssued DEF FlushInv
  <2>3. \A a \in Attempts : a \in flushed' <=> a \in invoices' /\ a[1] \in ReversedRequests'
    <3>1. x[1] = q
      BY DEF q
    <3> QED
      BY <1>1, <1>2, <1>11, <1>19, <2>2, <3>1 DEF FlushInv, FlushedSound
  <2>4. \A p \in ReversedRequests' : request'[p].exists /\ request'[p].status = "ISSUED"
    BY <1>3, <1>11, <1>19 DEF FlushInv, FlushedSound
  <2>5. flushed' \subseteq Attempts
    BY <1>1 DEF FlushInv, FlushedSound
  <2> QED
    BY <2>1, <2>3, <2>4, <2>5 DEF FlushedSound, FlushIn
<1> QED
  BY <1>17, <1>18, <1>20, <1>21, <1>22, <1>23 DEF FlushInv

\* Every state of RedFlush.
LEMMA FlushAlways == RedSpec => []FlushInv
<1>1. ASSUME RedInit PROVE FlushInv
  <2>0. ~ Absent.exists
    BY DEF Absent
  <2>1. IssueInv /\ Quota({})
    BY <1>1, IssueInit DEF RedInit
  <2>2. /\ \A f \in Flushes : flush[f] = Absent
        /\ flushed = {} /\ reversals = {} /\ flush \in [Flushes -> FlushRows \cup {Absent}]
    BY <1>1 DEF RedInit
  <2>3. ReversedRequests = {}
    BY <2>2 DEF ReversedRequests
  <2>4. RedTypeOK
    BY <2>1, <2>2 DEF RedTypeOK, IssueInv
  <2>5. \A f \in Flushes : ~ command[f].exists
    BY <1>1, <2>0, FlushAssumption DEF RedInit, Init, TaxInit
  <2>6. (\A f \in Flushes : FlushSound(f)) /\ FlushesApart /\ FlushedSound
    BY <2>0, <2>2, <2>3, <2>5 DEF FlushSound, FlushesApart, FlushedSound
  <2> QED
    BY <2>1, <2>3, <2>4, <2>6 DEF FlushInv
<1>2. ASSUME FlushInv, RedNext PROVE FlushInv'
  <2>1. ASSUME NEW f \in Flushes, NEW r \in Results, ApplyRedFlushCallback(f, r)
        PROVE  FlushInv'
    BY <1>2, <2>1, FlushDone, FlushAdvances DEF ApplyRedFlushCallback
  <2>2. ASSUME NEW f \in Flushes, NEW r \in Results, ReconcileFlush(f, r) PROVE FlushInv'
    BY <2>1, <2>2 DEF ReconcileFlush
  <2>3. CASE FlushNext
    BY <1>2, <2>1, <2>2, <2>3, FlushRequested, FlushAdvances DEF FlushNext
  <2>4. CASE Next /\ UNCHANGED flushVars
    BY <1>2, <2>4, NextBesideFlush
  <2> QED
    BY <1>2, <2>3, <2>4 DEF RedNext
<1>3. ASSUME FlushInv, UNCHANGED redVars PROVE FlushInv'
  <2>1. UNCHANGED <<vars, flush, flushed, reversals>>
    BY <1>3 DEF redVars, flushVars
  <2>2. PICK R \in SUBSET Requests : R = ReversedRequests
    BY DEF ReversedRequests
  <2>3. ReversedRequests' = R
    BY <2>1, <2>2 DEF ReversedRequests
  <2>4. IssueInv' /\ Quota(R)'
    BY <1>3, <2>1, <2>2, IssueStutter DEF FlushInv
  <2>5. UNCHANGED <<request, invoices, command>>
    BY <2>1 DEF vars, ledgerVars, taxVars, queueVars
  <2>6. RedTypeOK' /\ Quota(ReversedRequests)'
    BY <1>3, <2>1, <2>3, <2>4 DEF FlushInv, RedTypeOK, IssueInv, Quota
  <2>7. (\A f \in Flushes : FlushSound(f)') /\ FlushesApart' /\ FlushedSound'
    BY <1>3, <2>1, <2>2, <2>3, <2>5 DEF FlushInv, FlushSound, FlushesApart, FlushedSound, FlushIn
  <2> QED
    BY <2>4, <2>6, <2>7 DEF FlushInv
<1> QED
  BY <1>1, <1>2, <1>3, PTL DEF RedSpec

\* The rows keep their types with red flushes in play.
THEOREM RedTypeCorrect == RedSpec => []RedTypeOK
<1>1. FlushInv => RedTypeOK
  BY DEF FlushInv
<1> QED
  BY <1>1, FlushAlways, PTL

\* reverseInvoiceAllocations gives the quota of a flushed invoice back exactly
\* once, and decrementInvoiced, which stops at zero, never has to.
THEOREM QuotaAlwaysAfterFlush == RedSpec => []QuotaAfterFlush
<1>1. FlushInv => QuotaAfterFlush
  BY QuotaRestated DEF FlushInv, IssueInv
<1> QED
  BY <1>1, FlushAlways, PTL

\* RequestInvoiceRedFlush's count of requests in flight and applyRedFlushCallback's
\* checks leave an invoice with at most one red flush in flight and flush it once,
\* whatever the order of reviews, retries and late results.
THEOREM InvoicesFlushedOnce == RedSpec => []FlushedOnce
<1>1. ASSUME FlushInv PROVE FlushedOnce
  <2> DEFINE Of(i, S) == {f \in Flushes : FlushIn(f, S) /\ flush[f].invoice = i}
  <2>0. Cardinality({}) = 0 /\ \A f : Cardinality({f}) = 1
    BY FS_EmptySet, FS_Singleton
  <2>1. ASSUME NEW i \in Commands
        PROVE  Cardinality(Of(i, Active)) <= IF i \in flushed THEN 0 ELSE 1
    <3>1. i \in flushed => Of(i, Active) = {}
      BY <1>1 DEF FlushInv, FlushSound, FlushIn
    <3>2. Of(i, Active) = {} \/ \E f : Of(i, Active) = {f}
      <4>1. \A f, g \in Of(i, Active) : f = g
        BY <1>1 DEF FlushInv, FlushesApart, FlushIn
      <4> HIDE DEF Of
      <4> QED
        BY <4>1
    <3> HIDE DEF Of
    <3>3. Cardinality(Of(i, Active)) = 0 \/ (i \notin flushed /\ Cardinality(Of(i, Active)) = 1)
      BY <2>0, <3>1, <3>2
    <3> QED
      BY <3>3
  <2>2. ASSUME NEW i \in Commands
        PROVE  Cardinality(Of(i, {"RED_FLUSHED"})) = IF i \in flushed THEN 1 ELSE 0
    <3>1. i \notin flushed => Of(i, {"RED_FLUSHED"}) = {}
      BY <1>1 DEF FlushInv, FlushSound, FlushIn
    <3>2. i \in flushed => \E f : f \in Of(i, {"RED_FLUSHED"})
      BY <1>1 DEF FlushInv, FlushedSound, FlushIn
    <3>3. \A f, g \in Of(i, {"RED_FLUSHED"}) : f = g
      BY <1>1 DEF FlushInv, FlushesApart, FlushIn
    <3> HIDE DEF Of
    <3>4. i \in flushed => \E f : Of(i, {"RED_FLUSHED"}) = {f}
      BY <3>2, <3>3
    <3> QED
      BY <2>0, <3>1, <3>4
  <2>3. \A a \in Attempts :
          a \in flushed <=> a \in invoices /\ \E f \in Flushes : <<a[1], f>> \in reversals
    BY <1>1, AttemptPair DEF FlushInv, FlushedSound, ReversedRequests
  <2> QED
    BY <2>1, <2>2, <2>3 DEF FlushedOnce
<1> QED
  BY <1>1, FlushAlways, PTL
=============================================================================
