------------------------------ MODULE TurnProofs ------------------------------
(* Turns, leases, permits and token books of the assistant: theorems about   *)
(* AgentTurn and Quota.                                                      *)
EXTENDS AgentTurn, TLAPS, FiniteSetTheorems, WellFoundedInduction

-----------------------------------------------------------------------------
(* Sums over finite sets.                                                    *)

(* A set of numbers that is not empty has a least one.  Induction over data  *)
(* is the least counterexample.                                              *)
LEMMA LeastNumber ==
    ASSUME NEW T \in SUBSET Nat, T # {} PROVE \E m \in T : \A n \in T : m <= n
  <1>1. PICK m \in T : \A n \in T : ~ (<<n, m>> \in OpToRel(<, Nat))
    BY NatLessThanWellFounded, WFMin, Zenon
  <1>2. \A n \in T : m <= n
    <2> TAKE n \in T
    <2>1. <<n, m>> \in Nat \X Nat /\ ~ (n < m)
      BY <1>1 DEF OpToRel
    <2> QED BY <2>1
  <1> QED BY <1>2

(* SumFunction of the community module, as the function it chooses.          *)
First(s) == CHOOSE x \in s : TRUE
Equation(h, f, S) ==
    h = [s \in S |-> IF s = {} THEN 0 ELSE f[First(s)] + h[s \ {First(s)}]]
Fold(f) == CHOOSE h : Equation(h, f, SUBSET DOMAIN f)

(* The sum is the value of that function at the whole domain.                *)
LEMMA SumIsFold ==
    ASSUME NEW f PROVE SumFunction(f) = Fold(f)[DOMAIN f]
  BY DEF SumFunction, SumFunctionOnSet, FoldFunctionOnSet, MapThenFoldSet, Fold, Equation, First

(* Subsets of D of at most k elements.                                       *)
Small(D, k) == {s \in SUBSET D : Cardinality(s) <= k}

(* What taking the first element out leaves is smaller.                      *)
LEMMA FirstIn ==
    ASSUME NEW D, IsFiniteSet(D), NEW s \in SUBSET D, s # {}
    PROVE  /\ First(s) \in s /\ s \ {First(s)} \in SUBSET D
           /\ IsFiniteSet(s) /\ Cardinality(s) \in Nat \ {0}
           /\ Cardinality(s \ {First(s)}) = Cardinality(s) - 1
  <1>1. First(s) \in s
    BY Zenon DEF First
  <1>2. IsFiniteSet(s)
    BY FS_Subset
  <1>3. Cardinality(s) \in Nat /\ Cardinality(s) # 0
    BY <1>2, FS_CardinalityType, FS_EmptySet
  <1>4. Cardinality(s \ {First(s)}) = Cardinality(s) - 1
    BY <1>1, <1>2, FS_RemoveElement
  <1> QED BY <1>1, <1>2, <1>3, <1>4

(* There is a function that satisfies the recursive equation.                *)
LEMMA FoldExists ==
    ASSUME NEW f, IsFiniteSet(DOMAIN f)
    PROVE  Equation(Fold(f), f, SUBSET DOMAIN f)
  <1> DEFINE D == DOMAIN f
             Bad == {k \in Nat : ~ \E h : Equation(h, f, Small(D, k))}
  <1>1. Bad = {}
    <2> SUFFICES ASSUME Bad # {} PROVE FALSE
      OBVIOUS
    <2>1. PICK k \in Bad : \A n \in Bad : k <= n
      <3> HIDE DEF D
      <3>1. Bad \in SUBSET Nat
        OBVIOUS
      <3> QED BY <3>1, LeastNumber
    <2>2. CASE k = 0
      <3> DEFINE h == [s \in Small(D, 0) |-> 0]
      <3>1. \A s \in Small(D, 0) : s = {}
        <4> SUFFICES ASSUME NEW s \in Small(D, 0), s # {} PROVE FALSE
          OBVIOUS
        <4>1. Cardinality(s) \in Nat \ {0}
          BY FirstIn DEF Small
        <4> QED BY <4>1 DEF Small
      <3>2. Equation(h, f, Small(D, 0))
        <4> SUFFICES h = [s \in Small(D, 0) |->
                            IF s = {} THEN 0 ELSE f[First(s)] + h[s \ {First(s)}]]
          BY Zenon DEF Equation
        <4> HIDE DEF D
        <4> QED BY <3>1
      <3> QED BY <2>2, <3>2
    <2>3. CASE k # 0
      <3>1. k - 1 \in Nat /\ k - 1 \notin Bad
        BY <2>1, <2>3
      <3>2. PICK h : Equation(h, f, Small(D, k - 1))
        BY <3>1
      <3> DEFINE g == [s \in Small(D, k) |->
                         IF s = {} THEN 0 ELSE f[First(s)] + h[s \ {First(s)}]]
      <3>3. ASSUME NEW s \in Small(D, k), s # {}
            PROVE  s \ {First(s)} \in Small(D, k - 1) /\ s \ {First(s)} \in Small(D, k)
        BY <2>1, <3>3, FirstIn DEF Small
      <3>4. ASSUME NEW s \in Small(D, k - 1), s \in Small(D, k) PROVE g[s] = h[s]
        <4>1. h[s] = IF s = {} THEN 0 ELSE f[First(s)] + h[s \ {First(s)}]
          BY <3>2 DEF Equation
        <4> HIDE DEF D
        <4> QED BY <4>1, <3>4
      <3>5. Equation(g, f, Small(D, k))
        <4> SUFFICES g = [s \in Small(D, k) |->
                            IF s = {} THEN 0 ELSE f[First(s)] + g[s \ {First(s)}]]
          BY Zenon DEF Equation
        <4>1. \A s \in Small(D, k) : s # {} => g[s \ {First(s)}] = h[s \ {First(s)}]
          BY <3>3, <3>4
        <4> HIDE DEF D
        <4> QED BY <4>1
      <3> QED BY <2>1, <3>5
    <2> QED BY <2>2, <2>3
  <1>2. Cardinality(D) \in Nat /\ Small(D, Cardinality(D)) = SUBSET D
    BY FS_CardinalityType, FS_Subset DEF Small
  <1>3. \E h : Equation(h, f, SUBSET DOMAIN f)
    <2>1. Cardinality(D) \notin Bad
      BY <1>1
    <2>2. \E h : Equation(h, f, Small(D, Cardinality(D)))
      BY <1>2, <2>1
    <2> QED BY <1>2, <2>2
  <1> QED BY <1>3, Zenon DEF Fold

(* So the chosen one does.                                                   *)
LEMMA FoldStep ==
    ASSUME NEW f, IsFiniteSet(DOMAIN f), NEW s \in SUBSET DOMAIN f
    PROVE  Fold(f)[s] = IF s = {} THEN 0 ELSE f[First(s)] + Fold(f)[s \ {First(s)}]
  <1> DEFINE h == Fold(f)
  <1>1. h = [t \in SUBSET DOMAIN f |-> IF t = {} THEN 0 ELSE f[First(t)] + h[t \ {First(t)}]]
    BY FoldExists, Zenon DEF Equation
  <1> HIDE DEF h
  <1>2. h[s] = IF s = {} THEN 0 ELSE f[First(s)] + h[s \ {First(s)}]
    BY <1>1
  <1> QED BY <1>2 DEF h

(* What holds of the smallest counterexample holds of every finite set:      *)
(* a set of subsets of D from which no set is missing whose proper part is   *)
(* there.                                                                    *)
LEMMA BySize ==
    ASSUME NEW D, IsFiniteSet(D), NEW G \in SUBSET SUBSET D, {} \in G,
           \A s \in SUBSET D : s # {} /\ (\A x \in s : s \ {x} \in G) => s \in G
    PROVE  G = SUBSET D
  <1> DEFINE Bad == {k \in Nat : \E s \in SUBSET D : s \notin G /\ Cardinality(s) = k}
  <1> SUFFICES ASSUME NEW t \in SUBSET D, t \notin G PROVE FALSE
    OBVIOUS
  <1>1. Cardinality(t) \in Bad
    BY FS_Subset, FS_CardinalityType
  <1>2. PICK k \in Bad : \A n \in Bad : k <= n
    <2>1. Bad \in SUBSET Nat /\ Bad # {}
      BY <1>1
    <2> QED BY <2>1, LeastNumber
  <1>3. PICK s \in SUBSET D : s \notin G /\ Cardinality(s) = k
    BY <1>2
  <1>4. IsFiniteSet(s)
    BY FS_Subset
  <1>5. ASSUME NEW x \in s, s \ {x} \notin G PROVE FALSE
    <2>1. Cardinality(s \ {x}) = k - 1 /\ k - 1 \in Nat
      <3>1. Cardinality(s \ {x}) = Cardinality(s) - 1 /\ IsFiniteSet(s \ {x})
        BY <1>4, FS_RemoveElement
      <3>2. Cardinality(s \ {x}) \in Nat
        BY <3>1, FS_CardinalityType
      <3> QED BY <1>3, <3>1, <3>2
    <2>2. k - 1 \in Bad
      BY <2>1, <1>5
    <2> QED BY <1>2, <2>1, <2>2
  <1> QED BY <1>3, <1>5

(* Sums of numbers are numbers.                                              *)
LEMMA FoldType ==
    ASSUME NEW f, IsFiniteSet(DOMAIN f), \A x \in DOMAIN f : f[x] \in Nat
    PROVE  \A s \in SUBSET DOMAIN f : Fold(f)[s] \in Nat
  <1> DEFINE G == {s \in SUBSET DOMAIN f : Fold(f)[s] \in Nat}
  <1>1. {} \in G
    BY FoldStep
  <1>2. ASSUME NEW s \in SUBSET DOMAIN f, s # {}, \A x \in s : s \ {x} \in G PROVE s \in G
    <2>1. First(s) \in s
      BY <1>2, FirstIn
    <2>2. Fold(f)[s] = f[First(s)] + Fold(f)[s \ {First(s)}]
      BY <1>2, FoldStep
    <2> QED BY <1>2, <2>1, <2>2
  <1>3. G = SUBSET DOMAIN f
    <2> HIDE DEF G
    <2>1. G \in SUBSET SUBSET DOMAIN f
      BY DEF G
    <2> QED BY <1>1, <1>2, <2>1, BySize
  <1> QED BY <1>3

(* Any element may be taken out.                                             *)
LEMMA FoldAny ==
    ASSUME NEW f, IsFiniteSet(DOMAIN f), \A x \in DOMAIN f : f[x] \in Nat
    PROVE  \A s \in SUBSET DOMAIN f : \A x \in s : Fold(f)[s] = f[x] + Fold(f)[s \ {x}]
  <1> DEFINE G == {s \in SUBSET DOMAIN f : \A x \in s : Fold(f)[s] = f[x] + Fold(f)[s \ {x}]}
  <1>1. {} \in G
    OBVIOUS
  <1>2. ASSUME NEW s \in SUBSET DOMAIN f, s # {}, \A x \in s : s \ {x} \in G PROVE s \in G
    <2> DEFINE c == First(s)
    <2>1. c \in s
      BY <1>2, FirstIn
    <2>2. Fold(f)[s] = f[c] + Fold(f)[s \ {c}]
      BY <1>2, FoldStep
    <2> HIDE DEF c
    <2>3. ASSUME NEW x \in s, x # c PROVE Fold(f)[s] = f[x] + Fold(f)[s \ {x}]
      <3>1. Fold(f)[s \ {c}] = f[x] + Fold(f)[(s \ {c}) \ {x}]
        BY <1>2, <2>1, <2>3
      <3>2. Fold(f)[s \ {x}] = f[c] + Fold(f)[(s \ {x}) \ {c}]
        BY <1>2, <2>1, <2>3
      <3>3. (s \ {c}) \ {x} = (s \ {x}) \ {c}
        OBVIOUS
      <3>4. f[x] \in Nat /\ f[c] \in Nat /\ Fold(f)[(s \ {x}) \ {c}] \in Nat
        BY <2>1, FoldType
      <3> QED BY <2>2, <3>1, <3>2, <3>3, <3>4
    <2> QED BY <2>2, <2>3
  <1>3. G = SUBSET DOMAIN f
    <2> HIDE DEF G
    <2>1. G \in SUBSET SUBSET DOMAIN f
      BY DEF G
    <2> QED BY <1>1, <1>2, <2>1, BySize
  <1> QED BY <1>3

(* A part of a sum depends on its own terms only.                            *)
LEMMA FoldPart ==
    ASSUME NEW f, IsFiniteSet(DOMAIN f), NEW g, DOMAIN g \in SUBSET DOMAIN f,
           \A x \in DOMAIN g : g[x] = f[x]
    PROVE  \A s \in SUBSET DOMAIN g : Fold(g)[s] = Fold(f)[s]
  <1>0. IsFiniteSet(DOMAIN g)
    BY FS_Subset
  <1> DEFINE G == {s \in SUBSET DOMAIN g : Fold(g)[s] = Fold(f)[s]}
  <1>1. {} \in G
    BY <1>0, FoldStep
  <1>2. ASSUME NEW s \in SUBSET DOMAIN g, s # {}, \A x \in s : s \ {x} \in G PROVE s \in G
    <2>1. First(s) \in s
      BY <1>0, <1>2, FirstIn
    <2>2. Fold(f)[s] = f[First(s)] + Fold(f)[s \ {First(s)}]
      <3>1. s \in SUBSET DOMAIN f
        OBVIOUS
      <3> QED BY <1>2, <3>1, FoldStep
    <2>3. Fold(g)[s] = g[First(s)] + Fold(g)[s \ {First(s)}]
      BY <1>0, <1>2, FoldStep
    <2> QED BY <1>2, <2>1, <2>2, <2>3
  <1>3. G = SUBSET DOMAIN g
    <2> HIDE DEF G
    <2>1. G \in SUBSET SUBSET DOMAIN g
      BY DEF G
    <2> QED BY <1>0, <1>1, <1>2, <2>1, BySize
  <1> QED BY <1>3

-----------------------------------------------------------------------------
(* A sum of numbers is a number; the sum of nothing is 0.                    *)
LEMMA SumType ==
    ASSUME NEW f, IsFiniteSet(DOMAIN f), \A x \in DOMAIN f : f[x] \in Nat
    PROVE  SumFunction(f) \in Nat
  BY SumIsFold, FoldType

LEMMA SumOfNone ==
    ASSUME NEW f, DOMAIN f = {} PROVE SumFunction(f) = 0
  BY SumIsFold, FoldStep, FS_EmptySet

(* The sum over a set is that of one element and that of the rest.           *)
LEMMA SumTakesOut ==
    ASSUME NEW f, IsFiniteSet(DOMAIN f), \A x \in DOMAIN f : f[x] \in Nat,
           NEW x \in DOMAIN f,
           NEW g, g = [y \in DOMAIN f \ {x} |-> f[y]]
    PROVE  /\ SumFunction(f) = f[x] + SumFunction(g)
           /\ SumFunction(g) \in Nat
  <1>1. Fold(f)[DOMAIN f] = f[x] + Fold(f)[DOMAIN f \ {x}]
    BY FoldAny
  <1>2. DOMAIN g = DOMAIN f \ {x} /\ \A y \in DOMAIN g : g[y] = f[y]
    OBVIOUS
  <1>3. Fold(g)[DOMAIN g] = Fold(f)[DOMAIN g]
    BY <1>2, FoldPart
  <1>4. Fold(f)[DOMAIN g] \in Nat
    BY <1>2, FoldType
  <1> QED BY <1>1, <1>2, <1>3, <1>4, SumIsFold

(* The sums over a set and over the rest make the whole.                     *)
LEMMA SumSplits ==
    ASSUME NEW f, IsFiniteSet(DOMAIN f), \A x \in DOMAIN f : f[x] \in Nat,
           NEW S \in SUBSET DOMAIN f
    PROVE  SumFunction(f) = SumFunction([x \in S |-> f[x]])
                            + SumFunction([x \in DOMAIN f \ S |-> f[x]])
  <1> DEFINE D == DOMAIN f
             G == {s \in SUBSET D : Fold(f)[D] = Fold(f)[s] + Fold(f)[D \ s]}
  <1>1. {} \in G
    <2>1. Fold(f)[{}] = 0
      BY FoldStep
    <2>2. Fold(f)[D] \in Nat /\ D \ {} = D
      BY FoldType
    <2> QED BY <2>1, <2>2
  <1>2. ASSUME NEW s \in SUBSET D, s # {}, \A x \in s : s \ {x} \in G PROVE s \in G
    <2>1. PICK x \in s : TRUE
      BY <1>2
    <2>2. Fold(f)[s] = f[x] + Fold(f)[s \ {x}]
      BY FoldAny
    <2>3. Fold(f)[D \ (s \ {x})] = f[x] + Fold(f)[(D \ (s \ {x})) \ {x}]
      <3>1. x \in D \ (s \ {x}) /\ D \ (s \ {x}) \in SUBSET D
        OBVIOUS
      <3> QED BY <3>1, FoldAny
    <2>4. (D \ (s \ {x})) \ {x} = D \ s
      OBVIOUS
    <2>5. Fold(f)[D] = Fold(f)[s \ {x}] + Fold(f)[D \ (s \ {x})]
      BY <1>2
    <2>6. f[x] \in Nat /\ Fold(f)[s \ {x}] \in Nat /\ Fold(f)[D \ s] \in Nat
      <3>1. s \ {x} \in SUBSET D /\ D \ s \in SUBSET D
        OBVIOUS
      <3> QED BY <3>1, FoldType
    <2> QED BY <2>2, <2>3, <2>4, <2>5, <2>6
  <1>3. G = SUBSET D
    <2> HIDE DEF G
    <2>1. G \in SUBSET SUBSET D
      BY DEF G
    <2> QED BY <1>1, <1>2, <2>1, BySize
  <1>4. Fold(f)[D] = Fold(f)[S] + Fold(f)[D \ S]
    BY <1>3
  <1>5. ASSUME NEW T \in SUBSET D PROVE SumFunction([x \in T |-> f[x]]) = Fold(f)[T]
    <2> DEFINE g == [x \in T |-> f[x]]
    <2>1. DOMAIN g = T /\ \A x \in DOMAIN g : g[x] = f[x]
      OBVIOUS
    <2> HIDE DEF g
    <2>2. SumFunction(g) = Fold(f)[T]
      BY <2>1, FoldPart, SumIsFold
    <2> QED BY <2>2 DEF g
  <1> QED BY <1>4, <1>5, SumIsFold

-----------------------------------------------------------------------------
(* The books.  What a book says of a set of rows, as a function of the rows. *)

Rows(R) == {r \in Resv : R[r] # None}
Charged(R, S) == {r \in S : R[r].status # "reconciled"}
HeldOf(R, S) == SumFunction([r \in Charged(R, S) |-> R[r].amount])
UsedOf(R, S) == SumFunction([r \in S |-> R[r].used])
SaysOf(book, R, S) ==
    IF book = None THEN S = {}
    ELSE book.reserved = HeldOf(R, S) /\ book.used = UsedOf(R, S)
RowsTyped(R) == R \in [Resv -> Reservation \cup {None}]

(* The rows of a set have numbers to be summed.                              *)
LEMMA RowsToSum ==
    ASSUME NEW R, RowsTyped(R), NEW S \in SUBSET Rows(R)
    PROVE  \A r \in S : R[r] \in Reservation /\ R[r].amount \in Nat /\ R[r].used \in Nat
  BY DEF RowsTyped, Rows, Reservation

(* Sums over rows are numbers.                                               *)
LEMMA SaysType ==
    ASSUME NEW R, RowsTyped(R), NEW S \in SUBSET Rows(R), IsFiniteSet(S)
    PROVE  HeldOf(R, S) \in Nat /\ UsedOf(R, S) \in Nat
  <1> DEFINE C == Charged(R, S)
             f == [r \in C |-> R[r].amount]
             g == [r \in S |-> R[r].used]
  <1>1. C \subseteq S /\ IsFiniteSet(C)
    BY FS_Subset DEF Charged
  <1>2. DOMAIN f = C /\ \A r \in DOMAIN f : f[r] \in Nat
    BY <1>1, RowsToSum
  <1>3. DOMAIN g = S /\ \A r \in DOMAIN g : g[r] \in Nat
    BY RowsToSum
  <1> HIDE DEF f, g, C
  <1>4. SumFunction(f) \in Nat
    BY <1>1, <1>2, SumType
  <1>5. SumFunction(g) \in Nat
    BY <1>3, SumType
  <1> QED BY <1>4, <1>5 DEF HeldOf, UsedOf, f, g, C

(* A book that says the same of rows that hold and have used the same.       *)
LEMMA SameSays ==
    ASSUME NEW R, NEW Q, NEW S, NEW book, SaysOf(book, R, S),
           \A r \in S : /\ Q[r].amount = R[r].amount /\ Q[r].used = R[r].used
                        /\ Q[r].status # "reconciled" <=> R[r].status # "reconciled"
    PROVE  SaysOf(book, Q, S)
  <1>1. Charged(Q, S) = Charged(R, S)
    BY DEF Charged
  <1>2. [r \in Charged(Q, S) |-> Q[r].amount] = [r \in Charged(R, S) |-> R[r].amount]
    BY <1>1 DEF Charged
  <1>3. [r \in S |-> Q[r].used] = [r \in S |-> R[r].used]
    OBVIOUS
  <1> QED BY <1>2, <1>3 DEF SaysOf, HeldOf, UsedOf

(* A book of no rows holds and has used nothing.                             *)
LEMMA SaysNothing ==
    ASSUME NEW R PROVE HeldOf(R, {}) = 0 /\ UsedOf(R, {}) = 0
  <1>1. \A f : DOMAIN f = {} => SumFunction(f) = 0
    BY SumOfNone
  <1>2. Charged(R, {}) = {}
    BY DEF Charged
  <1>3. DOMAIN [r \in Charged(R, {}) |-> R[r].amount] = {}
    BY <1>2
  <1>4. DOMAIN [r \in {} |-> R[r].used] = {}
    OBVIOUS
  <1> QED BY <1>1, <1>3, <1>4 DEF HeldOf, UsedOf

(* A reservation adds its row to the book.                                   *)
LEMMA AddSays ==
    ASSUME NEW R, RowsTyped(R), NEW S \in SUBSET Rows(R), IsFiniteSet(S),
           NEW r \in Resv, R[r] = None, NEW row \in Reservation,
           row.status = "reserved", row.used = 0,
           NEW book \in Book \cup {None}, SaysOf(book, R, S),
           NEW Q, Q = [R EXCEPT ![r] = row]
    PROVE  SaysOf(Add(book, row.amount), Q, S \cup {r}) /\ Add(book, row.amount) \in Book
  <1> DEFINE T == S \cup {r}
             C == Charged(Q, T)
             f == [x \in C |-> Q[x].amount]
             f0 == [x \in C \ {r} |-> f[x]]
             g == [x \in T |-> Q[x].used]
             g0 == [x \in T \ {r} |-> g[x]]
  <1>0. r \notin S /\ Q[r] = row /\ \A x \in S : Q[x] = R[x]
    BY DEF Rows, RowsTyped
  <1>1. C = Charged(R, S) \cup {r} /\ r \notin Charged(R, S) /\ C \subseteq T
    BY <1>0 DEF Charged
  <1>2. IsFiniteSet(T) /\ IsFiniteSet(C)
    <2>1. IsFiniteSet(T)
      BY FS_AddElement
    <2> QED BY <2>1, <1>1, FS_Subset
  <1>3. \A x \in T : Q[x].amount \in Nat /\ Q[x].used \in Nat
    BY <1>0, RowsToSum DEF Reservation
  <1>4. SumFunction(f) = row.amount + HeldOf(R, S)
    <2>1. f0 = [x \in Charged(R, S) |-> R[x].amount]
      BY <1>0, <1>1 DEF Charged
    <2>2. DOMAIN f = C /\ \A x \in DOMAIN f : f[x] \in Nat
      BY <1>1, <1>3
    <2>3. r \in DOMAIN f /\ f[r] = row.amount /\ f0 = [x \in DOMAIN f \ {r} |-> f[x]]
      BY <1>0, <1>1
    <2> HIDE DEF f, f0, C
    <2>4. SumFunction(f) = f[r] + SumFunction(f0)
      BY <1>2, <2>2, <2>3, SumTakesOut
    <2> QED BY <2>1, <2>3, <2>4 DEF HeldOf
  <1>5. SumFunction(g) = UsedOf(R, S)
    <2>1. g0 = [x \in S |-> R[x].used]
      BY <1>0
    <2>2. DOMAIN g = T /\ \A x \in DOMAIN g : g[x] \in Nat
      BY <1>3
    <2>3. r \in DOMAIN g /\ g[r] = 0 /\ g0 = [x \in DOMAIN g \ {r} |-> g[x]]
      BY <1>0
    <2> HIDE DEF g, g0, T
    <2>4. SumFunction(g) = g[r] + SumFunction(g0) /\ SumFunction(g0) \in Nat
      BY <1>2, <2>2, <2>3, SumTakesOut
    <2> QED BY <2>1, <2>3, <2>4 DEF UsedOf
  <1>6. SumFunction(f) = HeldOf(Q, T) /\ SumFunction(g) = UsedOf(Q, T)
    BY DEF HeldOf, UsedOf
  <1>7. HeldOf(R, S) \in Nat /\ UsedOf(R, S) \in Nat /\ row.amount \in Nat
    BY SaysType DEF Reservation
  <1> HIDE DEF T, C, f, f0, g, g0
  <1>8. CASE book = None
    <2>1. HeldOf(R, S) = 0 /\ UsedOf(R, S) = 0
      BY <1>8, SaysNothing DEF SaysOf
    <2>2. Add(book, row.amount) = [reserved |-> 0 + row.amount, used |-> 0]
      BY <1>8 DEF Add, Empty
    <2>3. Add(book, row.amount) \in Book /\ Add(book, row.amount) # None
      BY <1>7, <2>2, NullAssumption DEF Book
    <2>4. HeldOf(Q, T) = 0 + row.amount /\ UsedOf(Q, T) = 0
      <3>1. HeldOf(Q, T) = row.amount + HeldOf(R, S)
        BY <1>4, <1>6
      <3>2. UsedOf(Q, T) = 0
        BY <1>5, <1>6, <2>1
      <3> QED BY <1>7, <2>1, <3>1, <3>2
    <2>5. SaysOf(Add(book, row.amount), Q, T)
      BY <2>2, <2>3, <2>4 DEF SaysOf
    <2> QED BY <2>3, <2>5 DEF T
  <1>9. CASE book # None
    <2>1. Add(book, row.amount) = [reserved |-> book.reserved + row.amount, used |-> book.used]
      BY <1>9 DEF Add, Book
    <2>2. Add(book, row.amount) \in Book /\ Add(book, row.amount) # None
      BY <1>7, <1>9, <2>1, NullAssumption DEF Book
    <2> QED BY <1>4, <1>5, <1>6, <1>7, <1>9, <2>1, <2>2 DEF SaysOf, T, Book
  <1> QED BY <1>8, <1>9

(* A settled reservation leaves the held part of its book and adds what it   *)
(* used.                                                                     *)
LEMMA SettleSays ==
    ASSUME NEW R, RowsTyped(R), NEW S \in SUBSET Rows(R), IsFiniteSet(S),
           NEW r \in S, R[r].status = "reserved", R[r].used = 0, NEW n \in Nat,
           NEW book \in Book \cup {None}, SaysOf(book, R, S),
           NEW Q, Q = [R EXCEPT ![r].status = "reconciled", ![r].used = n]
    PROVE  /\ SaysOf(Settle(book, R[r].amount, n), Q, S)
           /\ Settle(book, R[r].amount, n) \in Book
           /\ book # None /\ book.reserved >= R[r].amount
  <1> DEFINE C == Charged(R, S)
             f == [x \in C |-> R[x].amount]
             f0 == [x \in C \ {r} |-> f[x]]
             g == [x \in S |-> R[x].used]
             g0 == [x \in S \ {r} |-> g[x]]
             h == [x \in S |-> Q[x].used]
             h0 == [x \in S \ {r} |-> h[x]]
  <1>0. /\ Q[r] = [R[r] EXCEPT !.status = "reconciled", !.used = n]
        /\ \A x \in S \ {r} : Q[x] = R[x]
    BY DEF Rows, RowsTyped
  <1>1. Q[r].status = "reconciled" /\ Q[r].used = n
    <2>1. R[r] \in Reservation
      BY RowsToSum
    <2> QED BY <1>0, <2>1 DEF Reservation
  <1>2. Charged(Q, S) = C \ {r} /\ r \in C /\ C \subseteq S
    BY ZenonT(60), <1>0, <1>1 DEF Charged
  <1>3. IsFiniteSet(C)
    BY <1>2, FS_Subset
  <1>4. \A x \in S : R[x].amount \in Nat /\ R[x].used \in Nat /\ Q[x].used \in Nat
    <2>1. \A x \in S : R[x].amount \in Nat /\ R[x].used \in Nat
      BY RowsToSum
    <2> QED BY <1>0, <1>1, <2>1
  <1>5. HeldOf(R, S) = R[r].amount + HeldOf(Q, S) /\ HeldOf(Q, S) \in Nat
    <2>1. f0 = [x \in Charged(Q, S) |-> Q[x].amount]
      BY <1>0, <1>2
    <2>2. DOMAIN f = C /\ \A x \in DOMAIN f : f[x] \in Nat
      BY <1>2, <1>4
    <2>3. r \in DOMAIN f /\ f[r] = R[r].amount /\ f0 = [x \in DOMAIN f \ {r} |-> f[x]]
      BY <1>2
    <2>4. HeldOf(R, S) = SumFunction(f)
      BY DEF HeldOf
    <2> HIDE DEF f, f0, C
    <2>5. SumFunction(f) = f[r] + SumFunction(f0) /\ SumFunction(f0) \in Nat
      BY <1>3, <2>2, <2>3, SumTakesOut
    <2> QED BY <2>1, <2>3, <2>4, <2>5 DEF HeldOf
  <1>6. SumFunction(g) = 0 + SumFunction(g0) /\ SumFunction(g0) \in Nat
    <2>1. DOMAIN g = S /\ \A x \in DOMAIN g : g[x] \in Nat
      BY <1>4
    <2>2. r \in DOMAIN g /\ g[r] = 0 /\ g0 = [x \in DOMAIN g \ {r} |-> g[x]]
      OBVIOUS
    <2> HIDE DEF g, g0
    <2> QED BY <2>1, <2>2, SumTakesOut
  <1>7. SumFunction(h) = n + SumFunction(h0)
    <2>1. DOMAIN h = S /\ \A x \in DOMAIN h : h[x] \in Nat
      BY <1>4
    <2>2. r \in DOMAIN h /\ h[r] = n /\ h0 = [x \in DOMAIN h \ {r} |-> h[x]]
      BY <1>1
    <2> HIDE DEF h, h0
    <2> QED BY <2>1, <2>2, SumTakesOut
  <1>8. g0 = h0
    BY <1>0
  <1>9. UsedOf(R, S) = SumFunction(g) /\ UsedOf(Q, S) = SumFunction(h)
    BY DEF UsedOf
  <1> HIDE DEF C, f, f0, g, g0, h, h0
  <1>10. UsedOf(Q, S) = UsedOf(R, S) + n
    BY <1>6, <1>7, <1>8, <1>9
  <1>11. book \in Book /\ book.reserved = HeldOf(R, S) /\ book.used = UsedOf(R, S)
    BY DEF SaysOf
  <1>12. Settle(book, R[r].amount, n)
         = [reserved |-> HeldOf(Q, S), used |-> UsedOf(Q, S)]
    BY <1>4, <1>5, <1>10, <1>11 DEF Settle
  <1>13. Settle(book, R[r].amount, n) \in Book
    BY <1>5, <1>10, <1>11, <1>12 DEF Book
  <1>14. SaysOf(Settle(book, R[r].amount, n), Q, S)
    BY <1>12, <1>13, NullAssumption DEF SaysOf
  <1> QED BY <1>4, <1>5, <1>11, <1>13, <1>14, NullAssumption

AmountOf(R, F) == SumFunction([x \in F |-> R[x].amount])
Freed(R, Q, S, F) == \A x \in S :
    /\ Q[x].amount = R[x].amount /\ Q[x].used = R[x].used
    /\ Q[x].status # "reconciled" <=> R[x].status # "reconciled" /\ x \notin F

(* The swept rows of a book leave its held part together.                    *)
LEMMA SweepSays ==
    ASSUME NEW R, RowsTyped(R), NEW S \in SUBSET Rows(R), IsFiniteSet(S),
           NEW F \in SUBSET Charged(R, S), F # {},
           NEW book \in Book \cup {None}, SaysOf(book, R, S),
           NEW Q, Freed(R, Q, S, F)
    PROVE  /\ SaysOf(Settle(book, AmountOf(R, F), 0), Q, S)
           /\ Settle(book, AmountOf(R, F), 0) \in Book
           /\ book # None /\ book.reserved >= AmountOf(R, F) /\ AmountOf(R, F) \in Nat
  <1> DEFINE amount == AmountOf(R, F)
  <1>0. amount = SumFunction([x \in F |-> R[x].amount])
        /\ \A x \in S : /\ Q[x].amount = R[x].amount /\ Q[x].used = R[x].used
                        /\ Q[x].status # "reconciled"
                           <=> R[x].status # "reconciled" /\ x \notin F
    BY DEF AmountOf, Freed
  <1> HIDE DEF amount
  <1> DEFINE C == Charged(R, S)
             f == [x \in C |-> R[x].amount]
             f0 == [x \in C \ F |-> f[x]]
             f1 == [x \in F |-> f[x]]
  <1>1. Charged(Q, S) = C \ F /\ C \subseteq S
    BY <1>0 DEF Charged
  <1>2. IsFiniteSet(C) /\ IsFiniteSet(C \ F) /\ IsFiniteSet(F)
    BY <1>1, FS_Subset
  <1>3. \A x \in C : R[x].amount \in Nat
    BY <1>1, RowsToSum
  <1>4. SumFunction(f) = SumFunction(f1) + SumFunction(f0)
        /\ SumFunction(f1) \in Nat /\ SumFunction(f0) \in Nat
    <2>1. DOMAIN f = C /\ \A x \in DOMAIN f : f[x] \in Nat
      BY <1>3
    <2>2. DOMAIN f0 = C \ F /\ DOMAIN f1 = F
          /\ (\A x \in C \ F : f0[x] \in Nat) /\ (\A x \in F : f1[x] \in Nat)
      BY <1>3
    <2>3. f0 = [x \in DOMAIN f \ F |-> f[x]] /\ F \in SUBSET DOMAIN f
      OBVIOUS
    <2> HIDE DEF f, f0, C
    <2>4. SumFunction(f) = SumFunction(f1) + SumFunction(f0)
      BY <1>2, <2>1, <2>3, SumSplits
    <2> HIDE DEF f1
    <2>5. SumFunction(f1) \in Nat /\ SumFunction(f0) \in Nat
      BY <1>2, <2>2, SumType
    <2> QED BY <2>4, <2>5
  <1>5. f1 = [x \in F |-> R[x].amount] /\ f0 = [x \in Charged(Q, S) |-> Q[x].amount]
    BY <1>0, <1>1
  <1>6. HeldOf(R, S) = amount + HeldOf(Q, S) /\ amount \in Nat /\ HeldOf(Q, S) \in Nat
    <2>1. HeldOf(R, S) = SumFunction(f)
      BY DEF HeldOf
    <2> HIDE DEF f, f0, f1
    <2> QED BY <1>0, <1>4, <1>5, <2>1 DEF HeldOf
  <1> HIDE DEF C, f, f0, f1
  <1>7. UsedOf(Q, S) = UsedOf(R, S)
    <2>1. [x \in S |-> Q[x].used] = [x \in S |-> R[x].used]
      BY <1>0
    <2> QED BY <2>1 DEF UsedOf
  <1>8. book \in Book /\ book.reserved = HeldOf(R, S) /\ book.used = UsedOf(R, S)
    <2>1. S # {}
      BY DEF Charged
    <2> QED BY <2>1 DEF SaysOf
  <1>9. UsedOf(R, S) \in Nat
    BY <1>8 DEF Book
  <1>10. Settle(book, amount, 0) = [reserved |-> HeldOf(Q, S), used |-> UsedOf(Q, S)]
    BY <1>6, <1>7, <1>8, <1>9 DEF Settle
  <1>11. Settle(book, amount, 0) \in Book
    BY <1>6, <1>7, <1>9, <1>10 DEF Book
  <1>12. SaysOf(Settle(book, amount, 0), Q, S)
    BY <1>10, <1>11, NullAssumption DEF SaysOf
  <1> QED BY <1>6, <1>8, <1>11, <1>12, NullAssumption DEF amount

-----------------------------------------------------------------------------
(* The operations of the quota keep the books.                               *)

RowsOf(R, u, d) == {r \in Rows(R) : R[r].user = u /\ R[r].day = d}
Unused(R) == \A r \in Rows(R) : R[r].status # "reconciled" => R[r].used = 0
Balanced ==
    /\ QuotaTypeOK
    /\ Total(monthly) <= MonthlyCap
    /\ \A u \in Users, d \in 1..Days : Total(daily[u][d]) <= DailyCap
    /\ SaysOf(monthly, resv, Rows(resv))
    /\ \A u \in Users, d \in 1..Days : SaysOf(daily[u][d], resv, RowsOf(resv, u, d))
QuotaInv == Balanced /\ IsFiniteSet(Rows(resv)) /\ Unused(resv)

(* It is the property the run checks.                                        *)
LEMMA BalancedBooks == Balanced <=> BooksBalance
  <1>1. ASSUME NEW book, NEW S PROVE SaysOf(book, resv, S) <=> Says(book, S)
    BY DEF SaysOf, Says, HeldOf, UsedOf, Held, Used, Amount, Charged
  <1> QED BY <1>1 DEF Balanced, BooksBalance, Rows, RowsOf

(* The parts of the rows.                                                    *)
LEMMA RowsParts ==
    ASSUME QuotaInv, NEW u, NEW d
    PROVE  /\ RowsTyped(resv)
           /\ RowsOf(resv, u, d) \in SUBSET Rows(resv)
           /\ IsFiniteSet(RowsOf(resv, u, d))
  BY FS_Subset DEF QuotaInv, Balanced, QuotaTypeOK, RowsTyped, RowsOf

(* The first state has empty books.                                          *)
LEMMA QuotaInitBalanced == QuotaInit => QuotaInv
  <1> SUFFICES ASSUME QuotaInit PROVE QuotaInv
    OBVIOUS
  <1>1. Rows(resv) = {}
    BY DEF Rows, QuotaInit
  <1>2. \A u, d : RowsOf(resv, u, d) = {}
    BY <1>1 DEF RowsOf
  <1>3. QuotaTypeOK
    BY QuotaAssumption DEF QuotaInit, QuotaTypeOK
  <1>4. monthly = None /\ \A u \in Users, d \in 1..Days : daily[u][d] = None
    BY DEF QuotaInit
  <1> QED BY <1>1, <1>2, <1>3, <1>4, QuotaAssumption, FS_EmptySet
          DEF QuotaInv, Balanced, SaysOf, Total, Unused

(* Nothing changes, or the day only.                                         *)
LEMMA StillBalanced ==
    ASSUME QuotaInv, UNCHANGED <<resv, daily, monthly>>, rate' \in [Users -> 0..RateLimit],
           today' \in 1..Days
    PROVE  QuotaInv'
  BY DEF QuotaInv, Balanced, QuotaTypeOK

(* The rows change, but not what they hold and have used.                    *)
LEMMA SameRowsBalanced ==
    ASSUME QuotaInv, UNCHANGED <<daily, monthly, rate, today>>, RowsTyped(resv'),
           Rows(resv') = Rows(resv),
           \A r \in Rows(resv) :
               /\ resv'[r].amount = resv[r].amount /\ resv'[r].used = resv[r].used
               /\ resv'[r].user = resv[r].user /\ resv'[r].day = resv[r].day
               /\ resv'[r].status # "reconciled" <=> resv[r].status # "reconciled"
    PROVE  QuotaInv'
  <1>1. \A u, d : RowsOf(resv', u, d) = RowsOf(resv, u, d)
    BY DEF RowsOf
  <1>2. QuotaTypeOK'
    BY DEF QuotaInv, Balanced, QuotaTypeOK, RowsTyped
  <1>3. SaysOf(monthly, resv', Rows(resv))
    BY SameSays DEF QuotaInv, Balanced
  <1>4. \A u \in Users, d \in 1..Days : SaysOf(daily[u][d], resv', RowsOf(resv, u, d))
    <2> TAKE u \in Users, d \in 1..Days
    <2>1. SaysOf(daily[u][d], resv, RowsOf(resv, u, d)) /\ RowsOf(resv, u, d) \in SUBSET Rows(resv)
      BY RowsParts DEF QuotaInv, Balanced
    <2> QED BY <2>1, SameSays
  <1>5. Balanced'
    BY <1>1, <1>2, <1>3, <1>4 DEF QuotaInv, Balanced
  <1>6. Unused(resv') /\ IsFiniteSet(Rows(resv'))
    BY DEF QuotaInv, Unused
  <1> QED BY <1>5, <1>6 DEF QuotaInv

LEMMA MarkBalanced ==
    ASSUME QuotaInv, NEW r \in Resv, Mark(r) PROVE QuotaInv'
  <1>1. CASE ~IsReserved(r)
    BY <1>1, StillBalanced DEF Mark, QuotaInv, Balanced, QuotaTypeOK
  <1>2. CASE IsReserved(r)
    <2>1. resv[r] \in Reservation /\ resv' = [resv EXCEPT ![r].started = TRUE]
          /\ RowsTyped(resv)
      BY <1>2, RowsParts DEF IsReserved, RowsTyped, Mark
    <2>2. [resv[r] EXCEPT !.started = TRUE] \in Reservation
      BY <2>1 DEF Reservation
    <2>3. resv' \in [Resv -> Reservation \cup {None}] /\ Rows(resv') = Rows(resv)
      BY <1>2, <2>1, <2>2, NullAssumption DEF RowsTyped, Rows, IsReserved
    <2>4. resv'[r] = [resv[r] EXCEPT !.started = TRUE]
          /\ \A x \in Resv \ {r} : resv'[x] = resv[x]
      BY <2>1 DEF RowsTyped
    <2>5. \A x \in Rows(resv) :
            /\ resv'[x].amount = resv[x].amount /\ resv'[x].used = resv[x].used
            /\ resv'[x].user = resv[x].user /\ resv'[x].day = resv[x].day
            /\ resv'[x].status = resv[x].status
      BY <2>1, <2>4 DEF Rows, Reservation
    <2> QED BY <2>3, <2>5, SameRowsBalanced DEF RowsTyped, Mark
  <1> QED BY <1>1, <1>2

LEMMA RetainBalanced ==
    ASSUME QuotaInv, NEW r \in Resv, Retain(r) PROVE QuotaInv'
  <1>1. CASE ~IsReserved(r)
    BY <1>1, StillBalanced DEF Retain, QuotaInv, Balanced, QuotaTypeOK
  <1>2. CASE IsReserved(r)
    <2>1. resv[r] \in Reservation /\ resv' = [resv EXCEPT ![r].status = "retained"]
          /\ RowsTyped(resv)
      BY <1>2, RowsParts DEF IsReserved, RowsTyped, Retain
    <2>2. [resv[r] EXCEPT !.status = "retained"] \in Reservation
      BY <2>1 DEF Reservation
    <2>3. resv' \in [Resv -> Reservation \cup {None}] /\ Rows(resv') = Rows(resv)
      BY <1>2, <2>1, <2>2, NullAssumption DEF RowsTyped, Rows, IsReserved
    <2>4. resv'[r] = [resv[r] EXCEPT !.status = "retained"]
          /\ \A x \in Resv \ {r} : resv'[x] = resv[x]
      BY <2>1 DEF RowsTyped
    <2>5. \A x \in Rows(resv) :
            /\ resv'[x].amount = resv[x].amount /\ resv'[x].used = resv[x].used
            /\ resv'[x].user = resv[x].user /\ resv'[x].day = resv[x].day
            /\ resv'[x].status # "reconciled" <=> resv[x].status # "reconciled"
      BY <1>2, <2>1, <2>4 DEF Rows, Reservation, IsReserved
    <2> QED BY <2>3, <2>5, SameRowsBalanced DEF RowsTyped, Retain
  <1> QED BY <1>1, <1>2

(* A book that is told of an admitted request stays below its cap.           *)
LEMMA AddBelow ==
    ASSUME NEW book \in Book \cup {None}, NEW n \in Nat, NEW cap \in Nat, n <= cap,
           Admits(book, n, cap)
    PROVE  Total(Add(book, n)) <= cap
  <1>1. CASE book = None
    <2>1. Add(book, n) = [reserved |-> 0 + n, used |-> 0]
      BY <1>1 DEF Add, Empty
    <2>2. Add(book, n) \in Book
      BY <2>1 DEF Book
    <2> QED BY <2>1, <2>2, NullAssumption DEF Total
  <1>2. CASE book # None
    <2>1. Add(book, n) = [reserved |-> book.reserved + n, used |-> book.used]
      BY <1>2 DEF Add, Book
    <2>2. Add(book, n) \in Book
      BY <1>2, <2>1 DEF Book
    <2> QED BY <1>2, <2>1, <2>2, NullAssumption DEF Total, Admits, Book
  <1> QED BY <1>1, <1>2

(* A book that is told of a settlement stays below its cap.                  *)
LEMMA SettleBelow ==
    ASSUME NEW book \in Book, NEW n \in Nat, NEW used \in Nat, used <= n,
           book.reserved >= n, NEW cap \in Nat, Total(book) <= cap
    PROVE  Total(Settle(book, n, used)) <= cap /\ Settle(book, n, used) \in Book
  <1>1. Settle(book, n, used) = [reserved |-> book.reserved - n, used |-> book.used + used]
    BY DEF Settle
  <1>2. Settle(book, n, used) \in Book
    BY <1>1 DEF Book
  <1> QED BY <1>1, <1>2, NullAssumption DEF Total, Book

LEMMA ReserveBalanced ==
    ASSUME QuotaInv, NEW r \in Resv, NEW u \in Users, NEW n \in Nat,
           NEW newMinute \in BOOLEAN, Reserve(r, u, n, newMinute)
    PROVE  QuotaInv'
  <1> DEFINE row == [status |-> "reserved", user |-> u, day |-> today,
                     amount |-> n, used |-> 0, started |-> FALSE]
             All == Rows(resv)
  <1>0. /\ RowsTyped(resv) /\ today \in 1..Days /\ daily \in [Users -> [1..Days -> Book \cup {None}]]
        /\ monthly \in Book \cup {None} /\ rate \in [Users -> 0..RateLimit] /\ IsFiniteSet(All)
    BY RowsParts DEF QuotaInv, Balanced, QuotaTypeOK
  <1>1. row \in Reservation /\ resv[r] = None /\ resv' = [resv EXCEPT ![r] = row]
    BY <1>0 DEF Reserve, Reservation
  <1>2. resv' \in [Resv -> Reservation \cup {None}] /\ Rows(resv') = All \cup {r} /\ r \notin All
        /\ resv'[r] = row /\ \A x \in All : resv'[x] = resv[x]
    BY <1>0, <1>1, NullAssumption DEF RowsTyped, Rows
  <1>3. RowsOf(resv', u, today) = RowsOf(resv, u, today) \cup {r}
    BY <1>2 DEF RowsOf
  <1>4. ASSUME NEW v \in Users, NEW d \in 1..Days, v # u \/ d # today
        PROVE  RowsOf(resv', v, d) = RowsOf(resv, v, d)
    BY <1>2, <1>4 DEF RowsOf
  <1>5. monthly' = Add(monthly, n) /\ n <= MonthlyCap /\ n <= DailyCap
        /\ Admits(monthly, n, MonthlyCap) /\ Admits(daily[u][today], n, DailyCap)
    BY DEF Reserve, CanReserve, SizeFits
  <1>6. row.amount = n /\ row.status = "reserved" /\ row.used = 0
    OBVIOUS
  <1> HIDE DEF row
  <1>7. SaysOf(monthly', resv', Rows(resv')) /\ monthly' \in Book
    <2>1. SaysOf(monthly, resv, All)
      BY DEF QuotaInv, Balanced
    <2>2. SaysOf(Add(monthly, row.amount), resv', All \cup {r}) /\ Add(monthly, row.amount) \in Book
      BY <1>0, <1>1, <1>6, <2>1, AddSays
    <2> QED BY <1>2, <1>5, <1>6, <2>2
  <1>8. daily'[u][today] = Add(daily[u][today], n)
        /\ \A v \in Users, d \in 1..Days : v # u \/ d # today => daily'[v][d] = daily[v][d]
    BY <1>0 DEF Reserve
  <1>9. SaysOf(daily'[u][today], resv', RowsOf(resv', u, today)) /\ daily'[u][today] \in Book
    <2>1. SaysOf(daily[u][today], resv, RowsOf(resv, u, today))
      BY <1>0 DEF QuotaInv, Balanced
    <2>2. RowsOf(resv, u, today) \in SUBSET Rows(resv) /\ IsFiniteSet(RowsOf(resv, u, today))
      BY RowsParts
    <2>3. daily[u][today] \in Book \cup {None}
      BY <1>0
    <2>4. /\ SaysOf(Add(daily[u][today], row.amount), resv', RowsOf(resv, u, today) \cup {r})
          /\ Add(daily[u][today], row.amount) \in Book
      BY <1>0, <1>1, <1>6, <2>1, <2>2, <2>3, AddSays
    <2> QED BY <1>3, <1>6, <1>8, <2>4
  <1>10. ASSUME NEW v \in Users, NEW d \in 1..Days
         PROVE  SaysOf(daily'[v][d], resv', RowsOf(resv', v, d)) /\ Total(daily'[v][d]) <= DailyCap
    <2>1. CASE v = u /\ d = today
      <3>1. Total(Add(daily[u][today], n)) <= DailyCap
        BY <1>0, <1>5, QuotaAssumption, AddBelow
      <3> QED BY <1>8, <1>9, <2>1, <3>1
    <2>2. CASE v # u \/ d # today
      <3>1. SaysOf(daily[v][d], resv, RowsOf(resv, v, d)) /\ Total(daily[v][d]) <= DailyCap
        BY DEF QuotaInv, Balanced
      <3>2. \A x \in RowsOf(resv, v, d) : resv'[x] = resv[x]
        BY <1>2 DEF RowsOf
      <3>3. SaysOf(daily[v][d], resv', RowsOf(resv, v, d))
        BY <3>1, <3>2, SameSays
      <3> QED BY <1>4, <1>8, <2>2, <3>1, <3>3
    <2> QED BY <2>1, <2>2
  <1>11. Total(monthly') <= MonthlyCap
    BY <1>0, <1>5, QuotaAssumption, AddBelow
  <1>12. daily' \in [Users -> [1..Days -> Book \cup {None}]]
    <2>1. daily' = [daily EXCEPT ![u][today] = Add(@, n)]
      BY DEF Reserve
    <2>2. Add(daily[u][today], n) \in Book
      BY <1>8, <1>9
    <2> QED BY <1>0, <2>1, <2>2
  <1>13. rate' \in [Users -> 0..RateLimit] /\ today' \in 1..Days
    <2>1. Window(u, newMinute) \in 0..RateLimit /\ Window(u, newMinute) < RateLimit
          /\ RateLimit \in Nat
      BY <1>0, QuotaAssumption DEF Window, Reserve, CanReserve
    <2>2. Window(u, newMinute) + 1 \in 0..RateLimit
      BY <2>1
    <2> QED BY <1>0, <2>2 DEF Reserve
  <1>14. QuotaTypeOK'
    BY <1>2, <1>7, <1>12, <1>13 DEF QuotaTypeOK
  <1>15. Unused(resv') /\ IsFiniteSet(Rows(resv'))
    <2>1. IsFiniteSet(All \cup {r})
      BY <1>0, FS_AddElement
    <2> QED BY <1>2, <1>6, <2>1 DEF QuotaInv, Unused
  <1> QED BY <1>7, <1>10, <1>11, <1>14, <1>15 DEF QuotaInv, Balanced

LEMMA ReconcileBalanced ==
    ASSUME QuotaInv, NEW r \in Resv, NEW n \in Nat, IsReserved(r) => n <= resv[r].amount,
           Reconcile(r, n)
    PROVE  QuotaInv'
  <1>1. CASE ~IsReserved(r)
    BY <1>1, StillBalanced DEF Reconcile, Unsettled, QuotaInv, Balanced, QuotaTypeOK
  <1>2. CASE IsReserved(r)
    <2> DEFINE All == Rows(resv)
               u == resv[r].user
               d == resv[r].day
               a == resv[r].amount
    <2>0. /\ RowsTyped(resv) /\ daily \in [Users -> [1..Days -> Book \cup {None}]]
          /\ monthly \in Book \cup {None} /\ IsFiniteSet(All)
      BY RowsParts DEF QuotaInv, Balanced, QuotaTypeOK
    <2>1. /\ resv[r] \in Reservation /\ r \in All /\ resv[r].status = "reserved"
          /\ resv[r].used = 0 /\ u \in Users /\ d \in 1..Days /\ a \in Nat /\ n <= a
      BY <1>2, <2>0 DEF IsReserved, RowsTyped, Rows, QuotaInv, Unused, Reservation
    <2>2. /\ resv' = [resv EXCEPT ![r].status = "reconciled", ![r].used = n]
          /\ daily' = [daily EXCEPT ![u][d] = Settle(@, a, n)]
          /\ monthly' = Settle(monthly, a, n) /\ rate' = rate /\ today' = today
      BY <1>2 DEF Reconcile, Unsettled
    <2>3. [resv[r] EXCEPT !.status = "reconciled", !.used = n] \in Reservation
      BY <2>1 DEF Reservation
    <2>4. /\ resv' \in [Resv -> Reservation \cup {None}] /\ Rows(resv') = All
          /\ resv'[r] = [resv[r] EXCEPT !.status = "reconciled", !.used = n]
          /\ \A x \in All \ {r} : resv'[x] = resv[x]
      BY <2>0, <2>1, <2>2, <2>3, NullAssumption DEF RowsTyped, Rows
    <2>5. resv'[r].user = u /\ resv'[r].day = d /\ resv'[r].status = "reconciled"
      BY <2>1, <2>4 DEF Reservation
    <2>6. \A v, e : RowsOf(resv', v, e) = RowsOf(resv, v, e)
      BY <2>4, <2>5 DEF RowsOf
    <2>7. r \in RowsOf(resv, u, d)
          /\ \A v, e : v # u \/ e # d => r \notin RowsOf(resv, v, e)
      BY <2>1 DEF RowsOf
    <2> HIDE DEF All, u, d, a
    <2>8. SaysOf(monthly', resv', Rows(resv')) /\ monthly' \in Book
          /\ monthly \in Book /\ monthly.reserved >= a
      <3>1. SaysOf(monthly, resv, All)
        BY DEF QuotaInv, Balanced, All
      <3>2. /\ SaysOf(Settle(monthly, resv[r].amount, n), resv', All)
            /\ Settle(monthly, resv[r].amount, n) \in Book
            /\ monthly # None /\ monthly.reserved >= resv[r].amount
        BY <2>0, <2>1, <2>2, <3>1, SettleSays DEF All
      <3> QED BY <2>0, <2>2, <2>4, <3>2 DEF a
    <2>9. /\ daily'[u][d] = Settle(daily[u][d], a, n)
          /\ \A v \in Users, e \in 1..Days : v # u \/ e # d => daily'[v][e] = daily[v][e]
      BY <2>0, <2>1, <2>2
    <2>10. SaysOf(daily'[u][d], resv', RowsOf(resv', u, d)) /\ daily'[u][d] \in Book
           /\ daily[u][d] \in Book /\ daily[u][d].reserved >= a
      <3>1. SaysOf(daily[u][d], resv, RowsOf(resv, u, d))
        BY <2>1 DEF QuotaInv, Balanced
      <3>2. RowsOf(resv, u, d) \in SUBSET Rows(resv) /\ IsFiniteSet(RowsOf(resv, u, d))
        BY RowsParts
      <3>3. daily[u][d] \in Book \cup {None}
        BY <2>0, <2>1
      <3>4. /\ SaysOf(Settle(daily[u][d], resv[r].amount, n), resv', RowsOf(resv, u, d))
            /\ Settle(daily[u][d], resv[r].amount, n) \in Book
            /\ daily[u][d] # None /\ daily[u][d].reserved >= resv[r].amount
        BY <2>0, <2>1, <2>2, <2>7, <3>1, <3>2, <3>3, SettleSays
      <3> QED BY <2>6, <2>9, <3>3, <3>4 DEF a
    <2>11. ASSUME NEW v \in Users, NEW e \in 1..Days
           PROVE  SaysOf(daily'[v][e], resv', RowsOf(resv', v, e)) /\ Total(daily'[v][e]) <= DailyCap
      <3>1. SaysOf(daily[v][e], resv, RowsOf(resv, v, e)) /\ Total(daily[v][e]) <= DailyCap
        BY DEF QuotaInv, Balanced
      <3>2. CASE v = u /\ e = d
        <4>1. Total(Settle(daily[u][d], a, n)) <= DailyCap
          BY <2>1, <2>10, <3>1, <3>2, QuotaAssumption, SettleBelow DEF a
        <4> QED BY <2>9, <2>10, <3>2, <4>1
      <3>3. CASE v # u \/ e # d
        <4>1. \A x \in RowsOf(resv, v, e) : resv'[x] = resv[x]
          BY <2>4, <2>7, <3>3 DEF RowsOf, All
        <4>2. SaysOf(daily[v][e], resv', RowsOf(resv, v, e))
          BY <3>1, <4>1, SameSays
        <4> QED BY <2>6, <2>9, <3>1, <3>3, <4>2
      <3> QED BY <3>2, <3>3
    <2>12. Total(monthly') <= MonthlyCap
      <3>1. Total(monthly) <= MonthlyCap
        BY DEF QuotaInv, Balanced
      <3> QED BY <2>1, <2>2, <2>8, <3>1, QuotaAssumption, SettleBelow DEF a
    <2>13. QuotaTypeOK'
      <3>1. daily' \in [Users -> [1..Days -> Book \cup {None}]]
        BY <2>0, <2>2, <2>9, <2>10
      <3>2. rate' \in [Users -> 0..RateLimit] /\ today' \in 1..Days
        BY <2>2 DEF QuotaInv, Balanced, QuotaTypeOK
      <3> QED BY <2>4, <2>8, <3>1, <3>2 DEF QuotaTypeOK
    <2>14. Unused(resv') /\ IsFiniteSet(Rows(resv'))
      BY <2>0, <2>4, <2>5 DEF QuotaInv, Unused, All
    <2> QED BY <2>8, <2>11, <2>12, <2>13, <2>14 DEF QuotaInv, Balanced
  <1> QED BY <1>1, <1>2

(* What the sweeper writes into each row, and that it may.                   *)
LEMMA SweptRows ==
    ASSUME QuotaInv, NEW S \in SUBSET Stale, SweepRows(S)
    PROVE  /\ resv' \in [Resv -> Reservation \cup {None}] /\ Rows(resv') = Rows(resv)
           /\ \A x \in Rows(resv) :
                 /\ resv'[x].amount = resv[x].amount /\ resv'[x].used = resv[x].used
                 /\ resv'[x].user = resv[x].user /\ resv'[x].day = resv[x].day
                 /\ resv'[x].started = resv[x].started
                 /\ resv'[x].status # "reconciled"
                    <=> resv[x].status # "reconciled" /\ x \notin {r \in S : Released(r)}
  <1> DEFINE free == {r \in S : Released(r)}
  <1>0. RowsTyped(resv) /\ S \subseteq Rows(resv) /\ S \subseteq Resv
    BY RowsParts DEF Stale, IsReserved, Rows
  <1>1. resv' = [r \in Resv |-> IF r \in free THEN [resv[r] EXCEPT !.status = "reconciled"]
                                  ELSE IF r \in S THEN [resv[r] EXCEPT !.status = "retained"]
                                  ELSE resv[r]]
    BY DEF SweepRows
  <1>2. ASSUME NEW x \in Rows(resv)
        PROVE  /\ resv[x] \in Reservation /\ resv'[x] \in Reservation
               /\ resv'[x].amount = resv[x].amount /\ resv'[x].used = resv[x].used
               /\ resv'[x].user = resv[x].user /\ resv'[x].day = resv[x].day
               /\ resv'[x].started = resv[x].started
               /\ resv'[x].status # "reconciled"
                  <=> resv[x].status # "reconciled" /\ x \notin free
    <2>1. resv[x] \in Reservation /\ x \in Resv
      BY <1>0 DEF Rows, RowsTyped
    <2> HIDE DEF free
    <2>2. CASE x \in free
      <3>1. resv'[x] = [resv[x] EXCEPT !.status = "reconciled"]
        BY <1>1, <2>1, <2>2
      <3> QED BY <2>1, <2>2, <3>1 DEF Reservation
    <2>3. CASE x \notin free /\ x \in S
      <3>1. resv'[x] = [resv[x] EXCEPT !.status = "retained"] /\ resv[x].status = "reserved"
        BY <1>1, <2>1, <2>3 DEF Stale, IsReserved
      <3> QED BY <2>1, <2>3, <3>1 DEF Reservation
    <2>4. CASE x \notin free /\ x \notin S
      <3>1. resv'[x] = resv[x]
        BY <1>1, <2>1, <2>4
      <3> QED BY <2>1, <2>4, <3>1
    <2> QED BY <2>2, <2>3, <2>4
  <1>3. \A x \in Resv \ Rows(resv) : resv'[x] = None
    BY <1>0, <1>1 DEF Rows
  <1> HIDE DEF free
  <1>4. \A x \in Resv : resv'[x] \in Reservation \cup {None}
    BY <1>2, <1>3
  <1>5. resv' \in [Resv -> Reservation \cup {None}]
    BY <1>1, <1>4
  <1>6. Rows(resv') = Rows(resv)
    BY <1>2, <1>3, NullAssumption DEF Rows
  <1> QED BY <1>2, <1>5, <1>6 DEF free

LEMMA SweepBalanced ==
    ASSUME QuotaInv, NEW S \in SUBSET Stale, SweepRows(S)
    PROVE  QuotaInv'
  <1> DEFINE All == Rows(resv)
             free == {r \in S : Released(r)}
             Part(u, d) == {r \in free : resv[r].user = u /\ resv[r].day = d}
  <1>0. /\ RowsTyped(resv) /\ daily \in [Users -> [1..Days -> Book \cup {None}]]
        /\ monthly \in Book \cup {None} /\ IsFiniteSet(All)
    BY RowsParts DEF QuotaInv, Balanced, QuotaTypeOK
  <1>1. /\ daily' = [u \in Users |-> [d \in 1..Days |->
             IF Part(u, d) = {} THEN daily[u][d] ELSE Settle(daily[u][d], Amount(Part(u, d)), 0)]]
        /\ monthly' = IF free = {} THEN monthly ELSE Settle(monthly, Amount(free), 0)
        /\ rate' = rate /\ today' = today
    BY DEF SweepRows
  <1>2. /\ resv' \in [Resv -> Reservation \cup {None}] /\ Rows(resv') = All
        /\ \A x \in All :
              /\ resv'[x].amount = resv[x].amount /\ resv'[x].used = resv[x].used
              /\ resv'[x].user = resv[x].user /\ resv'[x].day = resv[x].day
              /\ resv'[x].status # "reconciled" <=> resv[x].status # "reconciled" /\ x \notin free
    BY SweptRows
  <1>3. free \subseteq Charged(resv, All)
    BY DEF Charged, Stale, IsReserved, Rows
  <1>4. \A u, d : /\ RowsOf(resv', u, d) = RowsOf(resv, u, d)
                  /\ Part(u, d) \subseteq Charged(resv, RowsOf(resv, u, d))
                  /\ \A x \in RowsOf(resv, u, d) : x \in free <=> x \in Part(u, d)
    BY <1>2, <1>3 DEF RowsOf, Charged
  <1>5. ASSUME NEW T PROVE Amount(T) = AmountOf(resv, T)
    BY DEF Amount, AmountOf
  <1> HIDE DEF All, free, Part
  <1>6. SaysOf(monthly', resv', Rows(resv')) /\ monthly' \in Book \cup {None}
        /\ Total(monthly') <= MonthlyCap
    <2>1. SaysOf(monthly, resv, All) /\ Total(monthly) <= MonthlyCap
      BY DEF QuotaInv, Balanced, All
    <2>2. CASE free = {}
      <3>1. SaysOf(monthly, resv', All)
        BY <1>2, <2>1, <2>2, SameSays
      <3> QED BY <1>0, <1>1, <1>2, <2>1, <2>2, <3>1
    <2>3. CASE free # {}
      <3>1. /\ SaysOf(Settle(monthly, Amount(free), 0), resv', All)
            /\ Settle(monthly, Amount(free), 0) \in Book
            /\ monthly # None /\ monthly.reserved >= Amount(free) /\ Amount(free) \in Nat
        <4>1. Freed(resv, resv', All, free)
          BY <1>2 DEF Freed
        <4>2. All \in SUBSET Rows(resv)
          BY DEF All
        <4>3. Amount(free) = AmountOf(resv, free)
          BY <1>5
        <4>4. SaysOf(monthly, resv, All) /\ IsFiniteSet(All) /\ free \in SUBSET Charged(resv, All)
          BY <1>0, <1>3, <2>1
        <4> QED BY <1>0, <2>3, <4>1, <4>2, <4>3, <4>4, SweepSays
      <3>2. Total(Settle(monthly, Amount(free), 0)) <= MonthlyCap
        BY <1>0, <2>1, <3>1, QuotaAssumption, SettleBelow
      <3> QED BY <1>1, <1>2, <2>3, <3>1, <3>2
    <2> QED BY <2>2, <2>3
  <1>7. ASSUME NEW u \in Users, NEW d \in 1..Days
        PROVE  /\ SaysOf(daily'[u][d], resv', RowsOf(resv', u, d))
               /\ daily'[u][d] \in Book \cup {None} /\ Total(daily'[u][d]) <= DailyCap
    <2> DEFINE R == RowsOf(resv, u, d)
               F == Part(u, d)
    <2>1. SaysOf(daily[u][d], resv, R) /\ Total(daily[u][d]) <= DailyCap
          /\ daily[u][d] \in Book \cup {None}
      BY <1>0 DEF QuotaInv, Balanced
    <2>2. R \in SUBSET Rows(resv) /\ IsFiniteSet(R) /\ RowsOf(resv', u, d) = R
          /\ F \subseteq Charged(resv, R)
      BY <1>4, RowsParts
    <2>3. Freed(resv, resv', R, F)
      BY <1>2, <1>4, <2>2 DEF All, Freed
    <2>4. daily'[u][d] = IF F = {} THEN daily[u][d] ELSE Settle(daily[u][d], Amount(F), 0)
      BY <1>1
    <2> HIDE DEF R, F
    <2>5. CASE F = {}
      <3>1. SaysOf(daily[u][d], resv', R)
        BY <2>1, <2>3, <2>5, SameSays DEF Freed
      <3> QED BY <2>1, <2>2, <2>4, <2>5, <3>1
    <2>6. CASE F # {}
      <3>1. /\ SaysOf(Settle(daily[u][d], Amount(F), 0), resv', R)
            /\ Settle(daily[u][d], Amount(F), 0) \in Book
            /\ daily[u][d] # None /\ daily[u][d].reserved >= Amount(F) /\ Amount(F) \in Nat
        <4>1. Amount(F) = AmountOf(resv, F)
          BY <1>5
        <4>2. F \in SUBSET Charged(resv, R) /\ daily[u][d] \in Book \cup {None}
          BY <2>1, <2>2
        <4>3. SaysOf(daily[u][d], resv, R)
          BY <2>1
        <4> DEFINE b == daily[u][d]
        <4> HIDE DEF b
        <4>4. b \in Book \cup {None} /\ SaysOf(b, resv, R)
          BY <4>2, <4>3 DEF b
        <4>5. /\ SaysOf(Settle(b, Amount(F), 0), resv', R)
              /\ Settle(b, Amount(F), 0) \in Book
              /\ b # None /\ b.reserved >= Amount(F) /\ Amount(F) \in Nat
          BY <1>0, <2>2, <2>3, <2>6, <4>1, <4>2, <4>4, SweepSays
        <4> QED BY <4>5 DEF b
      <3>2. Total(Settle(daily[u][d], Amount(F), 0)) <= DailyCap
        BY <2>1, <3>1, QuotaAssumption, SettleBelow
      <3> QED BY <2>2, <2>4, <2>6, <3>1, <3>2
    <2> QED BY <2>5, <2>6
  <1>8. QuotaTypeOK'
    <2>1. daily' \in [Users -> [1..Days -> Book \cup {None}]]
      BY <1>1, <1>7
    <2>2. rate' \in [Users -> 0..RateLimit] /\ today' \in 1..Days
      BY <1>1 DEF QuotaInv, Balanced, QuotaTypeOK
    <2> QED BY <1>2, <1>6, <2>1, <2>2 DEF QuotaTypeOK
  <1>9. Unused(resv') /\ IsFiniteSet(Rows(resv'))
    BY <1>0, <1>2 DEF QuotaInv, Unused, All
  <1> QED BY <1>6, <1>7, <1>8, <1>9 DEF QuotaInv, Balanced

LEMMA NewDayBalanced ==
    ASSUME QuotaInv, NewDay PROVE QuotaInv'
  <1>1. today' \in 1..Days
    BY QuotaAssumption DEF NewDay, QuotaInv, Balanced, QuotaTypeOK
  <1> QED BY <1>1, StillBalanced DEF NewDay, QuotaInv, Balanced, QuotaTypeOK

-----------------------------------------------------------------------------
(* What one request remembers.  Every action of a request changes its own    *)
(* record only, and keeps it in order.                                       *)

InRequest == {"reserved", "marked", "streaming", "settle"}
Local(w) ==
    /\ w.open <=> w.at \in InRequest
    /\ w.open => w.call # 0
    /\ w.at = "running" => w.call < MaxCalls
    /\ w.at \in {"idle", "permit", "replay"} => w.call = 0
    /\ w.at \in {"marked", "streaming"} => w.started
    /\ w.at = "compensate" => w.outcome = "failed"
    /\ w.cleaned => w.at = "ended"
Shaped == turn \in [Turns -> Turn] /\ \A t \in Turns : Local(turn[t])
RequestStep(t) == AcquirePermit(t) \/ TurnStep(t) \/ Renew(t) \/ LoseLease(t)

(* A request that is new, or over, is in order.                              *)
LEMMA NewTurnLocal ==
    /\ NewTurn \in Turn /\ Local(NewTurn)
    /\ [NewTurn EXCEPT !.at = "done"] \in Turn /\ Local([NewTurn EXCEPT !.at = "done"])
  <1>1. 0 \in 0..MaxCalls /\ {} \in SUBSET Turns
    BY TurnAssumption
  <1>2. "none" \in Outcomes /\ "idle" \in Labels /\ "done" \in Labels
    BY DEF Outcomes, Labels
  <1>3. NewTurn \in Turn /\ [NewTurn EXCEPT !.at = "done"] \in Turn
    BY <1>1, <1>2 DEF NewTurn, Turn
  <1> QED BY <1>3 DEF NewTurn, Local, InRequest

(* Its record may change, and it is in order again.                          *)
Changes(t) ==
    /\ turn' = [turn EXCEPT ![t] = turn'[t]]
    /\ turn'[t] \in Turn /\ Local(turn'[t])

(* Each action of a request.                                                 *)
LEMMA StepChanges ==
    ASSUME Shaped, NEW t \in Turns, RequestStep(t) PROVE Changes(t)
  <1> DEFINE v == turn[t]
  <1>0. v \in Turn /\ Local(v) /\ turn \in [Turns -> Turn]
    BY DEF Shaped
  <1>1. ASSUME NEW w, w \in Turn, Local(w), turn' = [turn EXCEPT ![t] = w] PROVE Changes(t)
    BY <1>0, <1>1 DEF Changes
  <1>2. ASSUME turn' = turn PROVE Changes(t)
    BY <1>0, <1>2 DEF Changes
  <1>3. CASE Over(t)
    BY <1>1, <1>3, NewTurnLocal DEF Over
  <1>4. CASE AcquirePermit(t)
    <2> DEFINE w == [v EXCEPT !.at = "permit"]
    <2>1. v.at = "idle" /\ (turn' = [turn EXCEPT ![t] = w] \/ Over(t))
      BY <1>4 DEF AcquirePermit, At, Goto
    <2>2. w \in Turn /\ Local(w)
      BY <1>0, <2>1 DEF Turn, Local, Labels, Leased, Outcomes, InRequest
    <2> QED BY <1>1, <1>3, <2>1, <2>2
  <1>5. CASE GetReplayItems(t)
    <2> DEFINE w == [v EXCEPT !.at = "replay", !.replay = Answered(Of(t))]
    <2>1. v.at = "permit" /\ turn' = [turn EXCEPT ![t] = w]
      BY <1>5 DEF GetReplayItems, At, Answered
    <2>2. Answered(Of(t)) \in SUBSET Turns /\ 0 < MaxCalls
      BY TurnAssumption DEF Answered
    <2>3. w \in Turn /\ Local(w)
      BY <1>0, <2>1, <2>2 DEF Turn, Local, Labels, Leased, Outcomes, InRequest
    <2> QED BY <1>1, <2>1, <2>3
  <1>6. CASE AcquireTurn(t)
    <2> DEFINE w == [v EXCEPT !.at = "running", !.since = Answered(Of(t))]
    <2>1. v.at = "replay" /\ turn' = [turn EXCEPT ![t] = w]
      BY <1>6 DEF AcquireTurn, At, Take, Answered
    <2>2. Answered(Of(t)) \in SUBSET Turns /\ 0 < MaxCalls
      BY TurnAssumption DEF Answered
    <2>3. w \in Turn /\ Local(w)
      BY <1>0, <2>1, <2>2 DEF Turn, Local, Labels, Leased, Outcomes, InRequest
    <2> QED BY <1>1, <2>1, <2>3
  <1>7. CASE PrepareFails(t)
    BY <1>7, <1>3 DEF PrepareFails
  <1>8. CASE PrepareUnheard(t)
    BY <1>8, <1>3 DEF PrepareUnheard
  <1>9. CASE PrepareCancelled(t)
    <2> DEFINE w == [v EXCEPT !.at = "compensate", !.outcome = "failed"]
    <2>1. v.at = "replay" /\ turn' = [turn EXCEPT ![t] = w]
      BY <1>9 DEF PrepareCancelled, At, Take
    <2>2. w \in Turn /\ Local(w)
      BY <1>0, <2>1 DEF Turn, Local, Labels, Leased, Outcomes, InRequest
    <2> QED BY <1>1, <2>1, <2>2
  <1>10. CASE NeverStreams(t)
    <2> DEFINE w == [v EXCEPT !.at = "ended"]
    <2>1. v.at = "running" /\ turn' = [turn EXCEPT ![t] = w]
      BY <1>10 DEF NeverStreams, At, Goto
    <2>2. w \in Turn /\ Local(w)
      BY <1>0, <2>1 DEF Turn, Local, Labels, Leased, Outcomes, InRequest
    <2> QED BY <1>1, <2>1, <2>2
  <1>11. CASE ReserveTokens(t)
    <2> DEFINE w1 == [v EXCEPT !.at = "reserved", !.open = TRUE, !.call = @ + 1]
               w2 == [v EXCEPT !.at = "finish", !.outcome = "failed"]
    <2>1. v.at = "running" /\ (turn' = [turn EXCEPT ![t] = w1] \/ turn' = [turn EXCEPT ![t] = w2])
      BY <1>11 DEF ReserveTokens, At
    <2>2. v.call + 1 \in 0..MaxCalls /\ v.call + 1 # 0
      BY <1>0, <2>1, TurnAssumption DEF Turn, Local
    <2>3. w1 \in Turn /\ Local(w1)
      BY <1>0, <2>1, <2>2 DEF Turn, Local, Labels, Leased, Outcomes, InRequest
    <2>4. w2 \in Turn /\ Local(w2)
      BY <1>0, <2>1 DEF Turn, Local, Labels, Leased, Outcomes, InRequest
    <2> QED BY <1>1, <2>1, <2>3, <2>4
  <1>12. CASE MarkProviderStarted(t)
    <2> DEFINE w1 == [v EXCEPT !.at = "marked", !.started = TRUE]
               w2 == [v EXCEPT !.at = "settle", !.outcome = "failed"]
    <2>1. v.at = "reserved" /\ (turn' = [turn EXCEPT ![t] = w1] \/ turn' = [turn EXCEPT ![t] = w2])
      BY <1>12 DEF MarkProviderStarted, At
    <2>2. w1 \in Turn /\ Local(w1)
      BY <1>0, <2>1 DEF Turn, Local, Labels, Leased, Outcomes, InRequest
    <2>3. w2 \in Turn /\ Local(w2)
      BY <1>0, <2>1 DEF Turn, Local, Labels, Leased, Outcomes, InRequest
    <2> QED BY <1>1, <2>1, <2>2, <2>3
  <1>13. CASE MarkUnheard(t)
    <2>1. v.at = "reserved"
      BY <1>13 DEF MarkUnheard, At
    <2> DEFINE w == [v EXCEPT !.at = "settle", !.outcome = "failed"]
    <2>2. turn' = [turn EXCEPT ![t] = w]
      BY <1>13 DEF MarkUnheard, At
    <2>3. w \in Turn /\ Local(w)
      BY <1>0, <2>1 DEF Turn, Local, Labels, Leased, Outcomes, InRequest
    <2> QED BY <1>1, <2>2, <2>3
  <1>14. CASE Create(t)
    <2> DEFINE w == [v EXCEPT !.at = "streaming"]
    <2>1. v.at = "marked" /\ turn' = [turn EXCEPT ![t] = w]
      BY <1>14 DEF Create, At, Goto
    <2>2. w \in Turn /\ Local(w)
      BY <1>0, <2>1 DEF Turn, Local, Labels, Leased, Outcomes, InRequest
    <2> QED BY <1>1, <2>1, <2>2
  <1>15. CASE Completed(t)
    <2>1. v.at = "streaming"
      BY <1>15 DEF Completed, At
    <2>2. PICK known \in BOOLEAN :
             turn' = [turn EXCEPT ![t] = [v EXCEPT !.at = "settle", !.known = known]]
      BY <1>15 DEF Completed, At
    <2> DEFINE w == [v EXCEPT !.at = "settle", !.known = known]
    <2>3. w \in Turn /\ Local(w)
      BY <1>0, <2>1 DEF Turn, Local, Labels, Leased, Outcomes, InRequest
    <2> QED BY <1>1, <2>2, <2>3
  <1>16. CASE Stop(t)
    <2>1. v.at \in {"running", "reserved", "marked", "streaming", "replied"}
      BY <1>16 DEF Stop
    <2>2. PICK why \in {"lost", "failed"} :
             turn' = [turn EXCEPT ![t] = [v EXCEPT !.outcome = why,
                                              !.at = IF v.open THEN "settle" ELSE "finish"]]
      BY ZenonT(60), <1>16 DEF Stop
    <2> DEFINE w == [v EXCEPT !.outcome = why,
                                              !.at = IF v.open THEN "settle" ELSE "finish"]
    <2>3. w \in Turn /\ Local(w)
      BY <1>0, <2>1 DEF Turn, Local, Labels, Leased, Outcomes, InRequest
    <2> QED BY <1>1, <2>2, <2>3
  <1>17. CASE SettleTurn(t)
    <2> DEFINE w == Settled(t, IF v.outcome = "none" THEN "replied" ELSE "finish")
    <2>1. v.at = "settle" /\ turn' = [turn EXCEPT ![t] = w]
      BY <1>17 DEF SettleTurn, At
    <2>2. w \in Turn /\ Local(w)
      BY <1>0, <2>1 DEF Settled, Turn, Local, Labels, Leased, Outcomes, InRequest
    <2> QED BY <1>1, <2>1, <2>2
  <1>18. CASE SettleFails(t)
    <2> DEFINE w == [Settled(t, "finish") EXCEPT !.outcome = IF @ = "none" THEN "failed" ELSE @]
    <2>1. v.at = "settle" /\ turn' = [turn EXCEPT ![t] = w]
      BY <1>18 DEF SettleFails, At
    <2>2. w \in Turn /\ Local(w)
      BY <1>0, <2>1 DEF Settled, Turn, Local, Labels, Leased, Outcomes, InRequest
    <2> QED BY <1>1, <2>1, <2>2
  <1>19. CASE CallTools(t)
    <2> DEFINE w1 == [v EXCEPT !.at = "running"]
               w2 == [v EXCEPT !.at = "finish", !.outcome = "failed"]
    <2>1. v.at = "replied" /\ (\/ v.call < MaxCalls /\ turn' = [turn EXCEPT ![t] = w1]
                              \/ turn' = [turn EXCEPT ![t] = w2])
      BY <1>19 DEF CallTools, At
    <2>2. v.call < MaxCalls => w1 \in Turn /\ Local(w1)
      BY <1>0, <2>1 DEF Turn, Local, Labels, Leased, Outcomes, InRequest
    <2>3. w2 \in Turn /\ Local(w2)
      BY <1>0, <2>1 DEF Turn, Local, Labels, Leased, Outcomes, InRequest
    <2> QED BY <1>1, <2>1, <2>2, <2>3
  <1>20. CASE Done(t)
    <2> DEFINE w == [v EXCEPT !.at = "finish", !.outcome = "complete"]
    <2>1. v.at = "replied" /\ turn' = [turn EXCEPT ![t] = w]
      BY <1>20 DEF Done, At
    <2>2. w \in Turn /\ Local(w)
      BY <1>0, <2>1 DEF Turn, Local, Labels, Leased, Outcomes, InRequest
    <2> QED BY <1>1, <2>1, <2>2
  <1>21. CASE Finish(t)
    <2> DEFINE w == [v EXCEPT !.at = IF v.at = "compensate" THEN "release" ELSE "cleanup"]
    <2>1. v.at \in {"finish", "compensate"} /\ turn' = [turn EXCEPT ![t] = w]
      BY <1>21 DEF Finish, At, AfterFinish, Goto
    <2>2. w \in Turn /\ Local(w)
      BY <1>0, <2>1 DEF Turn, Local, Labels, Leased, Outcomes, InRequest
    <2> QED BY <1>1, <2>1, <2>2
  <1>22. CASE FinishFails(t)
    <2> DEFINE w1 == [v EXCEPT !.outcome = "failed"]
               w2 == [v EXCEPT !.at = IF v.at = "compensate" THEN "release" ELSE "cleanup"]
    <2>1. v.at \in {"finish", "compensate"}
          /\ (\/ v.outcome = "complete" /\ turn' = [turn EXCEPT ![t] = w1]
              \/ turn' = [turn EXCEPT ![t] = w2])
      BY <1>22 DEF FinishFails, At, AfterFinish, Goto
    <2>2. v.outcome = "complete" => w1 \in Turn /\ Local(w1)
      BY <1>0, <2>1 DEF Turn, Local, Labels, Leased, Outcomes, InRequest
    <2>3. w2 \in Turn /\ Local(w2)
      BY <1>0, <2>1 DEF Turn, Local, Labels, Leased, Outcomes, InRequest
    <2> QED BY <1>1, <2>1, <2>2, <2>3
  <1>23. CASE StreamEnds(t)
    <2> DEFINE w == [v EXCEPT !.at = "ended", !.cleaned = TRUE]
    <2>1. v.at = "cleanup" /\ turn' = [turn EXCEPT ![t] = w]
      BY <1>23 DEF StreamEnds, At
    <2>2. w \in Turn /\ Local(w)
      BY <1>0, <2>1 DEF Turn, Local, Labels, Leased, Outcomes, InRequest
    <2> QED BY <1>1, <2>1, <2>2
  <1>24. CASE ResponseEnds(t)
    BY <1>24, <1>3 DEF ResponseEnds
  <1>25. CASE ReleasePermit(t)
    BY <1>25, <1>3 DEF ReleasePermit
  <1>26. CASE Renew(t)
    BY <1>26, <1>2 DEF Renew
  <1>27. CASE LoseLease(t)
    <2> DEFINE w == [v EXCEPT !.lost = TRUE]
    <2>1. v.at \in Leased /\ turn' = [turn EXCEPT ![t] = w]
      BY <1>27 DEF LoseLease
    <2>2. w \in Turn /\ Local(w)
      BY <1>0, <2>1 DEF Turn, Local, Labels, Leased, Outcomes, InRequest
    <2> QED BY <1>1, <2>1, <2>2
  <1>28. CASE AttemptLost(t)
    BY <1>28, <1>2 DEF AttemptLost
  <1> QED
    BY <1>28, <1>4, <1>5, <1>6, <1>7, <1>8, <1>9, <1>10, <1>11, <1>12, <1>13, <1>14, <1>15, <1>16, <1>17, <1>18, <1>19, <1>20, <1>21, <1>22, <1>23, <1>24, <1>25, <1>26, <1>27 DEF RequestStep, TurnStep

(* The other requests keep theirs.                                           *)
LEMMA OthersKeep ==
    ASSUME Shaped, NEW t \in Turns, Changes(t)
    PROVE  Shaped' /\ \A u \in Turns \ {t} : turn'[u] = turn[u]
  BY DEF Shaped, Changes

LEMMA CrashShapes ==
    ASSUME Shaped, Crash
    PROVE  Shaped' /\ \A t \in Turns : turn'[t].at \in {"idle", "done"} /\ ~turn'[t].open
  <1>1. ASSUME NEW t \in Turns
        PROVE  /\ turn'[t] \in Turn /\ Local(turn'[t])
               /\ turn'[t].at \in {"idle", "done"} /\ ~turn'[t].open
    <2>1. turn'[t] = IF At(t, "idle") THEN turn[t] ELSE [NewTurn EXCEPT !.at = "done"]
      BY DEF Crash
    <2>2. CASE At(t, "idle")
      BY <2>1, <2>2 DEF Shaped, At, Local, InRequest
    <2>3. CASE ~At(t, "idle")
      BY <2>1, <2>3, NewTurnLocal DEF NewTurn
    <2> QED BY <2>2, <2>3
  <1>2. turn' \in [Turns -> Turn]
    BY <1>1 DEF Crash
  <1> QED BY <1>1, <1>2 DEF Shaped

LEMMA InitShaped == Init => Shaped
  BY NewTurnLocal DEF Init, Shaped

LEMMA StepShaped == Shaped /\ [Next]_vars => Shaped'
  <1> SUFFICES ASSUME Shaped, [Next]_vars PROVE Shaped'
    OBVIOUS
  <1>1. ASSUME NEW t \in Turns, RequestStep(t) PROVE Shaped'
    BY <1>1, StepChanges, OthersKeep
  <1>2. CASE Crash
    BY <1>2, CrashShapes
  <1>3. CASE UNCHANGED turn
    BY <1>3 DEF Shaped
  <1> QED
    BY <1>1, <1>2, <1>3 DEF Next, RequestStep, LeaseExpires, Quotas, turns, vars

LEMMA AlwaysShaped == Spec => []Shaped
  BY InitShaped, StepShaped, PTL DEF Spec

-----------------------------------------------------------------------------
(* Leases and answers.  What a request does to them.                         *)

Cleans(t) == lease' = [lease EXCEPT ![Of(t)] = IF HoldsLease(t, @) THEN None ELSE @]

LEMMA LeaseSteps ==
    ASSUME NEW t \in Turns, RequestStep(t)
    PROVE  \/ UNCHANGED <<lease, answer>>
           \/ Take(t) /\ (AcquireTurn(t) \/ PrepareUnheard(t) \/ PrepareCancelled(t))
           \/ (Finish(t) \/ FinishFails(t)) /\ Store(t) /\ Stores(t)
           \/ (StreamEnds(t) \/ ResponseEnds(t)) /\ Cleans(t) /\ UNCHANGED answer
           \/ Renew(t)
  <1>1. CASE AcquireTurn(t) \/ PrepareUnheard(t) \/ PrepareCancelled(t)
    BY <1>1 DEF AcquireTurn, PrepareUnheard, PrepareCancelled
  <1>2. CASE Finish(t) \/ FinishFails(t)
    BY <1>2 DEF Finish, FinishFails
  <1>3. CASE StreamEnds(t) \/ ResponseEnds(t)
    BY <1>3 DEF StreamEnds, ResponseEnds, Clean, Cleans
  <1>4. CASE \/ AcquirePermit(t) \/ GetReplayItems(t) \/ PrepareFails(t) \/ NeverStreams(t)
             \/ ReserveTokens(t) \/ MarkProviderStarted(t) \/ MarkUnheard(t) \/ Create(t)
             \/ Completed(t) \/ Stop(t) \/ SettleTurn(t) \/ SettleFails(t) \/ CallTools(t)
             \/ Done(t) \/ ReleasePermit(t) \/ LoseLease(t) \/ AttemptLost(t)
    BY <1>4 DEF AcquirePermit, GetReplayItems, PrepareFails, NeverStreams, ReserveTokens,
                MarkProviderStarted, MarkUnheard, AttemptLost, Create, Completed, Stop, SettleTurn,
                SettleFails, CallTools, Done, ReleasePermit, LoseLease
  <1> QED BY <1>1, <1>2, <1>3, <1>4 DEF RequestStep, TurnStep

Lease == [turn : Turns, expired : BOOLEAN]
Kept ==
    /\ lease \in [Sessions -> Lease \cup {None}]
    /\ \A s \in Sessions : lease[s] # None => Of(lease[s].turn) = s
    /\ answer \in [Turns -> {"none", "complete", "failed"}]
    /\ crashes \in 0..Crashes

LEMMA NoLease == None \notin Lease
  BY TurnAssumption DEF Lease

(* The lease of one session changes.                                         *)
LEMMA KeptAt ==
    ASSUME Kept, NEW s \in Sessions, NEW l \in Lease \cup {None}, l # None => Of(l.turn) = s,
           lease' = [lease EXCEPT ![s] = l],
           answer' \in [Turns -> {"none", "complete", "failed"}],
           crashes' \in 0..Crashes
    PROVE  Kept' /\ lease'[s] = l /\ \A r \in Sessions \ {s} : lease'[r] = lease[r]
  BY DEF Kept

LEMMA StepKept == Shaped /\ Kept /\ [Next]_vars => Kept'
  <1> SUFFICES ASSUME Shaped, Kept, [Next]_vars PROVE Kept'
    OBVIOUS
  <1>1. ASSUME NEW t \in Turns, RequestStep(t) PROVE Kept'
    <2>0. Of(t) \in Sessions /\ lease[Of(t)] \in Lease \cup {None} /\ crashes' \in 0..Crashes
          /\ (lease[Of(t)] # None => Of(lease[Of(t)].turn) = Of(t))
      <3>1. crashes' = crashes
        BY <1>1 DEF RequestStep, TurnStep, AcquirePermit, GetReplayItems, AcquireTurn,
              PrepareFails, PrepareUnheard, PrepareCancelled, Take, NeverStreams, ReserveTokens,
              MarkProviderStarted, MarkUnheard, AttemptLost, Create, Completed, Stop,
              SettleTurn, SettleFails, CallTools, Done, Finish, FinishFails, StreamEnds, ResponseEnds, ReleasePermit,
              Renew, LoseLease
      <3> QED BY <3>1 DEF Kept, Sessions, Of
    <2>1. CASE UNCHANGED <<lease, answer>>
      BY <2>0, <2>1 DEF Kept
    <2>2. CASE Take(t)
      <3>1. [turn |-> t, expired |-> FALSE] \in Lease
        BY DEF Lease
      <3> QED BY <2>0, <2>2, <3>1, KeptAt DEF Take, Kept
    <2>3. CASE (Finish(t) \/ FinishFails(t)) /\ Store(t) /\ Stores(t)
      <3>1. turn[t].outcome \in {"none", "complete", "failed"}
        BY <2>3 DEF Stores, Shaped, Turn, Outcomes
      <3>2. answer' \in [Turns -> {"none", "complete", "failed"}]
        BY <2>3, <3>1 DEF Store, Kept
      <3> QED BY <2>0, <2>3, <3>2, KeptAt DEF Store
    <2>4. CASE Cleans(t) /\ UNCHANGED answer
      BY <2>0, <2>4, KeptAt DEF Cleans, Kept
    <2>5. CASE Renew(t)
      <3>1. lease[Of(t)] \in Lease /\ lease' = [lease EXCEPT ![Of(t)].expired = FALSE]
            /\ answer' = answer
        BY <2>0, <2>5 DEF Renew, HoldsLease
      <3>2. [lease[Of(t)] EXCEPT !.expired = FALSE] \in Lease
            /\ [lease[Of(t)] EXCEPT !.expired = FALSE].turn = lease[Of(t)].turn
        BY <3>1 DEF Lease
      <3> QED BY <2>0, <3>1, <3>2, NoLease, KeptAt DEF Kept
    <2> QED BY <1>1, <2>1, <2>2, <2>3, <2>4, <2>5, LeaseSteps
  <1>2. ASSUME NEW s \in Sessions, LeaseExpires(s) PROVE Kept'
    <2>1. lease[s] \in Lease /\ lease' = [lease EXCEPT ![s].expired = TRUE]
      BY <1>2 DEF LeaseExpires, Kept
    <2>2. [lease[s] EXCEPT !.expired = TRUE] \in Lease
          /\ [lease[s] EXCEPT !.expired = TRUE].turn = lease[s].turn
      BY <2>1 DEF Lease
    <2> QED BY <1>2, <2>1, <2>2, NoLease, KeptAt DEF LeaseExpires, Kept
  <1>3. CASE Crash
    BY <1>3, TurnAssumption DEF Crash, Kept
  <1>4. CASE UNCHANGED <<lease, answer, crashes>>
    BY <1>4 DEF Kept
  <1> QED
    BY <1>1, <1>2, <1>3, <1>4 DEF Next, RequestStep, Quotas, turns, vars

LEMMA InitKept == Init => Kept
  BY TurnAssumption DEF Init, Kept

LEMMA AlwaysKept == Spec => []Kept
  BY InitKept, StepKept, AlwaysShaped, PTL DEF Spec

(* A request that still holds, or thinks it holds, its lease has not been    *)
(* given a new start.                                                        *)
LEMMA SinceStays ==
    ASSUME Shaped, NEW t \in Turns, RequestStep(t), turn'[t].at \in Leased
    PROVE  AcquireTurn(t) \/ (turn[t].at \in Leased /\ turn'[t].since = turn[t].since)
  <1> DEFINE v == turn[t]
  <1>0. v \in Turn /\ turn \in [Turns -> Turn]
    BY DEF Shaped
  <1>1. CASE \/ AcquirePermit(t) \/ GetReplayItems(t) \/ PrepareFails(t) \/ PrepareUnheard(t)
             \/ PrepareCancelled(t) \/ NeverStreams(t) \/ StreamEnds(t) \/ ResponseEnds(t)
             \/ ReleasePermit(t)
    <2>1. ASSUME Over(t) PROVE turn'[t].at = "done"
      BY <1>0, <2>1 DEF Over, NewTurn
    <2>2. turn'[t].at \in {"permit", "done", "replay", "compensate", "ended"}
      BY <1>0, <1>1, <2>1 DEF AcquirePermit, GetReplayItems, PrepareFails, PrepareUnheard,
         PrepareCancelled, NeverStreams, StreamEnds, ResponseEnds, ReleasePermit, Goto, Turn
    <2> QED BY <2>2 DEF Leased
  <1>2. CASE \/ ReserveTokens(t) \/ MarkProviderStarted(t) \/ MarkUnheard(t) \/ Create(t)
    <2>1. v.at \in {"running", "reserved", "marked"}
      BY <1>2 DEF ReserveTokens, MarkProviderStarted, MarkUnheard, Create, At
    <2>2. turn'[t].since = v.since
      <3>1. CASE ReserveTokens(t)
        BY <1>0, <3>1 DEF ReserveTokens, Turn
      <3>2. CASE MarkProviderStarted(t)
        BY <1>0, <3>2 DEF MarkProviderStarted, Turn
      <3>3. CASE MarkUnheard(t)
        BY <1>0, <3>3 DEF MarkUnheard, Turn
      <3>4. CASE Create(t)
        BY <1>0, <3>4 DEF Create, Goto, Turn
      <3> QED BY <1>2, <3>1, <3>2, <3>3, <3>4
    <2> QED BY <2>1, <2>2 DEF Leased
  <1>3. CASE Completed(t) \/ Stop(t) \/ SettleTurn(t) \/ SettleFails(t) \/ CallTools(t) \/ Done(t)
    <2>1. v.at \in {"running", "reserved", "marked", "streaming", "settle", "replied"}
      BY <1>3 DEF Completed, Stop, SettleTurn, SettleFails, CallTools, Done, At
    <2>2. turn'[t].since = v.since
      <3>1. CASE Completed(t)
        BY <1>0, <3>1 DEF Completed, Turn
      <3>2. CASE Stop(t)
        BY <1>0, <3>2 DEF Stop, Turn
      <3>3. CASE SettleTurn(t)
        BY <1>0, <3>3 DEF SettleTurn, Settled, Turn
      <3>4. CASE SettleFails(t)
        BY <1>0, <3>4 DEF SettleFails, Settled, Turn
      <3>5. CASE CallTools(t)
        BY <1>0, <3>5 DEF CallTools, Turn
      <3>6. CASE Done(t)
        BY <1>0, <3>6 DEF Done, Turn
      <3> QED BY <1>3, <3>1, <3>2, <3>3, <3>4, <3>5, <3>6
    <2> QED BY <2>1, <2>2 DEF Leased
  <1>4. CASE Finish(t) \/ FinishFails(t)
    <2>1. CASE v.at = "finish"
      <3>1. turn'[t].since = v.since
        BY <1>0, <1>4 DEF Finish, FinishFails, AfterFinish, Goto, Turn
      <3> QED BY <2>1, <3>1 DEF Leased
    <2>2. CASE v.at = "compensate"
      <3>1. v.outcome = "failed"
        BY <2>2 DEF Shaped, Local
      <3>2. turn'[t].at = "release"
        BY <1>0, <1>4, <2>2, <3>1 DEF Finish, FinishFails, AfterFinish, Goto, At, Turn
      <3> QED BY <3>2 DEF Leased
    <2> QED BY <1>4, <2>1, <2>2 DEF Finish, FinishFails, At
  <1>5. CASE Renew(t) \/ LoseLease(t) \/ AttemptLost(t)
    BY <1>0, <1>5 DEF Renew, LoseLease, AttemptLost, Turn
  <1> QED BY <1>1, <1>2, <1>3, <1>4, <1>5 DEF RequestStep, TurnStep

(* A turn stores "complete" as the owner of its lease only, and only from    *)
(* its own end.                                                              *)
LEMMA Completes ==
    ASSUME Shaped, Kept, NEW t \in Turns, RequestStep(t)
    PROVE  /\ \A u \in Turns \ {t} : answer'[u] = answer[u]
           /\ answer[t] = "complete" => answer'[t] = "complete"
           /\ answer'[t] = "complete" /\ answer[t] # "complete" =>
                 /\ (Finish(t) \/ FinishFails(t)) /\ At(t, "finish") /\ Owned(t)
                 /\ lease' = [lease EXCEPT ![Of(t)] = None]
  <1>1. CASE answer' = answer
    BY <1>1
  <1>2. CASE (Finish(t) \/ FinishFails(t)) /\ Store(t) /\ Stores(t)
    <2>1. answer' = [answer EXCEPT ![t] = IF @ = "none" THEN turn[t].outcome ELSE @]
          /\ answer \in [Turns -> {"none", "complete", "failed"}]
      BY <1>2 DEF Store, Kept
    <2>2. ASSUME answer'[t] = "complete", answer[t] # "complete"
          PROVE  /\ At(t, "finish") /\ Owned(t)
                 /\ lease' = [lease EXCEPT ![Of(t)] = None]
      <3>1. turn[t].outcome = "complete" /\ answer[t] = "none"
        BY <2>1, <2>2
      <3>2. Owned(t) /\ lease' = [lease EXCEPT ![Of(t)] = None]
        BY <1>2, <3>1 DEF Stores, Store
      <3>3. ~At(t, "compensate")
        BY <3>1 DEF At, Shaped, Local
      <3> QED BY <1>2, <3>2, <3>3 DEF Finish, FinishFails
    <2> QED BY <1>2, <2>1, <2>2
  <1>3. CASE Take(t) \/ Renew(t)
    BY <1>1, <1>3 DEF Take, Renew
  <1> QED BY <1>1, <1>2, <1>3, LeaseSteps

-----------------------------------------------------------------------------
(* Between the lease of a turn and its answer no other turn of the session   *)
(* is answered, as long as the lease is its own.                             *)

Alone(t) ==
    turn[t].at \in Leased /\ HoldsLease(t, lease[Of(t)]) => Answered(Of(t)) = turn[t].since
AllAlone == \A t \in Turns : Alone(t)

LEMMA InitAlone == Init => AllAlone
  BY DEF Init, AllAlone, Alone, Leased, NewTurn

(* A lease is its turn's when it holds a turn that it did not get now.       *)
LEMMA StillHeld ==
    ASSUME Kept, NEW t \in Turns, RequestStep(t), NEW u \in Turns,
           HoldsLease(u, lease'[Of(u)]), ~Take(u) \/ u # t
    PROVE  HoldsLease(u, lease[Of(u)])
  <1>0. Of(t) \in Sessions /\ Of(u) \in Sessions /\ lease \in [Sessions -> Lease \cup {None}]
    BY DEF Kept, Sessions, Of
  <1>1. CASE UNCHANGED lease
    BY <1>1
  <1>2. CASE Take(t)
    BY <1>0, <1>2 DEF Take, HoldsLease
  <1>3. CASE Store(t) \/ Cleans(t)
    BY <1>0, <1>3 DEF Store, Cleans, HoldsLease
  <1>4. CASE Renew(t)
    BY <1>0, <1>4 DEF Renew, HoldsLease, Lease
  <1> QED BY <1>1, <1>2, <1>3, <1>4, LeaseSteps

LEMMA StepAlone == Shaped /\ Kept /\ AllAlone /\ [Next]_vars => AllAlone'
  <1> SUFFICES ASSUME Shaped, Kept, AllAlone, [Next]_vars, NEW u \in Turns PROVE Alone(u)'
    BY DEF AllAlone
  <1> SUFFICES ASSUME turn'[u].at \in Leased, HoldsLease(u, lease'[Of(u)])
               PROVE  Answered(Of(u))' = turn'[u].since
    BY DEF Alone, Of
  <1>0. Of(u) \in Sessions /\ lease \in [Sessions -> Lease \cup {None}]
    BY DEF Kept, Sessions, Of
  <1>1. ASSUME NEW t \in Turns, RequestStep(t) PROVE Answered(Of(u))' = turn'[u].since
    <2>1. CASE AcquireTurn(t) /\ u = t
      <3>1. turn'[t].since = Answered(Of(t)) /\ answer' = answer
        BY <2>1 DEF AcquireTurn, Take, Shaped, Turn
      <3> QED BY <2>1, <3>1 DEF Answered
    <2>2. CASE ~(AcquireTurn(t) /\ u = t)
      <3>1. turn[u].at \in Leased /\ turn'[u].since = turn[u].since
        <4>1. CASE u = t
          BY <1>1, <2>2, <4>1, SinceStays
        <4>2. CASE u # t
          BY <1>1, <4>2, StepChanges, OthersKeep
        <4> QED BY <4>1, <4>2
      <3>2. ~Take(u) \/ u # t
        BY <3>1 DEF Take, At, Leased
      <3>3. HoldsLease(u, lease[Of(u)])
        BY <1>1, <3>2, StillHeld
      <3>4. Answered(Of(u)) = turn[u].since
        BY <3>1, <3>3 DEF AllAlone, Alone
      <3>5. Answered(Of(u))' = Answered(Of(u))
        <4>1. SUFFICES ASSUME NEW w \in Turns, Of(w) = Of(u)
                       PROVE  answer'[w] = "complete" <=> answer[w] = "complete"
          BY DEF Answered, Of
        <4>2. CASE w # t
          BY <1>1, <4>2, Completes
        <4>3. CASE w = t
          <5>1. SUFFICES ASSUME answer'[t] = "complete", answer[t] # "complete" PROVE FALSE
            BY <1>1, <4>3, Completes
          <5>2. lease' = [lease EXCEPT ![Of(t)] = None]
            BY <1>1, <5>1, Completes
          <5>3. lease'[Of(u)] = None
            BY <1>0, <4>1, <4>3, <5>2
          <5> QED BY <5>3 DEF HoldsLease
        <4> QED BY <4>2, <4>3
      <3> QED BY <3>1, <3>4, <3>5
    <2> QED BY <2>1, <2>2
  <1>2. ASSUME NEW s \in Sessions, LeaseExpires(s) PROVE Answered(Of(u))' = turn'[u].since
    <2>1. turn' = turn /\ answer' = answer /\ lease' = [lease EXCEPT ![s].expired = TRUE]
          /\ lease[s] \in Lease
      BY <1>2 DEF LeaseExpires, Kept
    <2>2. HoldsLease(u, lease[Of(u)])
      BY <1>0, <1>2, <2>1 DEF HoldsLease, Lease, LeaseExpires
    <2> QED BY <2>1, <2>2 DEF AllAlone, Alone, Answered
  <1>3. CASE Crash
    BY <1>3, CrashShapes DEF Leased
  <1>4. CASE UNCHANGED <<turn, lease, answer>>
    BY <1>4 DEF AllAlone, Alone, Answered
  <1> QED
    BY <1>1, <1>2, <1>3, <1>4 DEF Next, RequestStep, Quotas, turns, vars

LEMMA AlwaysAlone == Spec => []AllAlone
  BY InitAlone, StepAlone, AlwaysShaped, AlwaysKept, PTL DEF Spec

(* Turns of one session are answered one after another (routes_agent.py,     *)
(* _acquire_turn and _finish_turn): whatever expires, is taken over, fails   *)
(* or crashes, a turn that stores its answer sees the answers it had when it *)
(* took its lease, and no other.                                             *)
THEOREM TurnsAnswerAlone == Spec => AnsweredAlone
  <1> DEFINE A == \A t \in Turns : answer'[t] = "complete" /\ answer[t] # "complete"
                                      => Answered(Of(t)) = turn[t].since
  <1>1. Shaped /\ Kept /\ AllAlone /\ [Next]_vars => [A]_vars
    <2> SUFFICES ASSUME Shaped, Kept, AllAlone, Next, NEW t \in Turns,
                        answer'[t] = "complete", answer[t] # "complete"
                 PROVE  Answered(Of(t)) = turn[t].since
      OBVIOUS
    <2>1. ASSUME NEW u \in Turns, RequestStep(u) PROVE Answered(Of(t)) = turn[t].since
      <3>1. t = u /\ At(t, "finish") /\ Owned(t)
        BY <2>1, Completes
      <3> QED BY <3>1 DEF AllAlone, Alone, Owned, At, Leased
    <2>2. CASE answer' = answer
      BY <2>2
    <2> QED BY <2>1, <2>2 DEF Next, RequestStep, LeaseExpires, Quotas, Crash, turns
  <1>2. Spec => [][A]_vars
    BY <1>1, AlwaysShaped, AlwaysKept, AlwaysAlone, PTL DEF Spec
  <1> QED BY <1>2 DEF AnsweredAlone

(* A lease that has not expired is ended by a step of its own turn only      *)
(* (routes_agent.py, _acquire_turn, _finish_turn and _release_turn).         *)
THEOREM LeasesKept == Spec => LeaseIsKept
  <1> DEFINE A == \A s \in Sessions :
          LET l == lease[s] IN
          l # None /\ ~l.expired /\ (lease'[s] = None \/ lease'[s].turn # l.turn)
          => turn'[l.turn] # turn[l.turn]
  <1>1. Shaped /\ Kept /\ [Next]_vars => [A]_vars
    <2> SUFFICES ASSUME Shaped, Kept, Next, NEW s \in Sessions,
                        lease[s] # None, ~lease[s].expired,
                        lease'[s] = None \/ lease'[s].turn # lease[s].turn
                 PROVE  turn'[lease[s].turn] # turn[lease[s].turn]
      OBVIOUS
    <2>0. lease[s] \in Lease /\ lease[s].turn \in Turns /\ lease \in [Sessions -> Lease \cup {None}]
      BY DEF Kept, Lease
    <2>1. ASSUME NEW t \in Turns, RequestStep(t)
          PROVE  turn'[lease[s].turn] # turn[lease[s].turn]
      <3>0. Of(t) \in Sessions
        BY DEF Of, Sessions
      <3>1. CASE UNCHANGED lease
        BY <3>1
      <3>2. CASE Take(t)
        <4>1. Of(t) # s
          BY <3>2 DEF Take, Takeable
        <4> QED BY <2>0, <3>0, <3>2, <4>1 DEF Take
      <3>3. CASE (Finish(t) \/ FinishFails(t)) /\ Store(t) /\ Stores(t)
        <4>1. Of(t) = s /\ Owned(t)
          BY <2>0, <3>0, <3>3 DEF Store
        <4>2. lease[s].turn = t
          BY <4>1 DEF Owned, HoldsLease
        <4>3. turn'[t] # turn[t]
          <5>1. turn[t] \in Turn /\ turn \in [Turns -> Turn]
            BY DEF Shaped
          <5>2. turn'[t].at # turn[t].at \/ turn'[t].outcome # turn[t].outcome
            BY <3>3, <5>1 DEF Finish, FinishFails, AfterFinish, Goto, At, Turn
          <5> QED BY <5>2
        <4> QED BY <4>2, <4>3
      <3>4. CASE (StreamEnds(t) \/ ResponseEnds(t)) /\ Cleans(t)
        <4>1. Of(t) = s /\ HoldsLease(t, lease[s])
          BY <2>0, <3>0, <3>4 DEF Cleans
        <4>2. turn[t] \in Turn /\ turn \in [Turns -> Turn]
          BY DEF Shaped
        <4>3. turn'[t].at # turn[t].at
          BY <3>4, <4>2 DEF StreamEnds, ResponseEnds, Over, NewTurn, At, Turn
        <4> QED BY <4>1, <4>3 DEF HoldsLease
      <3>5. CASE Renew(t)
        <4>1. lease'[s] = lease[s] \/ lease'[s] = [lease[s] EXCEPT !.expired = FALSE]
          BY <2>0, <3>0, <3>5 DEF Renew
        <4> QED BY <2>0, <4>1, NoLease DEF Lease
      <3> QED BY <2>1, <3>1, <3>2, <3>3, <3>4, <3>5, LeaseSteps
    <2>2. ASSUME NEW r \in Sessions, LeaseExpires(r) PROVE FALSE
      <3>1. lease'[s] = lease[s] \/ lease'[s] = [lease[s] EXCEPT !.expired = TRUE]
        BY <2>0, <2>2 DEF LeaseExpires
      <3>2. lease'[s] \in Lease /\ lease'[s].turn = lease[s].turn
        BY <2>0, <3>1 DEF Lease
      <3> QED BY <3>2, NoLease
    <2>3. CASE UNCHANGED lease
      BY <2>3
    <2> QED BY <2>1, <2>2, <2>3 DEF Next, RequestStep, Quotas, Crash, turns
  <1>2. Spec => [][A]_vars
    BY <1>1, AlwaysShaped, AlwaysKept, PTL DEF Spec
  <1> QED BY <1>2 DEF LeaseIsKept

-----------------------------------------------------------------------------
(* Bills and charges.                                                        *)

Unsent(r) == billed[r].last = 0 /\ billed[r].lost = 0
Requested(w, r) ==
    /\ w.open => resv[r] # None
    /\ w.at \in {"marked", "streaming"} => resv[r].started /\ resv[r].status # "reconciled"
    /\ w.at = "reserved" \/ (w.at = "settle" /\ ~w.started) => Unsent(r)
Unbilled(r) == resv[r] = None \/ ~resv[r].started => Unsent(r)
Covered(r) ==
    /\ billed[r].last <= Charge(r)
    /\ resv[r] # None /\ resv[r].status # "reconciled" => billed[r].lost <= Charge(r)
Billing ==
    /\ QuotaInv
    /\ billed \in [Resv -> Bill]
    /\ \A r \in Resv : Unbilled(r) /\ Covered(r)
    /\ \A t \in Turns : Requested(turn[t], Reservable(t))

(* A row, and what it charges.                                               *)
LEMMA RowType ==
    ASSUME QuotaInv, NEW r \in Resv
    PROVE  /\ resv \in [Resv -> Reservation \cup {None}] /\ Charge(r) \in Nat
           /\ resv[r] # None => resv[r] \in Reservation /\ resv[r].amount \in Nat
                                /\ resv[r].used \in Nat
           /\ IsReserved(r) => resv[r].used = 0 /\ Charge(r) = resv[r].amount
           /\ resv[r] # None /\ resv[r].status # "reconciled" => Charge(r) = resv[r].amount
  <1>1. resv \in [Resv -> Reservation \cup {None}]
    BY DEF QuotaInv, Balanced, QuotaTypeOK
  <1>2. resv[r] # None => resv[r] \in Reservation /\ resv[r].amount \in Nat
                          /\ resv[r].used \in Nat
    BY <1>1 DEF Reservation
  <1>3. Charge(r) \in Nat
    BY <1>2 DEF Charge
  <1> QED BY <1>1, <1>2, <1>3 DEF Charge, IsReserved, QuotaInv, Unused, Rows

(* A request that has a reservation has it under a number it may have.       *)
LEMMA ReservableInResv ==
    ASSUME Shaped, NEW t \in Turns, turn[t].open
    PROVE  Reservable(t) \in Resv
  <1>1. turn[t].call \in 1..MaxCalls
    BY TurnAssumption DEF Shaped, Turn, Local
  <1> QED BY <1>1, TurnAssumption DEF Reservable

(* The requests of other turns have other reservations.                      *)
LEMMA OtherReservable ==
    ASSUME Shaped, NEW t \in Turns, Changes(t), NEW u \in Turns \ {t}, NEW n
    PROVE  /\ Reservable(u)' = Reservable(u) /\ turn'[u] = turn[u]
           /\ Reservable(u) # <<t, n>>
  BY OthersKeep DEF Reservable

(* The rows and the bills are untouched; the request of t is no longer open, *)
(* or goes on with its reservation.                                          *)
LEMMA QuietBilling ==
    ASSUME Shaped, Billing, NEW t \in Turns, Changes(t), UNCHANGED <<quota, billed>>,
           turn'[t].open => Requested(turn'[t], Reservable(t)) /\ turn'[t].call = turn[t].call
    PROVE  Billing'
  <1>1. QuotaInv'
    BY DEF Billing, quota, QuotaInv, Balanced, QuotaTypeOK
  <1>2. ASSUME NEW u \in Turns PROVE Requested(turn[u], Reservable(u))'
    <2>1. CASE u # t
      BY <2>1, OtherReservable DEF Billing, Requested, Unsent, quota, Reservable
    <2>2. CASE u = t /\ turn'[t].open
      BY <2>2 DEF Requested, Unsent, quota, Reservable
    <2>3. CASE u = t /\ ~turn'[t].open
      BY <2>3 DEF Requested, Unsent, Changes, Local, InRequest
    <2> QED BY <2>1, <2>2, <2>3
  <1> QED BY <1>1, <1>2 DEF Billing, Unbilled, Unsent, Covered, Charge, quota

(* The rows or the bill of the request of t change: what is left is to see   *)
(* that row and that request.                                                *)
LEMMA OneRowBilling ==
    ASSUME Shaped, Billing, NEW t \in Turns, Changes(t), QuotaInv', NEW n, NEW r \in Resv,
           r = <<t, n>>, \A x \in Resv \ {r} : resv'[x] = resv[x] /\ billed'[x] = billed[x],
           billed' \in [Resv -> Bill], Unbilled(r)', Covered(r)',
           Requested(turn[t], Reservable(t))'
    PROVE  Billing'
  <1>1. ASSUME NEW u \in Turns \ {t} PROVE Requested(turn[u], Reservable(u))'
    <2>1. Reservable(u)' = Reservable(u) /\ turn'[u] = turn[u] /\ Reservable(u) # r
      BY OtherReservable
    <2>2. turn[u].open => Reservable(u) \in Resv
      BY ReservableInResv
    <2>3. Requested(turn[u], Reservable(u)) /\ Local(turn[u])
      BY DEF Billing, Shaped
    <2>4. CASE ~turn[u].open
      BY <2>1, <2>3, <2>4 DEF Requested, Unsent, Local, InRequest
    <2>5. CASE turn[u].open
      BY <2>1, <2>2, <2>3, <2>5 DEF Requested, Unsent
    <2> QED BY <2>4, <2>5
  <1>2. ASSUME NEW x \in Resv \ {r} PROVE Unbilled(x)' /\ Covered(x)'
    BY <1>2 DEF Billing, Unbilled, Unsent, Covered, Charge
  <1> QED BY <1>1, <1>2 DEF Billing

LEMMA ReserveBilling ==
    ASSUME Shaped, Billing, NEW t \in Turns, Changes(t), ReserveTokens(t) PROVE Billing'
  <1> DEFINE v == turn[t]
  <1>0. v \in Turn /\ turn \in [Turns -> Turn] /\ v.at = "running"
        /\ <<t, v.call + 1>> \in Resv
    <2>1. v \in Turn /\ turn \in [Turns -> Turn] /\ v.at = "running" /\ v.call < MaxCalls
      BY DEF Shaped, Local, ReserveTokens, At
    <2>2. v.call + 1 \in 1..MaxCalls
      BY <2>1, TurnAssumption DEF Turn
    <2> QED BY <2>1, <2>2, TurnAssumption
  <1>own. PICK r \in Resv : r = <<t, v.call + 1>>
    BY <1>0
  <1>1. PICK n \in Sizes, newMinute \in BOOLEAN :
          IF CanReserve(UserOf[t], n, newMinute)
          THEN /\ Reserve(r, UserOf[t], n, newMinute)
               /\ turn' = [turn EXCEPT ![t].at = "reserved", ![t].open = TRUE, ![t].call = @ + 1]
          ELSE /\ turn' = [turn EXCEPT ![t].at = "finish", ![t].outcome = "failed"]
               /\ UNCHANGED quota
    BY <1>own DEF ReserveTokens
  <1>2. billed' = billed
    BY DEF ReserveTokens
  <1>3. CASE ~CanReserve(UserOf[t], n, newMinute)
    <2>1. ~turn'[t].open
      BY <1>0, <1>1, <1>3 DEF Changes, Local, InRequest, Turn
    <2> QED BY <1>1, <1>2, <1>3, <2>1, QuietBilling
  <1>4. CASE CanReserve(UserOf[t], n, newMinute)
    <2>1. n \in Nat /\ UserOf[t] \in Users /\ Reserve(r, UserOf[t], n, newMinute)
      BY <1>1, <1>4, TurnAssumption
    <2>2. QuotaInv'
      BY <1>0, <2>1, ReserveBalanced DEF Billing
    <2>3. resv[r] = None /\ resv \in [Resv -> Reservation \cup {None}]
          /\ resv' = [resv EXCEPT ![r] = [status |-> "reserved", user |-> UserOf[t], day |-> today,
                   amount |-> n, used |-> 0, started |-> FALSE]]
      BY <1>0, <2>1, RowType DEF Reserve, Billing
    <2>4. /\ resv'[r] = [status |-> "reserved", user |-> UserOf[t], day |-> today,
                        amount |-> n, used |-> 0, started |-> FALSE]
          /\ \A x \in Resv \ {r} : resv'[x] = resv[x]
      BY <1>0, <2>3
    <2>5. Unsent(r)
      BY <1>0, <2>3 DEF Billing, Unbilled
    <2>6. resv'[r] # None
      <3>1. resv'[r] \in Reservation
        BY <2>1, <2>4, QuotaAssumption DEF Reservation, Billing, QuotaInv, Balanced, QuotaTypeOK
      <3> QED BY <3>1, NullAssumption
    <2>7. turn'[t].at = "reserved" /\ turn'[t].call = v.call + 1
      BY <1>0, <1>1, <1>4 DEF Turn
    <2>8. Reservable(t)' = r
      BY <1>own, <2>7 DEF Reservable
    <2>9. Unbilled(r)' /\ Covered(r)'
      BY <1>2, <2>1, <2>4, <2>5, <2>6 DEF Unbilled, Unsent, Covered, Charge
    <2>10. Requested(turn[t], Reservable(t))'
      BY <1>2, <2>5, <2>6, <2>7, <2>8 DEF Requested, Unsent
    <2>11. billed' \in [Resv -> Bill]
      BY <1>2 DEF Billing
    <2> QED BY <1>own, <1>2, <2>2, <2>4, <2>9, <2>10, <2>11, OneRowBilling
  <1> QED BY <1>3, <1>4

(* The row stays what it is, but for being settled.                          *)
Keeps(r) ==
    /\ resv'[r] = None <=> resv[r] = None
    /\ resv[r] # None =>
          /\ resv'[r].started = resv[r].started
          /\ resv'[r].status # "reconciled" => resv[r].status # "reconciled"

(* What marking, retaining and reconciling do to the row of the request.     *)
LEMMA MarkRow ==
    ASSUME QuotaInv, NEW r \in Resv, Mark(r)
    PROVE  /\ \A x \in Resv \ {r} : resv'[x] = resv[x]
           /\ resv[r] # None => resv'[r] # None
           /\ Charge(r)' = Charge(r)
           /\ IsReserved(r) => resv'[r].started /\ resv'[r].status = "reserved"
           /\ ~IsReserved(r) => resv'[r] = resv[r]
  <1>1. CASE ~IsReserved(r)
    BY <1>1 DEF Mark, Charge
  <1>2. CASE IsReserved(r)
    <2>1. resv[r] \in Reservation /\ resv' = [resv EXCEPT ![r].started = TRUE]
      BY <1>2, RowType DEF Mark, IsReserved
    <2>2. resv'[r] = [resv[r] EXCEPT !.started = TRUE] /\ \A x \in Resv \ {r} : resv'[x] = resv[x]
      BY <2>1, RowType
    <2>3. [resv[r] EXCEPT !.started = TRUE] \in Reservation
      BY <2>1 DEF Reservation
    <2>4. resv'[r].started /\ resv'[r].status = "reserved" /\ resv'[r].amount = resv[r].amount
      BY <1>2, <2>1, <2>2 DEF Reservation, IsReserved
    <2>5. resv'[r] # None
      BY <2>2, <2>3, NullAssumption
    <2> QED BY <1>2, <2>2, <2>4, <2>5 DEF Charge, IsReserved
  <1> QED BY <1>1, <1>2

LEMMA RetainRow ==
    ASSUME QuotaInv, NEW r \in Resv, Retain(r)
    PROVE  /\ \A x \in Resv \ {r} : resv'[x] = resv[x]
           /\ Charge(r)' = Charge(r)
           /\ Keeps(r)
  <1>1. CASE ~IsReserved(r)
    BY <1>1 DEF Retain, Charge, Keeps
  <1>2. CASE IsReserved(r)
    <2>1. resv[r] \in Reservation /\ resv' = [resv EXCEPT ![r].status = "retained"]
      BY <1>2, RowType DEF Retain, IsReserved
    <2>2. resv'[r] = [resv[r] EXCEPT !.status = "retained"]
          /\ \A x \in Resv \ {r} : resv'[x] = resv[x]
      BY <2>1, RowType
    <2>3. [resv[r] EXCEPT !.status = "retained"] \in Reservation
      BY <2>1 DEF Reservation
    <2>4. /\ resv'[r].started = resv[r].started /\ resv'[r].status = "retained"
          /\ resv'[r].amount = resv[r].amount
      BY <1>2, <2>1, <2>2 DEF Reservation, IsReserved
    <2>5. resv'[r] # None
      BY <2>2, <2>3, NullAssumption
    <2> QED BY <1>2, <2>2, <2>4, <2>5 DEF Charge, IsReserved, Keeps
  <1> QED BY <1>1, <1>2

LEMMA ReconcileRow ==
    ASSUME QuotaInv, NEW r \in Resv, NEW n \in Nat, Reconcile(r, n)
    PROVE  /\ \A x \in Resv \ {r} : resv'[x] = resv[x]
           /\ IsReserved(r) => Charge(r)' = n /\ resv'[r].status = "reconciled"
           /\ ~IsReserved(r) => Charge(r)' = Charge(r)
           /\ Keeps(r)
  <1>1. CASE ~IsReserved(r)
    BY <1>1 DEF Reconcile, Unsettled, Charge, Keeps
  <1>2. CASE IsReserved(r)
    <2>1. resv[r] \in Reservation
          /\ resv' = [resv EXCEPT ![r].status = "reconciled", ![r].used = n]
      BY <1>2, RowType DEF Reconcile, Unsettled, IsReserved
    <2>2. resv'[r] = [resv[r] EXCEPT !.status = "reconciled", !.used = n]
          /\ \A x \in Resv \ {r} : resv'[x] = resv[x]
      BY <2>1, RowType
    <2>3. [resv[r] EXCEPT !.status = "reconciled", !.used = n] \in Reservation
      BY <2>1 DEF Reservation
    <2>4. /\ resv'[r].started = resv[r].started /\ resv'[r].status = "reconciled"
          /\ resv'[r].used = n
      BY ZenonT(60), <1>2, <2>1, <2>2 DEF Reservation, IsReserved
    <2>5. resv'[r] # None
      BY <2>2, <2>3, NullAssumption
    <2> QED BY <1>2, <2>2, <2>4, <2>5 DEF Charge, IsReserved, Keeps
  <1> QED BY <1>1, <1>2

LEMMA MarkBilling ==
    ASSUME Shaped, Billing, NEW t \in Turns, Changes(t), MarkProviderStarted(t) \/ MarkUnheard(t)
    PROVE  Billing'
  <1> DEFINE v == turn[t]
  <1>0. v \in Turn /\ turn \in [Turns -> Turn] /\ v.at = "reserved" /\ v.open
    BY DEF Shaped, Local, InRequest, MarkProviderStarted, MarkUnheard, At
  <1>1. PICK r \in Resv : r = Reservable(t)
    BY <1>0, ReservableInResv
  <1>2. Mark(r) /\ billed' = billed
    BY <1>1 DEF MarkProviderStarted, MarkUnheard
  <1>3. QuotaInv' /\ QuotaInv
    BY <1>1, <1>2, MarkBalanced DEF Billing
  <1>4. resv[r] # None /\ Unsent(r)
    BY <1>0, <1>1 DEF Billing, Requested, Unsent
  <1>5. turn'[t].call = v.call
        /\ (turn'[t].at = "settle" \/ (turn'[t].at = "marked" /\ IsReserved(r)))
    <2>1. CASE MarkProviderStarted(t)
      BY <1>0, <1>1, <2>1 DEF MarkProviderStarted, MarkerWritten, Turn
    <2>2. CASE MarkUnheard(t)
      BY <1>0, <2>2 DEF MarkUnheard, Turn
    <2> QED BY <2>1, <2>2
  <1>6. Reservable(t)' = r
    BY <1>1, <1>5 DEF Reservable
  <1>7. r = <<t, v.call>>
    BY <1>1 DEF Reservable
  <1>8. /\ \A x \in Resv \ {r} : resv'[x] = resv[x]
        /\ resv'[r] # None /\ Charge(r)' = Charge(r)
        /\ IsReserved(r) => resv'[r].started /\ resv'[r].status = "reserved"
    BY <1>1, <1>2, <1>3, <1>4, MarkRow
  <1>9. Requested(turn[t], Reservable(t))'
    BY <1>2, <1>4, <1>5, <1>6, <1>8 DEF Requested, Unsent
  <1>10. Unbilled(r)' /\ Covered(r)' /\ billed' \in [Resv -> Bill]
    BY <1>1, <1>2, <1>4, <1>8 DEF Unbilled, Unsent, Covered, Billing
  <1> QED BY <1>1, <1>2, <1>3, <1>7, <1>8, <1>9, <1>10, OneRowBilling

LEMMA CreateBilling ==
    ASSUME Shaped, Billing, NEW t \in Turns, Changes(t), Create(t) PROVE Billing'
  <1> DEFINE v == turn[t]
  <1>0. v \in Turn /\ turn \in [Turns -> Turn] /\ v.at = "marked" /\ v.open
    BY DEF Shaped, Local, InRequest, Create, At
  <1>1. PICK r \in Resv : r = Reservable(t)
    BY <1>0, ReservableInResv
  <1>2. PICK n \in 0..resv[r].amount : billed' = [billed EXCEPT ![r].last = n]
    BY <1>1 DEF Create, Bills
  <1>3. QuotaInv' /\ QuotaInv /\ resv' = resv
    BY DEF Create, quota, Billing, QuotaInv, Balanced, QuotaTypeOK
  <1>4. resv[r] # None /\ resv[r].started /\ resv[r].status # "reconciled"
    BY <1>0, <1>1 DEF Billing, Requested, Unsent
  <1>5. turn'[t].at = "streaming" /\ turn'[t].call = v.call
    BY <1>0 DEF Create, Goto, Turn
  <1>6. Reservable(t)' = r
    BY <1>1, <1>5 DEF Reservable
  <1>7. r = <<t, v.call>>
    BY <1>1 DEF Reservable
  <1>8. resv[r].amount \in Nat /\ Charge(r) = resv[r].amount
    BY <1>1, <1>3, <1>4, RowType
  <1>9. n \in Nat /\ n <= Charge(r)
    BY <1>8
  <1>10. billed' \in [Resv -> Bill] /\ billed'[r].last = n /\ billed'[r].lost = billed[r].lost
         /\ \A x \in Resv \ {r} : billed'[x] = billed[x]
    <2>1. billed \in [Resv -> Bill] /\ billed[r] \in Bill
      BY <1>1 DEF Billing
    <2>2. billed'[r] = [billed[r] EXCEPT !.last = n]
          /\ \A x \in Resv \ {r} : billed'[x] = billed[x]
      BY <1>1, <1>2, <2>1
    <2>3. billed'[r] \in Bill /\ billed'[r].last = n /\ billed'[r].lost = billed[r].lost
      BY <1>9, <2>1, <2>2 DEF Bill
    <2> QED BY <1>1, <1>2, <2>1, <2>2, <2>3
  <1>11. Requested(turn[t], Reservable(t))'
    BY <1>3, <1>4, <1>5, <1>6 DEF Requested, Unsent
  <1>12. Unbilled(r)' /\ Covered(r)'
    <2>1. Covered(r)
      BY <1>1 DEF Billing
    <2> QED BY <1>3, <1>4, <1>9, <1>10, <2>1 DEF Unbilled, Covered, Charge
  <1> QED BY <1>1, <1>3, <1>7, <1>10, <1>11, <1>12, OneRowBilling

(* The attempt the client gives up on.                                       *)
LEMMA LostBilling ==
    ASSUME Shaped, Billing, NEW t \in Turns, Changes(t), AttemptLost(t) PROVE Billing'
  <1> DEFINE v == turn[t]
  <1>0. v \in Turn /\ turn \in [Turns -> Turn] /\ v.at = "marked" /\ v.open
    BY DEF Shaped, Local, InRequest, AttemptLost, At
  <1>1. PICK r \in Resv : r = Reservable(t)
    BY <1>0, ReservableInResv
  <1>2. PICK n \in 0..resv[r].amount : billed' = [billed EXCEPT ![r].lost = n]
    BY <1>1 DEF AttemptLost, Bills
  <1>3. QuotaInv' /\ QuotaInv /\ resv' = resv /\ turn' = turn
    BY DEF AttemptLost, quota, Billing, QuotaInv, Balanced, QuotaTypeOK
  <1>4. resv[r] # None /\ resv[r].started /\ resv[r].status # "reconciled"
    BY <1>0, <1>1 DEF Billing, Requested
  <1>5. Reservable(t)' = r /\ r = <<t, v.call>>
    BY <1>1, <1>3 DEF Reservable
  <1>6. resv[r].amount \in Nat /\ Charge(r) = resv[r].amount
    BY <1>1, <1>3, <1>4, RowType
  <1>7. n \in Nat /\ n <= Charge(r)
    BY <1>6
  <1>8. billed' \in [Resv -> Bill] /\ billed'[r].lost = n /\ billed'[r].last = billed[r].last
        /\ \A x \in Resv \ {r} : billed'[x] = billed[x]
    <2>1. billed \in [Resv -> Bill] /\ billed[r] \in Bill
      BY <1>1 DEF Billing
    <2>2. billed'[r] = [billed[r] EXCEPT !.lost = n]
          /\ \A x \in Resv \ {r} : billed'[x] = billed[x]
      BY <1>1, <1>2, <2>1
    <2>3. billed'[r] \in Bill /\ billed'[r].lost = n /\ billed'[r].last = billed[r].last
      BY <1>7, <2>1, <2>2 DEF Bill
    <2> QED BY <1>1, <1>2, <2>1, <2>2, <2>3
  <1>9. Requested(turn[t], Reservable(t))'
    BY <1>0, <1>3, <1>4, <1>5 DEF Requested
  <1>10. Unbilled(r)' /\ Covered(r)'
    <2>1. Covered(r)
      BY <1>1 DEF Billing
    <2> QED BY <1>3, <1>4, <1>7, <1>8, <2>1 DEF Unbilled, Covered, Charge
  <1> QED BY <1>1, <1>3, <1>5, <1>8, <1>9, <1>10, OneRowBilling

LEMMA SettleBilling ==
    ASSUME Shaped, Billing, NEW t \in Turns, Changes(t), SettleTurn(t) PROVE Billing'
  <1> DEFINE v == turn[t]
  <1>0. v \in Turn /\ turn \in [Turns -> Turn] /\ v.at = "settle" /\ v.open
    BY DEF Shaped, Local, InRequest, SettleTurn, At
  <1>1. PICK r \in Resv : r = Reservable(t)
    BY <1>0, ReservableInResv
  <1>2. billed' = billed /\ SettleRequest(t) /\ QuotaInv
    BY DEF SettleTurn, Billing
  <1>3. ~turn'[t].open
    BY <1>0 DEF SettleTurn, Settled, Turn
  <1>4. Requested(turn[t], Reservable(t))'
    BY <1>3 DEF Requested, Unsent, Changes, Local, InRequest
  <1>5. r = <<t, v.call>>
    BY <1>1 DEF Reservable
  <1>6. ASSUME NEW n \in Nat, n = billed[r].last, Reconcile(r, n)
        PROVE  Billing'
    <2>0. billed[r].last \in Nat /\ billed[r].last <= Charge(r)
      BY <1>1 DEF Billing, Bill, Covered
    <2>1. IsReserved(r) => n <= resv[r].amount
      BY <1>2, <1>6, <2>0, RowType
    <2>2. QuotaInv'
      BY <1>2, <1>6, <2>1, ReconcileBalanced
    <2>3. /\ \A x \in Resv \ {r} : resv'[x] = resv[x]
          /\ IsReserved(r) => Charge(r)' = n /\ resv'[r].status = "reconciled"
          /\ ~IsReserved(r) => Charge(r)' = Charge(r)
          /\ Keeps(r)
      BY <1>2, <1>6, ReconcileRow
    <2>4. Unbilled(r) /\ Covered(r) /\ billed' \in [Resv -> Bill]
      BY <1>1, <1>2 DEF Billing
    <2>5. Unbilled(r)'
      BY <1>2, <2>3, <2>4 DEF Unbilled, Unsent, Keeps
    <2>6. Covered(r)'
      <3>1. CASE IsReserved(r)
        BY <1>2, <1>6, <2>0, <2>3, <3>1 DEF Covered
      <3>2. CASE ~IsReserved(r)
        BY <1>2, <2>3, <2>4, <3>2 DEF Covered, Keeps
      <3> QED BY <3>1, <3>2
    <2> QED BY <1>1, <1>2, <1>4, <1>5, <2>2, <2>3, <2>4, <2>5, <2>6, OneRowBilling
  <1>7. CASE Retain(r)
    <2>1. QuotaInv'
      BY <1>2, <1>7, RetainBalanced
    <2>2. /\ \A x \in Resv \ {r} : resv'[x] = resv[x]
          /\ Charge(r)' = Charge(r)
          /\ Keeps(r)
      BY <1>2, <1>7, RetainRow
    <2>3. Unbilled(r) /\ Covered(r) /\ billed' \in [Resv -> Bill]
      BY <1>1, <1>2 DEF Billing
    <2>4. Unbilled(r)'
      BY <1>2, <2>2, <2>3 DEF Unbilled, Unsent, Keeps
    <2>5. Covered(r)'
      BY <1>2, <2>2, <2>3 DEF Covered, Keeps
    <2> QED BY <1>1, <1>2, <1>4, <1>5, <2>1, <2>2, <2>3, <2>4, <2>5, OneRowBilling
  <1>8. CASE v.known
    <2>1. Reconcile(r, billed[r].last) /\ billed[r].last \in Nat
      BY <1>1, <1>2, <1>8 DEF SettleRequest, Billing, Bill
    <2> QED BY <1>6, <2>1
  <1>9. CASE ~v.known /\ v.started
    BY <1>1, <1>2, <1>7, <1>9 DEF SettleRequest
  <1>10. CASE ~v.known /\ ~v.started
    <2>1. Reconcile(r, 0) /\ billed[r].last = 0
      BY <1>0, <1>1, <1>2, <1>10 DEF SettleRequest, Billing, Requested, Unsent
    <2> QED BY <1>6, <2>1
  <1> QED BY <1>8, <1>9, <1>10

LEMMA SweepBilling ==
    ASSUME Shaped, Billing, Sweep, UNCHANGED turns PROVE Billing'
  <1>1. PICK S \in SUBSET Stale : SweepRows(S)
    BY DEF Sweep
  <1>2. QuotaInv' /\ QuotaInv
    BY <1>1, SweepBalanced DEF Billing
  <1>3. /\ Rows(resv') = Rows(resv)
        /\ \A x \in Rows(resv) :
              /\ resv'[x].amount = resv[x].amount /\ resv'[x].used = resv[x].used
              /\ resv'[x].started = resv[x].started
              /\ resv'[x].status # "reconciled"
                 <=> resv[x].status # "reconciled" /\ (x \notin S \/ resv[x].started)
    BY <1>1, <1>2, SweptRows DEF Released
  <1>4. turn' = turn /\ billed' = billed
    BY DEF turns
  <1>5. ASSUME NEW x \in Resv PROVE Unbilled(x)' /\ Covered(x)'
    <2>0. Unbilled(x) /\ Covered(x) /\ billed[x] \in Bill
      BY DEF Billing
    <2>1. CASE x \notin Rows(resv)
      <3>1. resv[x] = None /\ resv'[x] = None
        BY <1>3, <2>1 DEF Rows
      <3> QED BY <1>4, <2>0, <3>1 DEF Unbilled, Unsent, Covered, Charge
    <2>2. CASE x \in Rows(resv)
      <3>1. resv[x] # None /\ resv'[x] # None
        BY <1>3, <2>2 DEF Rows
      <3>2. Unbilled(x)'
        BY <1>3, <1>4, <2>0, <2>2, <3>1 DEF Unbilled, Unsent
      <3>3. CASE resv'[x].status # "reconciled" <=> resv[x].status # "reconciled"
        BY <1>3, <1>4, <2>0, <2>2, <3>1, <3>2, <3>3 DEF Charge, Covered
      <3>4. CASE resv'[x].status = "reconciled" /\ ~resv[x].started
        <4>1. Unsent(x) /\ resv[x].used \in Nat
          BY <1>2, <2>0, <3>1, <3>4, RowType DEF Unbilled, Unsent, Covered
        <4> QED BY <1>3, <1>4, <2>2, <3>1, <3>2, <3>4, <4>1 DEF Charge, Unsent, Covered
      <3> QED BY <1>3, <2>2, <3>3, <3>4
    <2> QED BY <2>1, <2>2
  <1>6. ASSUME NEW t \in Turns PROVE Requested(turn[t], Reservable(t))'
    <2>0. PICK r : r = Reservable(t)
      OBVIOUS
    <2>1. Reservable(t)' = r
      BY <1>4, <2>0 DEF Reservable
    <2>2. Requested(turn[t], r) /\ Local(turn[t])
      BY <2>0 DEF Billing, Shaped
    <2>3. turn[t].open => r \in Rows(resv) /\ r \in Rows(resv')
      BY <1>3, <2>0, <2>2, ReservableInResv DEF Rows, Requested, Unsent
    <2> QED BY <1>3, <1>4, <2>1, <2>2, <2>3 DEF Requested, Unsent, Local, InRequest, Rows
  <1> QED BY <1>2, <1>4, <1>5, <1>6 DEF Billing

(* The other actions leave rows and bills alone, and go on with the          *)
(* reservation they have or have none any more.                              *)
LEMMA GoesOn ==
    ASSUME Shaped, Billing, NEW t \in Turns, Changes(t), Completed(t) \/ Stop(t)
    PROVE  Billing'
  <1> DEFINE v == turn[t]
  <1>0. v \in Turn /\ turn \in [Turns -> Turn] /\ Local(v) /\ Requested(v, Reservable(t))
    BY DEF Shaped, Billing
  <1>1. UNCHANGED <<quota, billed>>
    BY DEF Completed, Stop
  <1>2. CASE Completed(t)
    <2>1. v.at = "streaming" /\ turn'[t].call = v.call /\ turn'[t].at = "settle"
          /\ turn'[t].open = v.open /\ turn'[t].started = v.started
      <3>1. PICK known \in BOOLEAN :
               turn' = [turn EXCEPT ![t].at = "settle", ![t].known = known]
        BY <1>2 DEF Completed
      <3> QED BY <1>0, <1>2, <3>1 DEF Completed, At, Turn
    <2>2. Requested(turn'[t], Reservable(t))
      BY <1>0, <2>1 DEF Requested, Unsent, Local
    <2> QED BY <1>1, <2>1, <2>2, QuietBilling
  <1>3. CASE Stop(t)
    <2>1. /\ v.at \in {"running", "reserved", "marked", "streaming", "replied"}
          /\ turn'[t].call = v.call
          /\ turn'[t].at = IF v.open THEN "settle" ELSE "finish"
          /\ turn'[t].open = v.open /\ turn'[t].started = v.started
      BY <1>0, <1>3 DEF Stop, Turn
    <2>2. Requested(turn'[t], Reservable(t))
      BY <1>0, <2>1 DEF Requested, Unsent, Local, InRequest
    <2> QED BY <1>1, <2>1, <2>2, QuietBilling
  <1> QED BY <1>2, <1>3

LEMMA NoneOpen ==
    ASSUME Shaped, Billing, NEW t \in Turns, Changes(t),
           \/ AcquirePermit(t) \/ GetReplayItems(t) \/ AcquireTurn(t) \/ PrepareFails(t)
           \/ PrepareUnheard(t) \/ PrepareCancelled(t) \/ NeverStreams(t) \/ SettleFails(t)
           \/ CallTools(t) \/ Done(t) \/ Finish(t) \/ FinishFails(t) \/ StreamEnds(t)
           \/ ResponseEnds(t) \/ ReleasePermit(t)
    PROVE  Billing'
  <1>0. turn \in [Turns -> Turn] /\ turn[t] \in Turn /\ Local(turn[t]) /\ Local(turn'[t])
    BY DEF Shaped, Changes
  <1>1. UNCHANGED <<quota, billed>>
    BY DEF AcquirePermit, GetReplayItems, AcquireTurn, PrepareFails, PrepareUnheard,
           PrepareCancelled, Take, NeverStreams, SettleFails, CallTools, Done, Finish,
           FinishFails, StreamEnds, ResponseEnds, ReleasePermit
  <1>2. ~turn'[t].open
    <2>1. CASE Over(t)
      BY <1>0, <2>1 DEF Over, NewTurn
    <2>2. CASE \/ AcquirePermit(t) \/ GetReplayItems(t) \/ AcquireTurn(t) \/ PrepareCancelled(t)
               \/ NeverStreams(t) \/ CallTools(t) \/ Done(t)
      <3>1. ~turn[t].open
        BY <1>0, <2>2 DEF AcquirePermit, GetReplayItems, AcquireTurn, Take, PrepareCancelled,
           NeverStreams, CallTools, Done, At, Local, InRequest
      <3>2. turn'[t].open = turn[t].open \/ Over(t)
        <4>1. CASE AcquirePermit(t) \/ GetReplayItems(t) \/ AcquireTurn(t)
          <5>1. CASE AcquirePermit(t)
            BY <1>0, <5>1 DEF AcquirePermit, Goto, Turn
          <5>2. CASE GetReplayItems(t)
            BY <1>0, <5>2 DEF GetReplayItems, Turn
          <5>3. CASE AcquireTurn(t)
            BY <1>0, <5>3 DEF AcquireTurn, Turn
          <5> QED BY <4>1, <5>1, <5>2, <5>3
        <4>2. CASE PrepareCancelled(t) \/ NeverStreams(t)
          <5>1. CASE PrepareCancelled(t)
            BY <1>0, <5>1 DEF PrepareCancelled, Turn
          <5>2. CASE NeverStreams(t)
            BY <1>0, <5>2 DEF NeverStreams, Goto, Turn
          <5> QED BY <4>2, <5>1, <5>2
        <4>3. CASE CallTools(t) \/ Done(t)
          <5>1. CASE CallTools(t)
            BY <1>0, <5>1 DEF CallTools, Turn
          <5>2. CASE Done(t)
            BY <1>0, <5>2 DEF Done, Turn
          <5> QED BY <4>3, <5>1, <5>2
        <4> QED BY <2>2, <4>1, <4>2, <4>3
      <3> QED BY <2>1, <3>1, <3>2
    <2>3. CASE SettleFails(t)
      BY <1>0, <2>3 DEF SettleFails, Settled, Turn
    <2>4. CASE Finish(t) \/ FinishFails(t)
      <3>1. ~turn[t].open
        BY <1>0, <2>4 DEF Finish, FinishFails, At, Local, InRequest
      <3>2. turn'[t].open = turn[t].open
        BY <1>0, <2>4 DEF Finish, FinishFails, AfterFinish, Goto, Turn
      <3> QED BY <3>1, <3>2
    <2>5. CASE StreamEnds(t)
      BY <1>0, <2>5 DEF StreamEnds, At, Local, InRequest, Turn
    <2> QED BY <2>1, <2>2, <2>3, <2>4, <2>5 DEF PrepareFails, PrepareUnheard, ResponseEnds,
            ReleasePermit
  <1> QED BY <1>1, <1>2, QuietBilling

LEMMA HeartbeatBilling ==
    ASSUME Shaped, Billing, NEW t \in Turns, Changes(t), Renew(t) \/ LoseLease(t)
    PROVE  Billing'
  <1>0. turn \in [Turns -> Turn] /\ turn[t] \in Turn /\ Requested(turn[t], Reservable(t))
        /\ UNCHANGED <<quota, billed>>
    BY DEF Shaped, Billing, Renew, LoseLease
  <1>1. /\ turn'[t].at = turn[t].at /\ turn'[t].call = turn[t].call
        /\ turn'[t].open = turn[t].open /\ turn'[t].started = turn[t].started
    BY <1>0 DEF Renew, LoseLease, Turn
  <1> QED BY <1>0, <1>1, QuietBilling DEF Requested, Unsent

LEMMA StepBilling == Shaped /\ Billing /\ [Next]_vars => Billing'
  <1> SUFFICES ASSUME Shaped, Billing, [Next]_vars PROVE Billing'
    OBVIOUS
  <1>1. ASSUME NEW t \in Turns, RequestStep(t) PROVE Billing'
    <2>0. Changes(t)
      BY <1>1, StepChanges
    <2>1. CASE ReserveTokens(t)
      BY <2>0, <2>1, ReserveBilling
    <2>2. CASE MarkProviderStarted(t) \/ MarkUnheard(t)
      BY <2>0, <2>2, MarkBilling
    <2>3. CASE Create(t)
      BY <2>0, <2>3, CreateBilling
    <2>7. CASE AttemptLost(t)
      BY <2>0, <2>7, LostBilling
    <2>4. CASE SettleTurn(t)
      BY <2>0, <2>4, SettleBilling
    <2>5. CASE Completed(t) \/ Stop(t)
      BY <2>0, <2>5, GoesOn
    <2>6. CASE Renew(t) \/ LoseLease(t)
      BY <2>0, <2>6, HeartbeatBilling
    <2> QED BY <1>1, <2>0, <2>1, <2>2, <2>3, <2>4, <2>5, <2>6, <2>7, NoneOpen
           DEF RequestStep, TurnStep
  <1>2. CASE Quotas
    <2>1. CASE Sweep
      BY <1>2, <2>1, SweepBilling DEF Quotas
    <2>2. CASE NewDay
      <3>1. QuotaInv'
        BY <2>2, NewDayBalanced DEF Billing
      <3> QED BY <1>2, <2>2, <3>1
              DEF Quotas, NewDay, turns, Billing, Unbilled, Unsent, Covered, Charge, Requested, Reservable
    <2> QED BY <1>2, <2>1, <2>2 DEF Quotas
  <1>3. CASE Crash
    <2>1. \A t \in Turns : turn'[t].at \in {"idle", "done"} /\ ~turn'[t].open
      BY <1>3, CrashShapes
    <2>2. UNCHANGED <<quota, billed>>
      BY <1>3 DEF Crash
    <2>3. \A t \in Turns : Requested(turn[t], Reservable(t))'
      BY <2>1 DEF Requested, Unsent
    <2>4. QuotaInv'
      BY <2>2 DEF Billing, quota, QuotaInv, Balanced, QuotaTypeOK
    <2> QED BY <2>2, <2>3, <2>4 DEF Billing, Unbilled, Unsent, Covered, Charge, quota
  <1>4. CASE UNCHANGED <<turn, quota, billed>>
    BY <1>4 DEF Billing, quota, QuotaInv, Balanced, QuotaTypeOK, Unbilled, Unsent, Covered, Charge, Requested,
                Reservable
  <1> QED
    BY <1>1, <1>2, <1>3, <1>4 DEF Next, RequestStep, LeaseExpires, turns, vars

LEMMA InitBilling == Init => Billing
  <1> SUFFICES ASSUME Init PROVE Billing
    OBVIOUS
  <1>1. QuotaInv
    BY QuotaInitBalanced DEF Init
  <1>2. billed \in [Resv -> Bill] /\ \A r \in Resv : resv[r] = None /\ Unsent(r)
    BY DEF Init, QuotaInit, Bill, Unsent
  <1>3. \A t \in Turns : turn[t].at = "idle" /\ ~turn[t].open
    BY DEF Init, NewTurn
  <1> QED BY <1>1, <1>2, <1>3 DEF Billing, Unbilled, Unsent, Covered, Charge, Requested, Init

LEMMA AlwaysBilling == Spec => []Billing
  BY InitBilling, StepBilling, AlwaysShaped, PTL DEF Spec

(* The books say what the reservations say, and nobody is charged past a cap *)
(* (quotas.py: reserve, reconcile, retain and sweep), for any number of      *)
(* users, days, requests and tokens.                                         *)
THEOREM BooksAlwaysBalance == Spec => []BooksBalance
  <1>1. Billing => BooksBalance
    BY BalancedBooks DEF Billing, QuotaInv
  <1> QED BY <1>1, AlwaysBilling, PTL

(* What the provider may have charged for the last attempt of a request is   *)
(* charged, and so is an attempt given up on while its reservation stands    *)
(* (quotas.py and agent.py): whoever settles it, whenever the process dies.  *)
THEOREM BillsAlwaysCharged == Spec => []ChargesCoverBills
  <1>1. Billing => ChargesCoverBills
    <2> SUFFICES ASSUME Billing, NEW r \in Resv
                 PROVE  /\ billed[r].last <= Charge(r)
                        /\ billed[r].lost > 0 =>
                              /\ resv[r] # None /\ resv[r].started
                              /\ resv[r].status # "reconciled" => billed[r].lost <= Charge(r)
      BY DEF ChargesCoverBills
    <2>1. Unbilled(r) /\ Covered(r)
      BY DEF Billing
    <2> QED BY <2>1 DEF Unbilled, Unsent, Covered
  <1> QED BY <1>1, AlwaysBilling, PTL

-----------------------------------------------------------------------------
(* Permits.                                                                  *)

Working(w) == w.at # "idle" /\ w.at # "done" /\ ~w.cleaned
Permitted ==
    /\ permits \in Nat /\ IsFiniteSet(AtWork)
    /\ permits + Cardinality(AtWork) = MaxTurns

LEMMA WorkingTurns == AtWork = {t \in Turns : Working(turn[t])}
  BY DEF AtWork, Working, At

(* What the other requests do is not known to change who is at work.         *)
LEMMA OthersWork ==
    ASSUME Shaped, NEW t \in Turns, Changes(t)
    PROVE  /\ AtWork' \ {t} = AtWork \ {t}
           /\ t \in AtWork' <=> Working(turn'[t])
           /\ t \in AtWork <=> Working(turn[t])
  <1>1. AtWork' = {u \in Turns : Working(turn'[u])} /\ AtWork = {u \in Turns : Working(turn[u])}
    BY DEF AtWork, Working, At
  <1>2. \A u \in Turns \ {t} : turn'[u] = turn[u]
    BY OthersKeep
  <1> QED BY <1>1, <1>2

(* A request that works on, one that begins, and one that ends.              *)
LEMMA WorksOn ==
    ASSUME Shaped, Permitted, NEW t \in Turns, Changes(t), permits' = permits,
           Working(turn'[t]) <=> Working(turn[t])
    PROVE  Permitted'
  <1>1. AtWork' = AtWork
    BY OthersWork
  <1> QED BY <1>1 DEF Permitted

LEMMA WorkBegins ==
    ASSUME Shaped, Permitted, NEW t \in Turns, Changes(t), permits > 0, permits' = permits - 1,
           Working(turn'[t]), ~Working(turn[t])
    PROVE  Permitted'
  <1>1. AtWork' = AtWork \cup {t} /\ t \notin AtWork
    BY OthersWork
  <1>2. IsFiniteSet(AtWork') /\ Cardinality(AtWork') = Cardinality(AtWork) + 1
    BY <1>1, FS_AddElement DEF Permitted
  <1>3. Cardinality(AtWork) \in Nat
    BY FS_CardinalityType DEF Permitted
  <1> QED BY <1>2, <1>3, TurnAssumption DEF Permitted

LEMMA WorkEnds ==
    ASSUME Shaped, Permitted, NEW t \in Turns, Changes(t), permits' = permits + 1,
           ~Working(turn'[t]), Working(turn[t])
    PROVE  Permitted'
  <1>1. AtWork' = AtWork \ {t} /\ t \in AtWork
    BY OthersWork
  <1>2. IsFiniteSet(AtWork') /\ Cardinality(AtWork') = Cardinality(AtWork) - 1
    BY <1>1, FS_RemoveElement DEF Permitted
  <1>3. Cardinality(AtWork) \in Nat
    BY FS_CardinalityType DEF Permitted
  <1> QED BY <1>2, <1>3, TurnAssumption DEF Permitted

(* The middle of a request.                                                  *)
LEMMA MiddleWorksOn ==
    ASSUME Shaped, NEW t \in Turns, Changes(t),
           \/ GetReplayItems(t) \/ AcquireTurn(t) \/ PrepareCancelled(t) \/ NeverStreams(t)
           \/ ReserveTokens(t) \/ MarkProviderStarted(t) \/ MarkUnheard(t) \/ Create(t)
           \/ AttemptLost(t)
           \/ Completed(t) \/ Stop(t) \/ SettleTurn(t) \/ SettleFails(t) \/ CallTools(t) \/ Done(t)
           \/ Finish(t) \/ FinishFails(t) \/ Renew(t) \/ LoseLease(t)
    PROVE  permits' = permits /\ (Working(turn'[t]) <=> Working(turn[t]))
  <1> DEFINE v == turn[t]
  <1>0. v \in Turn /\ turn \in [Turns -> Turn] /\ Local(v)
    BY DEF Shaped
  <1>1. permits' = permits
    BY DEF GetReplayItems, AcquireTurn, PrepareCancelled, NeverStreams, ReserveTokens,
       MarkProviderStarted, MarkUnheard, AttemptLost, Create, Completed, Stop, SettleTurn,
       SettleFails, CallTools, Done, Finish, FinishFails, Renew, LoseLease
  <1>2. v.at \notin {"idle", "done", "ended"} /\ ~v.cleaned
    <2>1. v.at \in {"permit", "replay", "compensate"} \cup Leased
      BY DEF GetReplayItems, AcquireTurn, PrepareCancelled, Take, NeverStreams, ReserveTokens,
         MarkProviderStarted, MarkUnheard, AttemptLost, Create, Completed, Stop, SettleTurn,
         SettleFails, CallTools, Done, Finish, FinishFails, Renew, LoseLease, At, Leased
    <2> QED BY <1>0, <2>1 DEF Leased, Local
  <1>3. turn'[t].at \notin {"idle", "done"} /\ ~turn'[t].cleaned
    <2>1. CASE GetReplayItems(t)
      BY <1>0, <1>2, <2>1 DEF GetReplayItems, Turn
    <2>2. CASE AcquireTurn(t)
      BY <1>0, <1>2, <2>2 DEF AcquireTurn, Turn
    <2>3. CASE PrepareCancelled(t)
      BY <1>0, <1>2, <2>3 DEF PrepareCancelled, Turn
    <2>4. CASE NeverStreams(t)
      BY <1>0, <1>2, <2>4 DEF NeverStreams, Goto, Turn
    <2>5. CASE ReserveTokens(t)
      BY <1>0, <1>2, <2>5 DEF ReserveTokens, Turn
    <2>6. CASE MarkProviderStarted(t)
      BY <1>0, <1>2, <2>6 DEF MarkProviderStarted, Turn
    <2>7. CASE MarkUnheard(t)
      BY <1>0, <1>2, <2>7 DEF MarkUnheard, Turn
    <2>8. CASE Create(t)
      BY <1>0, <1>2, <2>8 DEF Create, Goto, Turn
    <2>9. CASE Completed(t)
      <3>1. PICK known \in BOOLEAN :
               turn' = [turn EXCEPT ![t].at = "settle", ![t].known = known]
        BY <2>9 DEF Completed
      <3> QED BY <1>0, <1>2, <3>1 DEF Turn
    <2>10. CASE Stop(t)
      <3>1. PICK why \in {"lost", "failed"} :
               turn' = [turn EXCEPT ![t].outcome = why,
                                    ![t].at = IF turn[t].open THEN "settle" ELSE "finish"]
        BY <2>10 DEF Stop
      <3> QED BY <1>0, <1>2, <3>1 DEF Turn
    <2>11. CASE SettleTurn(t)
      BY <1>0, <1>2, <2>11 DEF SettleTurn, Settled, Turn
    <2>12. CASE SettleFails(t)
      BY <1>0, <1>2, <2>12 DEF SettleFails, Settled, Turn
    <2>13. CASE CallTools(t)
      BY <1>0, <1>2, <2>13 DEF CallTools, Turn
    <2>14. CASE Done(t)
      BY <1>0, <1>2, <2>14 DEF Done, Turn
    <2>15. CASE Finish(t)
      BY <1>0, <1>2, <2>15 DEF Finish, AfterFinish, Goto, Turn
    <2>16. CASE FinishFails(t)
      BY <1>0, <1>2, <2>16 DEF FinishFails, AfterFinish, Goto, Turn
    <2>17. CASE Renew(t)
      BY <1>0, <1>2, <2>17 DEF Renew, Turn
    <2>18. CASE LoseLease(t)
      BY <1>0, <1>2, <2>18 DEF LoseLease, Turn
    <2>19. CASE AttemptLost(t)
      BY <1>0, <1>2, <2>19 DEF AttemptLost, Turn
    <2> QED BY <2>1, <2>2, <2>3, <2>4, <2>5, <2>6, <2>7, <2>8, <2>9, <2>10, <2>11, <2>12, <2>13, <2>14, <2>15, <2>16, <2>17, <2>18, <2>19
  <1> QED BY <1>1, <1>2, <1>3 DEF Working

LEMMA StepPermitted == Shaped /\ Permitted /\ [Next]_vars => Permitted'
  <1> SUFFICES ASSUME Shaped, Permitted, [Next]_vars PROVE Permitted'
    OBVIOUS
  <1>1. ASSUME NEW t \in Turns, RequestStep(t) PROVE Permitted'
    <2>0. /\ Changes(t) /\ turn \in [Turns -> Turn] /\ turn[t] \in Turn /\ Local(turn[t])
          /\ (Over(t) => ~Working(turn'[t]))
      <3>1. Over(t) => turn'[t].at = "done"
        BY DEF Over, NewTurn, Shaped
      <3> QED BY <1>1, <3>1, StepChanges DEF Shaped, Working
    <2>1. CASE AcquirePermit(t)
      <3>1. turn[t].at = "idle" /\ ~Working(turn[t])
        BY <2>1 DEF AcquirePermit, At, Working
      <3>2. CASE permits > 0
        <4>1. permits' = permits - 1 /\ turn'[t].at = "permit" /\ ~turn'[t].cleaned
          BY <2>0, <2>1, <3>1, <3>2 DEF AcquirePermit, Goto, Turn, Local
        <4> QED BY <2>0, <3>1, <3>2, <4>1, WorkBegins DEF Working
      <3>3. CASE ~(permits > 0)
        <4>1. permits' = permits /\ Over(t)
          BY <2>1, <3>3 DEF AcquirePermit
        <4> QED BY <2>0, <3>1, <4>1, WorksOn
      <3> QED BY <3>2, <3>3
    <2>2. CASE PrepareFails(t) \/ PrepareUnheard(t) \/ ReleasePermit(t)
      <3>1. permits' = permits + 1 /\ Over(t) /\ turn[t].at \in {"permit", "replay", "release"}
        BY <2>2 DEF PrepareFails, PrepareUnheard, ReleasePermit, Take, At
      <3>2. Working(turn[t])
        BY <2>0, <3>1 DEF Working, Local
      <3> QED BY <2>0, <3>1, <3>2, WorkEnds
    <2>3. CASE StreamEnds(t)
      <3>1. turn[t].at = "cleanup" /\ ~turn[t].cleaned /\ turn'[t].cleaned /\ permits' = permits + 1
        BY <2>0, <2>3 DEF StreamEnds, Clean, Once, At, Local, Turn
      <3> QED BY <2>0, <3>1, WorkEnds DEF Working
    <2>4. CASE ResponseEnds(t)
      <3>1. turn[t].at = "ended" /\ Over(t)
        BY <2>4 DEF ResponseEnds, At
      <3>2. CASE turn[t].cleaned
        <4>1. permits' = permits
          BY <2>4, <3>2 DEF ResponseEnds, Clean, Once
        <4> QED BY <2>0, <3>1, <3>2, <4>1, WorksOn DEF Working
      <3>3. CASE ~turn[t].cleaned
        <4>1. permits' = permits + 1
          BY <2>4, <3>3 DEF ResponseEnds, Clean, Once
        <4> QED BY <2>0, <3>1, <3>3, <4>1, WorkEnds DEF Working
      <3> QED BY <3>2, <3>3
    <2>5. CASE ~(\/ AcquirePermit(t) \/ PrepareFails(t) \/ PrepareUnheard(t) \/ ReleasePermit(t)
                 \/ StreamEnds(t) \/ ResponseEnds(t))
      <3>1. permits' = permits /\ (Working(turn'[t]) <=> Working(turn[t]))
        BY <1>1, <2>0, <2>5, MiddleWorksOn DEF RequestStep, TurnStep
      <3> QED BY <2>0, <3>1, WorksOn
    <2> QED BY <2>1, <2>2, <2>3, <2>4, <2>5
  <1>2. CASE Crash
    <2>1. AtWork' = {}
      BY <1>2, CrashShapes DEF AtWork, At
    <2>2. permits' = MaxTurns
      BY <1>2 DEF Crash
    <2> QED BY <2>1, <2>2, FS_EmptySet, TurnAssumption DEF Permitted
  <1>3. CASE UNCHANGED <<turn, permits>>
    <2>1. AtWork' = AtWork
      BY <1>3 DEF AtWork, At
    <2> QED BY <1>3, <2>1 DEF Permitted
  <1> QED
    BY <1>1, <1>2, <1>3 DEF Next, RequestStep, LeaseExpires, Quotas, turns, vars

LEMMA InitPermitted == Init => Permitted
  <1> SUFFICES ASSUME Init PROVE Permitted
    OBVIOUS
  <1>1. AtWork = {}
    BY DEF Init, AtWork, At, NewTurn
  <1> QED BY <1>1, FS_EmptySet, TurnAssumption DEF Permitted, Init

LEMMA AlwaysPermitted == Spec => []Permitted
  BY InitPermitted, StepPermitted, AlwaysShaped, PTL DEF Spec

(* The permits that are not free are those of requests at work               *)
(* (routes_agent.py, _prepare_turn and _TurnCleanup), and every value has    *)
(* its type.                                                                 *)
THEOREM PermitsAlwaysBalance == Spec => []PermitsBalance
  <1>1. Shaped /\ Kept /\ Billing /\ Permitted => PermitsBalance
    <2> SUFFICES ASSUME Shaped, Kept, Billing, Permitted PROVE PermitsBalance
      OBVIOUS
    <2>1. permits \in 0..MaxTurns
      <3>1. Cardinality(AtWork) \in Nat
        BY FS_CardinalityType DEF Permitted
      <3> QED BY <3>1, TurnAssumption DEF Permitted
    <2>2. ASSUME NEW s \in Sessions
          PROVE  lease[s] \in [turn : {t \in Turns : Of(t) = s}, expired : BOOLEAN] \cup {None}
      BY DEF Kept, Lease
    <2> QED BY <2>1, <2>2 DEF PermitsBalance, AgentTypeOK, Shaped, Kept, Billing, Permitted
  <1> QED BY <1>1, AlwaysShaped, AlwaysKept, AlwaysBilling, AlwaysPermitted, PTL

==============================================================================
