----------------------------- MODULE CartProofs -----------------------------
(***************************************************************************)
(* Theorems about a cart used by any number of concurrent requests.        *)
(***************************************************************************)
EXTENDS Cart, FiniteSetTheorems, WellFoundedInduction, TLAPS

(***************************************************************************)
(* Induction.  The induction theorems of the library take a predicate; a   *)
(* set that is closed under successor will do.                             *)
(***************************************************************************)
LEMMA SuccessorInduction ==
    ASSUME NEW A, 0 \in A, \A n \in Nat : n \in A => n + 1 \in A
    PROVE  \A n \in Nat : n \in A
<1> DEFINE T == {n \in Nat : n \notin A}
<1> SUFFICES ASSUME T # {} PROVE FALSE
  OBVIOUS
<1>1. PICK n \in T : \A m \in T : <<m, n>> \notin OpToRel(<, Nat)
  <2>1. T \subseteq Nat
    OBVIOUS
  <2> HIDE DEF T
  <2> QED
    BY <2>1, NatLessThanWellFounded, WFMin
<1>2. \A m \in T : ~(m < n)
  BY <1>1 DEF OpToRel
<1>3. n # 0 /\ n - 1 \in Nat
  OBVIOUS
<1>4. n - 1 \notin T
  BY <1>2, <1>3
<1> QED
  BY <1>3, <1>4

-----------------------------------------------------------------------------
(***************************************************************************)
(* Sums over a finite set, as MapThenSumSet computes them: Adds says that  *)
(* it gives the sum of q over every subset of S.                           *)
(***************************************************************************)
Pick(s) == CHOOSE x \in s : TRUE

Adds(it, q, S) ==
    it = [s \in SUBSET S |->
            IF s = {} THEN 0 ELSE q[Pick(s)] + it[s \ {Pick(s)}]]

Sum(q, S) == (CHOOSE it : Adds(it, q, S))[S]

LEMMA PickIsMember == \A s : s # {} => Pick(s) \in s
BY DEF Pick

LEMMA PickedSubset ==
    ASSUME NEW S, IsFiniteSet(S), NEW s \in SUBSET S, NEW x \in s
    PROVE  /\ s \ {x} \in SUBSET S
           /\ Cardinality(s) \in Nat
           /\ Cardinality(s \ {x}) = Cardinality(s) - 1
           /\ Cardinality(s \ {x}) \in Nat
<1>1. IsFiniteSet(s)
  BY FS_Subset
<1>2. IsFiniteSet(s \ {x}) /\ Cardinality(s \ {x}) = Cardinality(s) - 1
  BY <1>1, FS_RemoveElement
<1>3. Cardinality(s) \in Nat /\ Cardinality(s \ {x}) \in Nat
  BY <1>1, <1>2, FS_CardinalityType
<1> QED
  BY <1>2, <1>3

\* The recursive function exists: it can be extended from the subsets with at
\* most n elements to those with one more.
LEMMA AddsExists ==
    ASSUME NEW q, NEW S, IsFiniteSet(S)
    PROVE  \E it : Adds(it, q, S)
<1> DEFINE Small(n) == {s \in SUBSET S : Cardinality(s) <= n}
<1> DEFINE Step(it, s) == IF s = {} THEN 0 ELSE q[Pick(s)] + it[s \ {Pick(s)}]
<1> DEFINE A == {n \in Nat : \E it : it = [s \in Small(n) |-> Step(it, s)]}
<1>1. 0 \in A
  <2> DEFINE it == [s \in Small(0) |-> 0]
  <2>1. ASSUME NEW s \in Small(0) PROVE s = {}
    <3>1. IsFiniteSet(s) /\ Cardinality(s) \in Nat
      BY FS_Subset, FS_CardinalityType
    <3> QED
      BY <3>1, FS_EmptySet
  <2>2. it = [s \in Small(0) |-> Step(it, s)]
    BY <2>1
  <2> QED
    BY <2>2
<1>2. ASSUME NEW n \in Nat, n \in A PROVE n + 1 \in A
  <2>1. PICK it : it = [s \in Small(n) |-> Step(it, s)]
    BY <1>2
  <2> DEFINE new == [s \in Small(n + 1) |-> Step(it, s)]
  <2>2. ASSUME NEW s \in Small(n + 1) PROVE Step(it, s) = Step(new, s)
    <3>1. CASE s # {}
      <4> DEFINE t == s \ {Pick(s)}
      <4>1. t \in Small(n) /\ t \in Small(n + 1)
        BY <3>1, PickIsMember, PickedSubset
      <4>2. it[t] = Step(it, t) /\ new[t] = Step(it, t)
        BY <2>1, <4>1
      <4> QED
        BY <4>2
    <3>2. CASE s = {}
      BY <3>2
    <3> QED
      BY <3>1, <3>2
  <2>3. new = [s \in Small(n + 1) |-> Step(new, s)]
    <3>1. new = [s \in Small(n + 1) |-> Step(it, s)]
      OBVIOUS
    <3> HIDE DEF new, Step, Small
    <3> QED
      BY <2>2, <3>1
  <2>4. \E g : g = [s \in Small(n + 1) |-> Step(g, s)]
    <3> HIDE DEF new, Step, Small
    <3> QED
      BY <2>3
  <2>5. n + 1 \in Nat
    OBVIOUS
  <2> QED
    BY <2>4, <2>5, Zenon
<1>3. Cardinality(S) \in Nat /\ Cardinality(S) \in A
  <2>1. Cardinality(S) \in Nat
    BY FS_CardinalityType
  <2> HIDE DEF A
  <2> QED
    BY <1>1, <1>2, <2>1, SuccessorInduction
<1>4. Small(Cardinality(S)) = SUBSET S
  BY FS_Subset
<1>5. PICK it : it = [s \in SUBSET S |-> Step(it, s)]
  BY <1>3, <1>4
<1> QED
  BY <1>5 DEF Adds

\* A sum depends on the summands alone.
LEMMA AddsAgree ==
    ASSUME NEW f, NEW q, NEW S, Adds(f, q, S),
           NEW g, NEW r, NEW T, Adds(g, r, T),
           IsFiniteSet(S), NEW U \in SUBSET (S \cap T),
           \A x \in U : q[x] = r[x]
    PROVE  f[U] = g[U]
<1> DEFINE A == {n \in Nat : \A u \in SUBSET U :
                   Cardinality(u) = n => f[u] = g[u]}
<1>1. 0 \in A
  <2> SUFFICES ASSUME NEW u \in SUBSET U, Cardinality(u) = 0
               PROVE  f[u] = g[u]
    OBVIOUS
  <2>1. IsFiniteSet(u)
    BY FS_Subset
  <2>2. u = {}
    BY <2>1, FS_EmptySet
  <2> QED
    BY <2>2 DEF Adds
<1>2. ASSUME NEW n \in Nat, n \in A PROVE n + 1 \in A
  <2> SUFFICES ASSUME NEW u \in SUBSET U, Cardinality(u) = n + 1
               PROVE  f[u] = g[u]
    OBVIOUS
  <2>1. u # {}
    BY FS_EmptySet
  <2>2. Pick(u) \in u
    BY <2>1, PickIsMember
  <2>3. /\ u \ {Pick(u)} \in SUBSET U
        /\ Cardinality(u \ {Pick(u)}) = n
    BY <2>2, PickedSubset
  <2>4. f[u \ {Pick(u)}] = g[u \ {Pick(u)}]
    BY <1>2, <2>3
  <2> HIDE DEF A
  <2>5. f[u] = q[Pick(u)] + f[u \ {Pick(u)}]
    BY <2>1 DEF Adds
  <2>6. g[u] = r[Pick(u)] + g[u \ {Pick(u)}]
    BY <2>1 DEF Adds
  <2> QED
    BY <2>2, <2>4, <2>5, <2>6
<1>3. IsFiniteSet(U) /\ Cardinality(U) \in Nat
  BY FS_Subset, FS_CardinalityType
<1>4. Cardinality(U) \in A
  <2> HIDE DEF A
  <2> QED
    BY <1>1, <1>2, <1>3, SuccessorInduction
<1> QED
  BY <1>4

\* Any element may be taken first.
Additive(f, q, S) ==
    \A s \in SUBSET S :
        f[s] \in Nat /\ \A x \in s : f[s] = q[x] + f[s \ {x}]

LEMMA AddsRemove ==
    ASSUME NEW f, NEW q, NEW S, Adds(f, q, S), IsFiniteSet(S),
           \A x \in S : q[x] \in Nat
    PROVE  Additive(f, q, S)
<1> DEFINE P(s) == f[s] \in Nat /\ \A x \in s : f[s] = q[x] + f[s \ {x}]
<1> DEFINE A == {n \in Nat : \A s \in SUBSET S : Cardinality(s) <= n => P(s)}
<1>1. P({})
  <2>1. f[{}] = 0
    BY DEF Adds
  <2> QED
    BY <2>1
<1>2. 0 \in A
  <2> SUFFICES ASSUME NEW s \in SUBSET S, Cardinality(s) <= 0
               PROVE  P(s)
    OBVIOUS
  <2>1. IsFiniteSet(s) /\ Cardinality(s) \in Nat
    BY FS_Subset, FS_CardinalityType
  <2>2. s = {}
    BY <2>1, FS_EmptySet
  <2> QED
    BY <1>1, <2>2
<1>3. ASSUME NEW n \in Nat, n \in A PROVE n + 1 \in A
  <2> SUFFICES ASSUME NEW s \in SUBSET S, Cardinality(s) <= n + 1, s # {}
               PROVE  P(s)
    <3> HIDE DEF P
    <3> QED
      BY <1>1
  <2> DEFINE y == Pick(s)
  <2>1. y \in s /\ y \in S
    BY PickIsMember
  <2>2. \A x \in s : /\ s \ {x} \in SUBSET S
                     /\ Cardinality(s \ {x}) \in Nat
                     /\ Cardinality(s \ {x}) <= n
    BY PickedSubset
  <2>3. \A x \in s : P(s \ {x})
    BY <1>3, <2>2
  <2>4. f[s] = q[y] + f[s \ {y}]
    BY DEF Adds
  <2> HIDE DEF y
  <2>5. ASSUME NEW x \in s PROVE f[s] = q[x] + f[s \ {x}]
    <3>1. CASE x = y
      BY <2>4, <3>1
    <3>2. CASE x # y
      <4> DEFINE rest == (s \ {x}) \ {y}
      <4> DEFINE z == f[rest]
      <4>1. (s \ {y}) \ {x} = rest
        OBVIOUS
      <4>2. f[s \ {y}] = q[x] + z
        <5>1. x \in s \ {y} /\ P(s \ {y})
          BY <2>1, <2>3, <3>2
        <5> QED
          BY <4>1, <5>1
      <4>3. f[s \ {x}] = q[y] + z
        <5>1. y \in s \ {x} /\ P(s \ {x})
          BY <2>1, <2>3, <3>2
        <5> QED
          BY <5>1
      <4>4. z \in Nat
        <5>1. /\ s \ {x} \in SUBSET S /\ y \in s \ {x}
              /\ Cardinality(s \ {x}) \in Nat /\ Cardinality(s \ {x}) <= n
          BY <2>1, <2>2, <3>2
        <5>2. /\ rest \in SUBSET S
              /\ Cardinality(rest) = Cardinality(s \ {x}) - 1
          BY <5>1, PickedSubset
        <5>3. rest \in SUBSET S /\ Cardinality(rest) <= n
          BY <5>1, <5>2
        <5> QED
          BY <1>3, <5>3
      <4>5. q[x] \in Nat /\ q[y] \in Nat
        BY <2>1
      <4> HIDE DEF z
      <4> QED
        BY <2>4, <4>2, <4>3, <4>4, <4>5
    <3> QED
      BY <3>1, <3>2
  <2>6. f[s] \in Nat
    <3>1. f[s \ {y}] \in Nat /\ q[y] \in Nat
      BY <2>1, <2>3
    <3> QED
      BY <2>4, <3>1
  <2> QED
    BY <2>5, <2>6
<1>4. \A n \in Nat : n \in A
  <2> HIDE DEF A
  <2> QED
    BY <1>2, <1>3, SuccessorInduction
<1> SUFFICES ASSUME NEW s \in SUBSET S PROVE P(s)
  BY DEF Additive
<1>5. IsFiniteSet(s) /\ Cardinality(s) \in Nat
  BY FS_Subset, FS_CardinalityType
<1> QED
  BY <1>4, <1>5

LEMMA SumIsAdds ==
    ASSUME NEW q, NEW S, IsFiniteSet(S)
    PROVE  \E f : Adds(f, q, S) /\ Sum(q, S) = f[S]
BY AddsExists DEF Sum

LEMMA SumEmpty == \A q : Sum(q, {}) = 0
<1> TAKE q
<1>1. PICK f : Adds(f, q, {}) /\ Sum(q, {}) = f[{}]
  BY SumIsAdds, FS_EmptySet
<1> QED
  BY <1>1 DEF Adds

LEMMA SumAgree ==
    ASSUME NEW q, NEW r, NEW S, IsFiniteSet(S), \A x \in S : q[x] = r[x]
    PROVE  Sum(q, S) = Sum(r, S)
<1>1. PICK f : Adds(f, q, S) /\ Sum(q, S) = f[S]
  BY SumIsAdds
<1>2. PICK g : Adds(g, r, S) /\ Sum(r, S) = g[S]
  BY SumIsAdds
<1>3. f[S] = g[S]
  BY <1>1, <1>2, AddsAgree
<1> QED
  BY <1>1, <1>2, <1>3

LEMMA SumRemove ==
    ASSUME NEW q, NEW S, IsFiniteSet(S), \A x \in S : q[x] \in Nat
    PROVE  /\ Sum(q, S) \in Nat
           /\ \A x \in S : /\ Sum(q, S \ {x}) \in Nat
                           /\ Sum(q, S) = q[x] + Sum(q, S \ {x})
<1>1. PICK f : Adds(f, q, S) /\ Sum(q, S) = f[S]
  BY SumIsAdds
<1>2. Additive(f, q, S)
  BY <1>1, AddsRemove
<1>3. ASSUME NEW x \in S PROVE Sum(q, S \ {x}) = f[S \ {x}]
  <2> DEFINE T == S \ {x}
  <2>1. IsFiniteSet(T) /\ T \in SUBSET (T \cap S)
    BY FS_Subset
  <2>2. PICK g : Adds(g, q, T) /\ Sum(q, T) = g[T]
    BY <2>1, SumIsAdds
  <2> HIDE DEF T
  <2>3. g[T] = f[T]
    BY <1>1, <2>1, <2>2, AddsAgree
  <2> QED
    BY <2>2, <2>3 DEF T
<1> QED
  BY <1>1, <1>2, <1>3 DEF Additive

-----------------------------------------------------------------------------
(***************************************************************************)
(* The units of a product in a cart.                                       *)
(***************************************************************************)
Quantity(ls) == [i \in LineIds |-> ls[i].quantity]

Rows == [LineIds -> Line \cup {None}]

LEMMA UnitsIsSum ==
    ASSUME NEW ls, NEW p
    PROVE  Units(ls, p) = Sum(Quantity(ls), LinesOf(ls, p))
<1> DEFINE S == LinesOf(ls, p)
<1>1. \A it : Adds(it, Quantity(ls), S) <=>
        it = [s \in SUBSET S |-> IF s = {} THEN 0
               ELSE ls[CHOOSE x \in s : TRUE].quantity
                    + it[s \ {CHOOSE x \in s : TRUE}]]
  BY DEF Adds, Pick, Quantity, LinesOf, Present
<1>2. (CHOOSE it : Adds(it, Quantity(ls), S)) = CHOOSE it :
        it = [s \in SUBSET S |-> IF s = {} THEN 0
               ELSE ls[CHOOSE x \in s : TRUE].quantity
                    + it[s \ {CHOOSE x \in s : TRUE}]]
  BY <1>1
<1> QED
  BY <1>2 DEF Units, Sum, MapThenSumSet, MapThenFoldSet

LEMMA LinesOfFinite ==
    ASSUME NEW ls, NEW p
    PROVE  LinesOf(ls, p) \subseteq LineIds /\ IsFiniteSet(LinesOf(ls, p))
<1>1. LinesOf(ls, p) \in SUBSET LineIds
  BY DEF LinesOf, Present
<1>2. IsFiniteSet(LineIds)
  BY FS_Interval, BoundsAssumption DEF LineIds
<1> QED
  BY <1>1, <1>2, FS_Subset

LEMMA LinesOfHaveQuantity ==
    ASSUME NEW ls \in Rows, NEW p
    PROVE  \A i \in LinesOf(ls, p) : Quantity(ls)[i] \in Nat
BY BoundsAssumption DEF Rows, LinesOf, Present, Quantity, Line

LEMMA UnitsNat ==
    ASSUME NEW ls \in Rows, NEW p
    PROVE  Units(ls, p) \in Nat
BY UnitsIsSum, LinesOfFinite, LinesOfHaveQuantity, SumRemove

LEMMA UnitsOfNoLines == NoLines \in Rows /\ \A p : Units(NoLines, p) = 0
<1>1. \A p : LinesOf(NoLines, p) = {}
  BY DEF LinesOf, Present, NoLines
<1>2. \A p : Units(NoLines, p) = 0
  BY <1>1, UnitsIsSum, SumEmpty
<1> QED
  BY <1>2 DEF NoLines, Rows

\* Lines that are equal, or of other products, make no difference.
LEMMA UnitsAgree ==
    ASSUME NEW ls, NEW ms, NEW p,
           LinesOf(ls, p) = LinesOf(ms, p),
           \A i \in LinesOf(ls, p) : ls[i] = ms[i]
    PROVE  Units(ls, p) = Units(ms, p)
<1>1. \A i \in LinesOf(ls, p) : Quantity(ls)[i] = Quantity(ms)[i]
  BY DEF Quantity, LinesOf, Present
<1>2. Sum(Quantity(ls), LinesOf(ls, p)) = Sum(Quantity(ms), LinesOf(ls, p))
  BY <1>1, LinesOfFinite, SumAgree
<1> QED
  BY <1>2, UnitsIsSum

\* The units of a product are those of one line and those of the others.
LineUnits(row, p) ==
    IF row # None /\ row.product = p THEN row.quantity ELSE 0

Others(ls, p, i) == Sum(Quantity(ls), LinesOf(ls, p) \ {i})

LEMMA UnitsSplit ==
    ASSUME NEW ls \in Rows, NEW p, NEW i \in LineIds
    PROVE  /\ Units(ls, p) = LineUnits(ls[i], p) + Others(ls, p, i)
           /\ LineUnits(ls[i], p) \in Nat
           /\ Others(ls, p, i) \in Nat
<1> DEFINE S == LinesOf(ls, p)
<1>1. Units(ls, p) = Sum(Quantity(ls), S)
  BY UnitsIsSum
<1>2. IsFiniteSet(S) /\ \A j \in S : Quantity(ls)[j] \in Nat
  BY LinesOfFinite, LinesOfHaveQuantity
<1>3. CASE i \in S
  <2>1. LineUnits(ls[i], p) = Quantity(ls)[i]
    BY <1>3 DEF LineUnits, LinesOf, Present, Quantity
  <2> HIDE DEF S
  <2>2. /\ Sum(Quantity(ls), S) = Quantity(ls)[i] + Sum(Quantity(ls), S \ {i})
        /\ Sum(Quantity(ls), S \ {i}) \in Nat
    BY <1>2, <1>3, SumRemove
  <2> QED
    BY <1>1, <1>2, <1>3, <2>1, <2>2 DEF Others, S
<1>4. CASE i \notin S
  <2>1. LineUnits(ls[i], p) = 0
    BY <1>4 DEF LineUnits, LinesOf, Present
  <2>2. S \ {i} = S
    BY <1>4
  <2>3. Units(ls, p) \in Nat
    BY UnitsNat
  <2> QED
    BY <1>1, <2>1, <2>2, <2>3 DEF Others
<1> QED
  BY <1>3, <1>4

LEMMA UnitsChange ==
    ASSUME NEW ls \in Rows, NEW ms \in Rows, NEW i \in LineIds, NEW p,
           \A j \in LineIds \ {i} : ls[j] = ms[j]
    PROVE  Units(ms, p) + LineUnits(ls[i], p)
             = Units(ls, p) + LineUnits(ms[i], p)
<1>1. LinesOf(ls, p) \ {i} = LinesOf(ms, p) \ {i}
  BY DEF LinesOf, Present
<1> DEFINE S == LinesOf(ls, p) \ {i}
<1>2. IsFiniteSet(S)
  <2>1. S \in SUBSET LinesOf(ls, p)
    OBVIOUS
  <2> QED
    BY <2>1, LinesOfFinite, FS_Subset
<1>3. \A j \in S : Quantity(ls)[j] = Quantity(ms)[j]
  BY DEF Quantity, LinesOf, Present
<1>4. Others(ls, p, i) = Others(ms, p, i)
  <2> HIDE DEF S
  <2>1. Sum(Quantity(ls), S) = Sum(Quantity(ms), S)
    BY <1>2, <1>3, SumAgree
  <2> QED
    BY <1>1, <2>1 DEF Others, S
<1>5. /\ Units(ls, p) = LineUnits(ls[i], p) + Others(ls, p, i)
      /\ LineUnits(ls[i], p) \in Nat /\ Others(ls, p, i) \in Nat
  BY UnitsSplit
<1>6. /\ Units(ms, p) = LineUnits(ms[i], p) + Others(ms, p, i)
      /\ LineUnits(ms[i], p) \in Nat
  BY UnitsSplit
<1> QED
  BY <1>4, <1>5, <1>6

LEMMA FirstLine ==
    ASSUME NEW found, found \subseteq LineIds, found # {}
    PROVE  Min(found) \in found
<1>1. found \subseteq Nat
  BY DEF LineIds
<1>2. PICK i \in found : \A j \in found : <<j, i>> \notin OpToRel(<, Nat)
  BY <1>1, NatLessThanWellFounded, WFMin
<1>3. \A j \in found : i <= j
  <2> TAKE j \in found
  <2>1. i \in Nat /\ j \in Nat
    BY <1>1
  <2>2. ~(j < i)
    BY <1>2, <2>1 DEF OpToRel
  <2> QED
    BY <2>1, <2>2
<1> QED
  BY <1>3 DEF Min

-----------------------------------------------------------------------------
(***************************************************************************)
(* Type correctness.  What AddToCart and SetCartItem check of a request    *)
(* before their first statement still holds when they write.               *)
(***************************************************************************)
Checked ==
    \A r \in Requests : request[r] # None =>
        /\ request[r].op \in {"add", "set"} => request[r].product \in Products
        /\ request[r].op = "add" => request[r].quantity \in 1..MaxQuantity

Sound == TypeOK /\ Checked

LEMMA SoundStep == Sound /\ [Next]_vars => Sound'
<1> SUFFICES ASSUME Sound, [Next]_vars PROVE Sound'
  OBVIOUS
<1> USE DEF Sound
<1>1. \A ls \in Rows, p \in Products : Units(ls, p) \in Nat
  BY UnitsNat
<1>2. ASSUME NEW r \in Requests, NEW op \in Ops,
             NEW p \in Products \cup {None}, NEW q \in Quantities \cup {0},
             Start(r, op, p, q)
      PROVE  Sound'
  <2> DEFINE started == [op |-> op, pc |-> "get", product |-> p,
                         quantity |-> q, line |-> None, items |-> NoLines]
  <2>1. started \in Request
    BY UnitsOfNoLines DEF Request, Rows
  <2>2. /\ op \in {"add", "set"} => p \in Products
        /\ op = "add" => q \in 1..MaxQuantity
    BY <1>2, QuantitiesAssumption, BoundsAssumption DEF Start
  <2>3. /\ request' = [request EXCEPT ![r] = started]
        /\ UNCHANGED <<active, cart, lines, orders, added, removed>>
    BY <1>2 DEF Start
  <2>4. TypeOK'
    BY <2>1, <2>3 DEF TypeOK
  <2>5. Checked'
    BY <2>2, <2>3 DEF TypeOK, Checked
  <2> QED
    BY <2>4, <2>5
<1>3. ASSUME NEW r \in Requests, At(r, "get") \/ At(r, "find")
                                 \/ At(r, "insert cart") \/ At(r, "write")
                                 \/ At(r, "order") \/ At(r, "clear")
      PROVE  request[r] \in Request /\ request[r] # None
  BY <1>3 DEF At, TypeOK
<1>4. ASSUME NEW r \in Requests, NEW new \in Request \cup {None},
             request' = [request EXCEPT ![r] = new],
             new # None => /\ request[r] # None /\ new.op = request[r].op
                           /\ new.product = request[r].product
                           /\ new.quantity = request[r].quantity
      PROVE  Checked' /\ request' \in [Requests -> Request \cup {None}]
  BY <1>4 DEF TypeOK, Checked
<1>5. ASSUME NEW r \in Requests, Return(r)
      PROVE  Checked' /\ request' \in [Requests -> Request \cup {None}]
  BY <1>4, <1>5 DEF Return
<1>6. ASSUME NEW r \in Requests, request[r] \in Request, request[r] # None,
             NEW pc \in {"get", "insert cart", "find", "write", "order",
                         "clear"},
             Goto(r, pc)
      PROVE  Checked' /\ request' \in [Requests -> Request \cup {None}]
  <2> DEFINE new == [request[r] EXCEPT !.pc = pc]
  <2>1. /\ new \in Request /\ new.op = request[r].op
        /\ new.product = request[r].product
        /\ new.quantity = request[r].quantity
    BY <1>6 DEF Request
  <2>2. request' = [request EXCEPT ![r] = new]
    BY <1>6 DEF Goto, TypeOK
  <2> HIDE DEF new
  <2> QED
    BY <1>4, <1>6, <2>1, <2>2
<1>7. \A op : AfterGet(op) \in {"find", "order", "write"}
  BY DEF AfterGet
<1>8. ASSUME NEW r \in Requests, GetCart(r) PROVE Sound'
  <2>1. request[r] \in Request /\ request[r] # None
    BY <1>3, <1>8 DEF GetCart
  <2>2. UNCHANGED <<active, cart, lines, orders, added, removed>>
    BY <1>8 DEF GetCart
  <2>3. CASE Return(r)
    BY <1>5, <2>2, <2>3 DEF TypeOK
  <2>4. CASE ~Return(r)
    <3> DEFINE items == IF request[r].op = "checkout" THEN lines ELSE NoLines
    <3> DEFINE new == [[request[r] EXCEPT !.pc = AfterGet(request[r].op)]
                         EXCEPT !.items = items]
    <3>1. request' = [request EXCEPT ![r] = new]
      BY <1>8, <2>4 DEF GetCart, TypeOK
    <3>2. items \in Rows
      BY UnitsOfNoLines DEF TypeOK, Rows
    <3> HIDE DEF items
    <3>3. /\ new \in Request /\ new.op = request[r].op
          /\ new.product = request[r].product
          /\ new.quantity = request[r].quantity
      BY <1>7, <2>1, <3>2 DEF Request, Rows
    <3> HIDE DEF new
    <3>4. Checked' /\ request' \in [Requests -> Request \cup {None}]
      BY <1>4, <2>1, <3>1, <3>3
    <3> QED
      BY <2>2, <3>4 DEF TypeOK
  <2> QED
    BY <2>3, <2>4
<1>9. ASSUME NEW r \in Requests, GetNoCart(r) PROVE Sound'
  <2>1. request[r] \in Request /\ request[r] # None /\ Goto(r, "insert cart")
    BY <1>3, <1>9 DEF GetNoCart
  <2>2. Checked' /\ request' \in [Requests -> Request \cup {None}]
    BY <1>6, <2>1
  <2> QED
    BY <1>9, <2>2 DEF GetNoCart, TypeOK
<1>10. ASSUME NEW r \in Requests, InsertCart(r) PROVE Sound'
  <2>1. request[r] \in Request /\ request[r] # None
    BY <1>3, <1>10 DEF InsertCart
  <2>2. Checked' /\ request' \in [Requests -> Request \cup {None}]
    BY <1>5, <1>6, <1>7, <1>10, <2>1 DEF InsertCart
  <2> QED
    BY <1>10, <2>2 DEF InsertCart, TypeOK
<1>11. ASSUME NEW r \in Requests, FindLine(r) PROVE Sound'
  <2> DEFINE found == LinesOf(lines, request[r].product)
  <2> DEFINE line == IF found = {} THEN None ELSE Min(found)
  <2> DEFINE new == [[request[r] EXCEPT !.pc = "write"] EXCEPT !.line = line]
  <2>1. request[r] \in Request /\ request[r] # None
    BY <1>3, <1>11 DEF FindLine
  <2>2. line \in LineIds \cup {None}
    BY FirstLine, LinesOfFinite
  <2>3. request' = [request EXCEPT ![r] = new]
    BY <1>11 DEF FindLine, TypeOK
  <2> HIDE DEF line
  <2>4. /\ new \in Request /\ new.op = request[r].op
        /\ new.product = request[r].product
        /\ new.quantity = request[r].quantity
    BY <2>1, <2>2 DEF Request
  <2> HIDE DEF new
  <2>5. Checked' /\ request' \in [Requests -> Request \cup {None}]
    BY <1>4, <2>1, <2>3, <2>4
  <2> QED
    BY <1>11, <2>5 DEF FindLine, TypeOK
<1>12. ASSUME NEW r \in Requests, AddInsert(r) PROVE Sound'
  <2>1. request[r] \in Request /\ request[r] # None
    BY <1>3, <1>12 DEF AddInsert
  <2>2. request[r].product \in Products /\ request[r].quantity \in 1..MaxQuantity
    BY <1>12, <2>1 DEF AddInsert, Checked
  <2>3. [product |-> request[r].product, quantity |-> request[r].quantity]
        \in Line
    BY <2>2 DEF Line
  <2>4. lines' \in [LineIds -> Line \cup {None}]
    BY <1>12, <2>3 DEF AddInsert, TypeOK
  <2>5. added' \in [Products -> Nat]
    BY <1>12, <2>2, BoundsAssumption DEF AddInsert, TypeOK
  <2>6. Checked' /\ request' \in [Requests -> Request \cup {None}]
    BY <1>5, <1>12 DEF AddInsert
  <2> QED
    BY <1>12, <2>4, <2>5, <2>6 DEF AddInsert, TypeOK
<1>13. ASSUME NEW r \in Requests, AddToLine(r) PROVE Sound'
  <2> DEFINE i == request[r].line
  <2> DEFINE q == request[r].quantity
  <2>1. request[r] \in Request /\ request[r] # None
    BY <1>3, <1>13 DEF AddToLine
  <2>2. /\ request[r].product \in Products /\ q \in 1..MaxQuantity
        /\ i \in LineIds
    BY <1>13, <2>1 DEF AddToLine, Checked, Request
  <2>3. Checked' /\ request' \in [Requests -> Request \cup {None}]
    BY <1>5, <1>13 DEF AddToLine
  <2>4. CASE lines[i] # None
    <3>1. lines[i] \in Line /\ lines[i].quantity + q <= MaxQuantity
      BY <1>13, <2>2, <2>4 DEF AddToLine, TypeOK
    <3>2. [lines[i] EXCEPT !.quantity = @ + q] \in Line
      BY <2>2, <3>1, BoundsAssumption DEF Line
    <3>3. lines' = [lines EXCEPT ![i] = [lines[i] EXCEPT !.quantity = @ + q]]
      BY <1>13, <2>4 DEF AddToLine, TypeOK
    <3>4. lines' \in [LineIds -> Line \cup {None}]
      BY <3>2, <3>3 DEF TypeOK
    <3>5. added' \in [Products -> Nat]
      BY <1>13, <2>2, <2>4, BoundsAssumption DEF AddToLine, TypeOK
    <3> QED
      BY <1>13, <2>3, <3>4, <3>5 DEF AddToLine, TypeOK
  <2>5. CASE lines[i] = None
    BY <1>13, <2>3, <2>5 DEF AddToLine, TypeOK
  <2> QED
    BY <2>4, <2>5
<1>14. ASSUME NEW r \in Requests, SetItem(r) PROVE Sound'
  <2> DEFINE p == request[r].product
  <2> DEFINE q == request[r].quantity
  <2>1. request[r] \in Request /\ request[r] # None
    BY <1>3, <1>14 DEF SetItem
  <2>2. p \in Products /\ q \in 0..MaxQuantity
    <3>1. p \in Products
      BY <1>14, <2>1 DEF SetItem, Checked
    <3>2. q \in Quantities \cup {0}
      BY <2>1 DEF Request
    <3>3. 0 \in 0..MaxQuantity
      BY BoundsAssumption
    <3>4. Quantities \cup {0} \subseteq 0..MaxQuantity
      BY <3>3, QuantitiesAssumption, Zenon
    <3> QED
      BY <3>1, <3>2, <3>4
  <2>3. q # 0 => [product |-> p, quantity |-> q] \in Line
    BY <2>2, BoundsAssumption DEF Line
  <2>4. lines' \in Rows
    BY <1>14, <2>3 DEF SetItem, TypeOK, Rows
  <2>5. lines \in Rows
    BY DEF TypeOK, Rows
  <2>6. Units(lines', p) \in Nat /\ Units(lines, p) \in Nat
    BY <2>4, <2>5, UnitsNat
  <2>7. added' \in [Products -> Nat] /\ removed' \in [Products -> Nat]
    BY <1>14, <2>2, <2>6 DEF SetItem, TypeOK
  <2>8. Checked' /\ request' \in [Requests -> Request \cup {None}]
    BY <1>5, <1>14 DEF SetItem
  <2> QED
    BY <1>14, <2>4, <2>7, <2>8 DEF SetItem, TypeOK, Rows
<1>15. ASSUME NEW r \in Requests, ClearCart(r) \/ CheckoutClear(r)
       PROVE  Sound'
  <2>1. \A p \in Products : Units(lines, p) \in Nat
    BY <1>1 DEF TypeOK, Rows
  <2>2. removed' \in [Products -> Nat]
    BY <1>15, <2>1 DEF ClearCart, CheckoutClear, Empty, TypeOK
  <2>3. lines' \in [LineIds -> Line \cup {None}]
    BY <1>15, UnitsOfNoLines DEF ClearCart, CheckoutClear, Empty, Rows
  <2>4. Checked' /\ request' \in [Requests -> Request \cup {None}]
    BY <1>5, <1>15 DEF ClearCart, CheckoutClear
  <2> QED
    BY <1>15, <2>2, <2>3, <2>4 DEF ClearCart, CheckoutClear, TypeOK
<1>16. ASSUME NEW r \in Requests, CheckoutOrder(r) \/ CheckoutOrderFails(r)
       PROVE  Sound'
  <2>1. request[r] \in Request /\ request[r] # None
    BY <1>3, <1>16 DEF CheckoutOrder, CheckoutOrderFails
  <2>2. request[r].items \in [LineIds -> Line \cup {None}]
    BY <2>1 DEF Request
  <2>3. orders' \in Seq([LineIds -> Line \cup {None}])
    <3>1. orders' = Append(orders, request[r].items)
      BY <1>16 DEF CheckoutOrder, CheckoutOrderFails
    <3>2. orders \in Seq([LineIds -> Line \cup {None}])
      BY DEF TypeOK
    <3> QED
      BY <2>2, <3>1, <3>2
  <2>4. Checked' /\ request' \in [Requests -> Request \cup {None}]
    BY <1>5, <1>6, <1>16, <2>1 DEF CheckoutOrder, CheckoutOrderFails
  <2> QED
    BY <1>16, <2>3, <2>4 DEF CheckoutOrder, CheckoutOrderFails, TypeOK
<1>17. ASSUME NEW r \in Requests, Fail(r) PROVE Sound'
  <2>1. Checked' /\ request' \in [Requests -> Request \cup {None}]
    BY <1>5, <1>17 DEF Fail
  <2> QED
    BY <1>17, <2>1 DEF Fail, TypeOK
<1>18. ASSUME NEW p \in Products, SetActive(p) PROVE Sound'
  BY <1>18 DEF SetActive, TypeOK, Checked
<1>19. CASE UNCHANGED vars
  BY <1>19 DEF vars, TypeOK, Checked
<1> QED
  BY <1>2, <1>8, <1>9, <1>10, <1>11, <1>12, <1>13, <1>14, <1>15, <1>16, <1>17,
     <1>18, <1>19
  DEF Next, Handle

LEMMA SoundInit == Init => Sound
<1> SUFFICES ASSUME Init PROVE Sound
  OBVIOUS
<1>1. /\ orders \in Seq([LineIds -> Line \cup {None}])
      /\ lines \in [LineIds -> Line \cup {None}]
  BY UnitsOfNoLines DEF Init, Rows
<1>2. /\ active \subseteq Products /\ cart \in BOOLEAN
      /\ request \in [Requests -> Request \cup {None}]
      /\ added \in [Products -> Nat] /\ removed \in [Products -> Nat]
      /\ \A r \in Requests : request[r] = None
  BY DEF Init
<1> QED
  BY <1>1, <1>2 DEF Sound, TypeOK, Checked

LEMMA SoundHolds == Spec => []Sound
BY SoundInit, SoundStep, PTL DEF Spec

\* The rows of the cart and its orders keep their types: a quantity never goes
\* to zero or past what the column holds, in whatever order requests write.
THEOREM TypeCorrect == Spec => []TypeOK
<1>1. Sound => TypeOK
  BY DEF Sound
<1> QED
  BY <1>1, SoundHolds, PTL

-----------------------------------------------------------------------------
(***************************************************************************)
(* No unit is lost or invented.  A line that a request has found is still  *)
(* of its product, if it is still there: the id is not given to another.   *)
(***************************************************************************)
Found ==
    \A r \in Requests :
        /\ request[r] # None /\ request[r].line # None
        /\ lines[request[r].line] # None
        => lines[request[r].line].product = request[r].product

ReadWasCarted ==
    \A r \in Requests : request[r] # None =>
        \A p \in Products : Units(request[r].items, p) <= added[p]

Counted == Sound /\ Found /\ UnitsAddUp /\ ReadWasCarted /\ OrdersWereCarted

\* What a step does to a request that is, or is still, being served.
LEMMA RequestStep ==
    ASSUME Sound, [Next]_vars, NEW r \in Requests, request'[r] # None
    PROVE  \/ request'[r].line = None /\ request'[r].items = NoLines
           \/ /\ request[r] # None
              /\ request'[r].product = request[r].product
              /\ \/ request'[r].line = request[r].line
                 \/ request'[r].line = None
                 \/ /\ UNCHANGED lines
                    /\ request'[r].line \in LinesOf(lines, request[r].product)
              /\ request'[r].items \in {request[r].items, lines, NoLines}
<1> DEFINE Goal ==
           \/ request'[r].line = None /\ request'[r].items = NoLines
           \/ /\ request[r] # None
              /\ request'[r].product = request[r].product
              /\ \/ request'[r].line = request[r].line
                 \/ request'[r].line = None
                 \/ /\ UNCHANGED lines
                    /\ request'[r].line \in LinesOf(lines, request[r].product)
              /\ request'[r].items \in {request[r].items, lines, NoLines}
<1>1. request \in [Requests -> Request \cup {None}]
  BY DEF Sound, TypeOK
<1>2. CASE request'[r] = request[r]
  BY <1>2
<1>3. ASSUME NEW s \in Requests, Return(s) PROVE Goal
  BY <1>1, <1>2, <1>3 DEF Return
<1>4. ASSUME NEW s \in Requests, NEW pc, Goto(s, pc),
             request[s] \in Request, request[s] # None
      PROVE  Goal
  <2>1. CASE s = r
    <3>1. request'[r] = [request[r] EXCEPT !.pc = pc]
      BY <1>1, <1>4, <2>1 DEF Goto
    <3> QED
      BY <1>4, <2>1, <3>1 DEF Request
  <2>2. CASE s # r
    BY <1>1, <1>2, <1>4, <2>2 DEF Goto
  <2> QED
    BY <2>1, <2>2
<1>5. ASSUME NEW s \in Requests, At(s, "get") \/ At(s, "find")
                                 \/ At(s, "insert cart") \/ At(s, "order")
      PROVE  request[s] \in Request /\ request[s] # None
  BY <1>1, <1>5 DEF At
<1>6. ASSUME NEW s \in Requests, NEW op \in Ops,
             NEW p \in Products \cup {None}, NEW q \in Quantities \cup {0},
             Start(s, op, p, q)
      PROVE  Goal
  BY <1>1, <1>2, <1>6 DEF Start
<1>7. ASSUME NEW s \in Requests, GetCart(s) PROVE Goal
  <2>1. request[s] \in Request /\ request[s] # None
    BY <1>5, <1>7 DEF GetCart
  <2>2. CASE ~Return(s) /\ s = r
    <3> DEFINE items == IF request[r].op = "checkout" THEN lines ELSE NoLines
    <3>1. request'[r] = [[request[r] EXCEPT !.pc = AfterGet(request[r].op)]
                           EXCEPT !.items = items]
      BY <1>1, <1>7, <2>2 DEF GetCart
    <3>2. items \in {lines, NoLines}
      OBVIOUS
    <3> HIDE DEF items
    <3> QED
      BY <2>1, <2>2, <3>1, <3>2 DEF Request
  <2>3. CASE ~Return(s) /\ s # r
    BY <1>1, <1>2, <1>7, <2>3 DEF GetCart
  <2> QED
    BY <1>3, <2>2, <2>3
<1>8. ASSUME NEW s \in Requests, FindLine(s) PROVE Goal
  <2> DEFINE found == LinesOf(lines, request[s].product)
  <2> DEFINE line == IF found = {} THEN None ELSE Min(found)
  <2>1. request[s] \in Request /\ request[s] # None
    BY <1>5, <1>8 DEF FindLine
  <2>2. line = None \/ line \in found
    BY FirstLine, LinesOfFinite
  <2>3. CASE s = r
    <3>1. request'[r] = [[request[r] EXCEPT !.pc = "write"]
                           EXCEPT !.line = line]
      BY <1>1, <1>8, <2>3 DEF FindLine
    <3>2. UNCHANGED lines
      BY <1>8 DEF FindLine
    <3> HIDE DEF line
    <3> QED
      BY <2>1, <2>2, <2>3, <3>1, <3>2 DEF Request
  <2>4. CASE s # r
    BY <1>1, <1>2, <1>8, <2>4 DEF FindLine
  <2> QED
    BY <2>3, <2>4
<1>9. ASSUME NEW s \in Requests,
             GetNoCart(s) \/ InsertCart(s) \/ CheckoutOrder(s)
      PROVE  Goal
  BY <1>3, <1>4, <1>5, <1>9 DEF GetNoCart, InsertCart, CheckoutOrder
<1>10. ASSUME NEW s \in Requests,
              \/ AddInsert(s) \/ AddToLine(s) \/ SetItem(s) \/ ClearCart(s)
              \/ CheckoutOrderFails(s) \/ CheckoutClear(s) \/ Fail(s)
       PROVE  Goal
  BY <1>3, <1>10 DEF AddInsert, AddToLine, SetItem, ClearCart,
                     CheckoutOrderFails, CheckoutClear, Fail
<1>11. ASSUME NEW p \in Products, SetActive(p) PROVE Goal
  BY <1>2, <1>11 DEF SetActive
<1>12. CASE UNCHANGED vars
  BY <1>2, <1>12 DEF vars
<1> QED
  BY <1>6, <1>7, <1>8, <1>9, <1>10, <1>11, <1>12 DEF Next, Handle

\* What a step does to the lines.
LEMMA LinesStep ==
    ASSUME [Next]_vars
    PROVE  \/ UNCHANGED <<lines, added, removed>>
           \/ \E r \in Requests : AddInsert(r) \/ AddToLine(r) \/ SetItem(r)
           \/ Empty /\ UNCHANGED added
BY DEF Next, Handle, Start, GetCart, GetNoCart, InsertCart, FindLine,
       ClearCart, CheckoutOrder, CheckoutOrderFails, CheckoutClear, Fail,
       SetActive, vars

LEMMA InsertedLine ==
    ASSUME Sound, NEW r \in Requests, AddInsert(r)
    PROVE  \E i \in LineIds, row \in Line :
             /\ lines' = [lines EXCEPT ![i] = row]
             /\ lines[i] = None
             /\ \A s \in Requests : request[s] # None => request[s].line # i
             /\ row.product = request[r].product
             /\ row.quantity = request[r].quantity
<1>1. request[r].product \in Products /\ request[r].quantity \in 1..MaxQuantity
  BY DEF Sound, Checked, AddInsert, At
<1>2. PICK i \in LineIds :
        /\ NewLine(i)
        /\ lines' = [lines EXCEPT ![i] = [product |-> request[r].product,
                                          quantity |-> request[r].quantity]]
  BY DEF AddInsert
<1>3. lines[i] = None /\ \A s \in Requests :
        request[s] # None => request[s].line # i
  BY <1>2 DEF NewLine, Present, LineIds
<1> QED
  BY <1>1, <1>2, <1>3 DEF Line

LEMMA AddedToLine ==
    ASSUME Sound, Found, NEW r \in Requests, AddToLine(r),
           lines[request[r].line] # None
    PROVE  \E i \in LineIds :
             /\ lines[i] \in Line
             /\ lines[i].product = request[r].product
             /\ request[r].quantity \in 1..MaxQuantity
             /\ lines' = [lines EXCEPT ![i] =
                            [lines[i] EXCEPT !.quantity =
                               @ + request[r].quantity]]
             /\ lines'[i] \in Line
<1> DEFINE i == request[r].line
<1> DEFINE q == request[r].quantity
<1>1. request[r] \in Request /\ request[r] # None
  BY DEF AddToLine, At, Sound, TypeOK
<1>2. i \in LineIds /\ q \in 1..MaxQuantity
  BY <1>1 DEF AddToLine, Request, Sound, Checked
<1>3. lines[i] \in Line /\ lines[i].quantity + q <= MaxQuantity
  BY <1>2 DEF AddToLine, Sound, TypeOK
<1>4. lines[i].product = request[r].product
  BY <1>1, <1>2 DEF AddToLine, Found
<1>5. lines' = [lines EXCEPT ![i] = [lines[i] EXCEPT !.quantity = @ + q]]
  BY DEF AddToLine, Sound, TypeOK
<1>6. [lines[i] EXCEPT !.quantity = @ + q] \in Line
  BY <1>2, <1>3, BoundsAssumption DEF Line
<1>7. lines'[i] \in Line
  BY <1>2, <1>5, <1>6 DEF Sound, TypeOK
<1> QED
  BY <1>2, <1>3, <1>4, <1>5, <1>7

\* A line keeps its product; a line that is new was known to no request.
LEMMA LineStep ==
    ASSUME Sound, Found, [Next]_vars, NEW i \in LineIds, lines'[i] # None
    PROVE  \/ lines[i] # None /\ lines'[i].product = lines[i].product
           \/ \A s \in Requests : request[s] # None => request[s].line # i
<1>1. lines \in [LineIds -> Line \cup {None}]
  BY DEF Sound, TypeOK
<1>2. ASSUME NEW r \in Requests, AddInsert(r)
      PROVE  \/ lines'[i] = lines[i]
             \/ \A s \in Requests : request[s] # None => request[s].line # i
  BY <1>1, <1>2, InsertedLine
<1>3. ASSUME NEW r \in Requests, AddToLine(r)
      PROVE  lines[i] # None /\ lines'[i].product = lines[i].product
  <2>1. CASE lines[request[r].line] # None
    <3>1. PICK j \in LineIds :
            /\ lines[j] \in Line
            /\ lines' = [lines EXCEPT ![j] =
                           [lines[j] EXCEPT !.quantity =
                              @ + request[r].quantity]]
      BY <1>3, <2>1, AddedToLine
    <3>2. lines[j] # None
      BY <3>1, NoneAssumption
    <3> QED
      BY <1>1, <3>1, <3>2 DEF Line
  <2>2. CASE lines[request[r].line] = None
    BY <1>3, <2>2 DEF AddToLine
  <2> QED
    BY <2>1, <2>2
<1>4. ASSUME NEW r \in Requests, SetItem(r)
      PROVE  lines[i] # None /\ lines'[i].product = lines[i].product
  BY <1>4 DEF SetItem, LinesOf, Present
<1>5. CASE Empty
  BY <1>5 DEF Empty, NoLines
<1> QED
  BY <1>2, <1>3, <1>4, <1>5, LinesStep

LEMMA FoundStep ==
    ASSUME Sound, Found, [Next]_vars
    PROVE  Found'
<1> SUFFICES ASSUME NEW r \in Requests, request'[r] # None,
                    request'[r].line # None, lines'[request'[r].line] # None
             PROVE  lines'[request'[r].line].product = request'[r].product
  BY DEF Found
<1> DEFINE i == request'[r].line
<1>1. i \in LineIds
  BY SoundStep DEF Sound, TypeOK, Request
<1>2. CASE request[r] # None /\ request[r].line = i
           /\ request'[r].product = request[r].product
  BY <1>1, <1>2, LineStep DEF Found
<1>3. CASE /\ UNCHANGED lines
           /\ request'[r].product = request[r].product
           /\ i \in LinesOf(lines, request[r].product)
  BY <1>3 DEF LinesOf
<1> QED
  BY <1>2, <1>3, RequestStep

\* The sums.
LEMMA SumsStep ==
    ASSUME Sound, Found, UnitsAddUp, [Next]_vars, NEW p \in Products
    PROVE  /\ Units(lines', p) + removed'[p] = added'[p]
           /\ added'[p] >= added[p]
<1>1. /\ lines \in Rows /\ lines' \in Rows
      /\ added \in [Products -> Nat] /\ removed \in [Products -> Nat]
  BY SoundStep DEF Sound, TypeOK, Rows
<1>2. Units(lines, p) \in Nat /\ Units(lines', p) \in Nat
  BY <1>1, UnitsNat
<1>3. Units(lines, p) + removed[p] = added[p]
  BY DEF UnitsAddUp
<1>4. added[p] \in Nat /\ removed[p] \in Nat
  BY <1>1
<1>5. CASE UNCHANGED <<lines, added, removed>>
  BY <1>3, <1>4, <1>5
<1>6. ASSUME NEW r \in Requests, AddInsert(r)
      PROVE  /\ Units(lines', p) + removed'[p] = added'[p]
             /\ added'[p] >= added[p]
  <2>1. PICK i \in LineIds, row \in Line :
          /\ lines' = [lines EXCEPT ![i] = row]
          /\ lines[i] = None
          /\ row.product = request[r].product
          /\ row.quantity = request[r].quantity
    BY <1>6, InsertedLine
  <2>2. lines'[i] = row /\ \A j \in LineIds \ {i} : lines[j] = lines'[j]
    BY <1>1, <2>1 DEF Rows
  <2>3. Units(lines', p) + LineUnits(lines[i], p)
          = Units(lines, p) + LineUnits(lines'[i], p)
    BY <1>1, <2>2, UnitsChange
  <2>4. LineUnits(lines[i], p) = 0
    BY <2>1 DEF LineUnits
  <2>5. row # None /\ row.quantity \in Nat
    BY NoneAssumption, BoundsAssumption DEF Line
  <2>6. /\ added'[p] = added[p] + LineUnits(row, p)
        /\ LineUnits(row, p) \in Nat
    BY <1>1, <1>4, <1>6, <2>1, <2>5 DEF AddInsert, LineUnits
  <2>7. removed' = removed
    BY <1>6 DEF AddInsert
  <2> QED
    BY <1>2, <1>3, <1>4, <2>2, <2>3, <2>4, <2>6, <2>7
<1>7. ASSUME NEW r \in Requests, AddToLine(r)
      PROVE  /\ Units(lines', p) + removed'[p] = added'[p]
             /\ added'[p] >= added[p]
  <2>1. CASE lines[request[r].line] = None
    BY <1>3, <1>4, <1>7, <2>1 DEF AddToLine
  <2>2. CASE lines[request[r].line] # None
    <3> DEFINE q == request[r].quantity
    <3>1. PICK i \in LineIds :
            /\ lines[i] \in Line
            /\ lines[i].product = request[r].product
            /\ q \in 1..MaxQuantity
            /\ lines' = [lines EXCEPT ![i] =
                           [lines[i] EXCEPT !.quantity = @ + q]]
            /\ lines'[i] \in Line
      BY <1>7, <2>2, AddedToLine
    <3>2. /\ lines'[i] = [lines[i] EXCEPT !.quantity = @ + q]
          /\ \A j \in LineIds \ {i} : lines[j] = lines'[j]
      BY <1>1, <3>1 DEF Rows
    <3>3. /\ lines'[i].product = lines[i].product
          /\ lines'[i].quantity = lines[i].quantity + q
      BY <3>1, <3>2 DEF Line
    <3>4. Units(lines', p) + LineUnits(lines[i], p)
            = Units(lines, p) + LineUnits(lines'[i], p)
      BY <1>1, <3>2, UnitsChange
    <3>5. /\ lines[i] # None /\ lines'[i] # None
          /\ lines[i].quantity \in Nat /\ q \in Nat
      BY <3>1, NoneAssumption, BoundsAssumption DEF Line
    <3>6. added' = [added EXCEPT ![request[r].product] = @ + q]
          /\ removed' = removed
      BY <1>7, <2>2 DEF AddToLine
    <3>7. CASE lines[i].product = p
      <4>1. added'[p] = added[p] + q
        BY <1>1, <3>1, <3>6, <3>7
      <4>2. /\ LineUnits(lines[i], p) = lines[i].quantity
            /\ LineUnits(lines'[i], p) = lines[i].quantity + q
        BY <3>3, <3>5, <3>7 DEF LineUnits
      <4> QED
        BY <1>2, <1>3, <1>4, <3>4, <3>5, <3>6, <4>1, <4>2
    <3>8. CASE lines[i].product # p
      <4>1. added'[p] = added[p]
        BY <1>1, <3>1, <3>6, <3>8
      <4>2. LineUnits(lines[i], p) = 0 /\ LineUnits(lines'[i], p) = 0
        BY <3>3, <3>8 DEF LineUnits
      <4> QED
        BY <1>2, <1>3, <1>4, <3>4, <3>6, <4>1, <4>2
    <3> QED
      BY <3>7, <3>8
  <2> QED
    BY <2>1, <2>2
<1>8. ASSUME NEW r \in Requests, SetItem(r)
      PROVE  /\ Units(lines', p) + removed'[p] = added'[p]
             /\ added'[p] >= added[p]
  <2>1. CASE request[r].product = p
    <3>1. /\ added'[p] = added[p] + Units(lines', p)
          /\ removed'[p] = removed[p] + Units(lines, p)
      BY <1>1, <1>8, <2>1 DEF SetItem
    <3> QED
      BY <1>2, <1>3, <1>4, <3>1
  <2>2. CASE request[r].product # p
    <3>1. LinesOf(lines, p) = LinesOf(lines', p)
      BY <1>8, <2>2 DEF SetItem, LinesOf, Present
    <3>2. \A i \in LinesOf(lines, p) : lines[i] = lines'[i]
      BY <1>8, <2>2 DEF SetItem, LinesOf, Present
    <3>3. Units(lines, p) = Units(lines', p)
      BY <3>1, <3>2, UnitsAgree
    <3>4. added'[p] = added[p] /\ removed'[p] = removed[p]
      BY <1>1, <1>8, <2>2 DEF SetItem
    <3> QED
      BY <1>3, <1>4, <3>3, <3>4
  <2> QED
    BY <2>1, <2>2
<1>9. CASE Empty /\ UNCHANGED added
  <2>1. Units(lines', p) = 0
    BY <1>9, UnitsOfNoLines DEF Empty
  <2>2. removed'[p] = removed[p] + Units(lines, p)
    BY <1>9 DEF Empty
  <2> QED
    BY <1>2, <1>3, <1>4, <1>9, <2>1, <2>2
<1> QED
  BY <1>5, <1>6, <1>7, <1>8, <1>9, LinesStep

LEMMA CountedStep == Counted /\ [Next]_vars => Counted'
<1> SUFFICES ASSUME Counted, [Next]_vars PROVE Counted'
  OBVIOUS
<1> USE DEF Counted
<1>1. Sound' /\ Found' /\ UnitsAddUp'
  BY SoundStep, FoundStep, SumsStep DEF UnitsAddUp
<1>2. /\ added \in [Products -> Nat] /\ removed \in [Products -> Nat]
      /\ added' \in [Products -> Nat]
      /\ lines \in Rows
      /\ orders \in Seq(Rows)
  BY <1>1 DEF Sound, TypeOK, Rows
<1>3. ASSUME NEW ls \in Rows, NEW p \in Products, Units(ls, p) <= added[p]
      PROVE  Units(ls, p) <= added'[p]
  <2>1. added'[p] >= added[p]
    BY SumsStep
  <2> QED
    BY <1>2, <1>3, <2>1, UnitsNat
<1>4. \A p \in Products : Units(lines, p) <= added[p]
                          /\ Units(NoLines, p) <= added[p]
  <2> TAKE p \in Products
  <2>1. Units(lines, p) + removed[p] = added[p]
    BY DEF UnitsAddUp
  <2>2. /\ Units(lines, p) \in Nat /\ Units(NoLines, p) = 0
        /\ added[p] \in Nat /\ removed[p] \in Nat
    BY <1>2, UnitsNat, UnitsOfNoLines
  <2> QED
    BY <2>1, <2>2
<1>5. \A r \in Requests : request[r] # None => request[r].items \in Rows
  BY DEF Sound, TypeOK, Request, Rows
<1>6. ReadWasCarted'
  <2> SUFFICES ASSUME NEW r \in Requests, request'[r] # None,
                      NEW p \in Products
               PROVE  Units(request'[r].items, p) <= added'[p]
    BY DEF ReadWasCarted
  <2>1. \/ request'[r].items \in {lines, NoLines}
        \/ request[r] # None /\ request'[r].items = request[r].items
    BY RequestStep
  <2>2. /\ request'[r].items \in Rows
        /\ Units(request'[r].items, p) <= added[p]
    BY <1>2, <1>4, <1>5, <2>1, UnitsOfNoLines DEF ReadWasCarted
  <2> QED
    BY <1>3, <2>2
<1>7. OrdersWereCarted'
  <2> SUFFICES ASSUME NEW k \in DOMAIN orders', NEW p \in Products
               PROVE  Units(orders'[k], p) <= added'[p]
    BY DEF OrdersWereCarted
  <2>1. CASE orders' = orders
    BY <1>2, <1>3, <2>1 DEF OrdersWereCarted
  <2>2. ASSUME NEW r \in Requests, CheckoutOrder(r) \/ CheckoutOrderFails(r)
        PROVE  Units(orders'[k], p) <= added'[p]
    <3>1. /\ request[r] # None
          /\ orders' = Append(orders, request[r].items)
      BY <2>2 DEF CheckoutOrder, CheckoutOrderFails, At
    <3>2. \/ k \in DOMAIN orders /\ orders'[k] = orders[k]
          \/ orders'[k] = request[r].items
      BY <1>2, <1>5, <3>1
    <3>3. orders'[k] \in Rows /\ Units(orders'[k], p) <= added[p]
      BY <1>2, <1>5, <3>1, <3>2 DEF ReadWasCarted, OrdersWereCarted
    <3> QED
      BY <1>3, <3>3
  <2>3. \/ orders' = orders
        \/ \E r \in Requests : CheckoutOrder(r) \/ CheckoutOrderFails(r)
    BY DEF Next, Handle, Start, GetCart, GetNoCart, InsertCart, FindLine,
           AddInsert, AddToLine, SetItem, ClearCart, CheckoutClear, Fail,
           SetActive, vars
  <2> QED
    BY <2>1, <2>2, <2>3
<1> QED
  BY <1>1, <1>6, <1>7

LEMMA CountedHolds == Spec => []Counted
<1>1. Init => Counted
  <2> SUFFICES ASSUME Init, Sound PROVE Counted
    BY SoundInit
  <2>1. UnitsAddUp
    BY UnitsOfNoLines DEF Init, UnitsAddUp
  <2>2. Found /\ ReadWasCarted /\ OrdersWereCarted
    BY DEF Init, Found, ReadWasCarted, OrdersWereCarted
  <2> QED
    BY <2>1, <2>2 DEF Counted
<1> QED
  BY <1>1, CountedStep, PTL DEF Spec

\* However requests interleave, the units in the cart are those put in less those
\* taken out.
THEOREM UnitsAddUpAlways == Spec => []UnitsAddUp
<1>1. Counted => UnitsAddUp
  BY DEF Counted
<1> QED
  BY <1>1, CountedHolds, PTL

\* An order has only units that were in the cart, although the cart changes
\* between the read of a checkout and its order.
THEOREM OrdersWereCartedAlways == Spec => []OrdersWereCarted
<1>1. Counted => OrdersWereCarted
  BY DEF Counted
<1> QED
  BY <1>1, CountedHolds, PTL
=============================================================================
