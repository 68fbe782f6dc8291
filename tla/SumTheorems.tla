----------------------------- MODULE SumTheorems -----------------------------
(***************************************************************************)
(* Facts about the sums of module Sums, for any finite set.  They are      *)
(* stated for a function of weights; a sum over the members of D that      *)
(* satisfy a condition is a sum over D whose other weights are 0.          *)
(***************************************************************************)
EXTENDS Sums, FiniteSetTheorems, TLAPS

Units(D, w) == UNION {{x} \X (1..w[x]) : x \in D}

Tally(D, w) == Cardinality(Units(D, w))

\* The units of a sum.
LEMMA UnitsMember ==
  ASSUME NEW D, NEW w, NEW u
  PROVE  u \in Units(D, w) <=> \E x \in D : \E k \in 1..w[x] : u = <<x, k>>
  BY DEF Units

\* The units of one element.
LEMMA OneElement ==
  ASSUME NEW x, NEW n \in Nat
  PROVE  IsFiniteSet({x} \X (1..n)) /\ Cardinality({x} \X (1..n)) = n
<1>1. IsFiniteSet({x}) /\ Cardinality({x}) = 1
  BY FS_Singleton
<1>2. IsFiniteSet(1..n) /\ Cardinality(1..n) = n
  BY FS_Interval
<1>3. /\ IsFiniteSet({x} \X (1..n))
      /\ Cardinality({x} \X (1..n)) = Cardinality({x}) * Cardinality(1..n)
  BY <1>1, <1>2, FS_Product
<1> QED
  BY <1>1, <1>2, <1>3

\* A sum over a finite set is a natural number.
LEMMA TallyType ==
  ASSUME NEW D, IsFiniteSet(D), NEW w \in [D -> Nat]
  PROVE  IsFiniteSet(Units(D, w)) /\ Tally(D, w) \in Nat
<1> DEFINE Column == [x \in D |-> {x} \X (1..w[x])]
           Columns == {{x} \X (1..w[x]) : x \in D}
<1>1. Column \in Surjection(D, Columns)
  BY DEF Surjection
<1>2. IsFiniteSet(Columns)
  BY <1>1, FS_Surjection
<1>3. ASSUME NEW T \in Columns PROVE IsFiniteSet(T)
  <2>1. PICK x \in D : T = {x} \X (1..w[x])
    BY <1>3
  <2>2. w[x] \in Nat
    OBVIOUS
  <2> QED
    BY <2>1, <2>2, OneElement
<1>4. IsFiniteSet(Units(D, w))
  BY <1>2, <1>3, FS_UNION DEF Units
<1> QED
  BY <1>4, FS_CardinalityType DEF Tally

\* Weights that agree have the same sum.
LEMMA TallySame ==
  ASSUME NEW D, NEW v, NEW w, \A x \in D : v[x] = w[x]
  PROVE  Tally(D, v) = Tally(D, w)
<1>1. \A u : u \in Units(D, v) <=> u \in Units(D, w)
  BY UnitsMember
<1>2. Units(D, v) = Units(D, w)
  BY <1>1
<1> QED
  BY <1>2 DEF Tally

\* Adding up 0.
LEMMA TallyZero ==
  ASSUME NEW D, NEW w, \A x \in D : w[x] = 0
  PROVE  Tally(D, w) = 0
<1>1. \A u : u \notin Units(D, w)
  BY UnitsMember
<1>2. Units(D, w) = {}
  BY <1>1
<1> QED
  BY <1>2, FS_EmptySet DEF Tally

\* Two sums that share no element add up.
LEMMA TallyPlus ==
  ASSUME NEW D, IsFiniteSet(D), NEW v \in [D -> Nat], NEW w \in [D -> Nat],
         \A x \in D : v[x] = 0 \/ w[x] = 0, NEW z \in [D -> Nat],
         \A x \in D : z[x] = v[x] + w[x]
  PROVE  Tally(D, z) = Tally(D, v) + Tally(D, w)
<1>1. ASSUME NEW u PROVE u \in Units(D, z) <=> u \in Units(D, v) \/ u \in Units(D, w)
  <2>1. \A x \in D : \A k : k \in 1..z[x] <=> k \in 1..v[x] \/ k \in 1..w[x]
    OBVIOUS
  <2> QED
    BY <2>1, UnitsMember
<1>2. ASSUME NEW u \in Units(D, v), u \in Units(D, w) PROVE FALSE
  <2>1. PICK x \in D : \E k \in 1..v[x] : u = <<x, k>>
    BY UnitsMember
  <2>2. PICK y \in D : \E k \in 1..w[y] : u = <<y, k>>
    BY <1>2, UnitsMember
  <2>3. x = y
    BY <2>1, <2>2
  <2>4. v[x] # 0 /\ w[x] # 0
    BY <2>1, <2>2, <2>3
  <2> QED
    BY <2>4
<1>3. Units(D, z) = Units(D, v) \cup Units(D, w) /\ Units(D, v) \cap Units(D, w) = {}
  BY <1>1, <1>2
<1>4. Cardinality(Units(D, v) \cup Units(D, w))
        = Cardinality(Units(D, v)) + Cardinality(Units(D, w)) - 0
  BY <1>3, TallyType, FS_Union, FS_EmptySet
<1> QED
  BY <1>3, <1>4, TallyType DEF Tally

\* The sum with one weight only.
LEMMA TallyOnly ==
  ASSUME NEW D, NEW w \in [D -> Nat], NEW x \in D, \A y \in D : y # x => w[y] = 0
  PROVE  Tally(D, w) = w[x]
<1>1. \A u : u \in Units(D, w) <=> \E k \in 1..w[x] : u = <<x, k>>
  BY UnitsMember
<1>2. Units(D, w) = {x} \X (1..w[x])
  BY <1>1
<1>3. w[x] \in Nat
  OBVIOUS
<1>4. Cardinality({x} \X (1..w[x])) = w[x]
  BY <1>3, OneElement
<1> QED
  BY <1>2, <1>4 DEF Tally

\* One weight apart from the others.
LEMMA TallySplit ==
  ASSUME NEW D, IsFiniteSet(D), NEW w \in [D -> Nat], NEW x \in D,
         NEW v, v = [w EXCEPT ![x] = 0]
  PROVE  Tally(D, v) \in Nat /\ Tally(D, w) = Tally(D, v) + w[x]
<1> DEFINE o == [y \in D |-> IF y = x THEN w[x] ELSE 0]
<1>1. v \in [D -> Nat] /\ o \in [D -> Nat]
  OBVIOUS
<1>2. (\A y \in D : v[y] = 0 \/ o[y] = 0) /\ (\A y \in D : w[y] = v[y] + o[y])
  OBVIOUS
<1>3. o[x] = w[x] /\ \A y \in D : y # x => o[y] = 0
  OBVIOUS
<1> HIDE DEF o
<1>4. Tally(D, w) = Tally(D, v) + Tally(D, o)
  BY ONLY <1>1, <1>2, TallyPlus, IsFiniteSet(D), w \in [D -> Nat]
<1>5. Tally(D, o) = w[x]
  BY <1>1, <1>3, TallyOnly
<1>6. Tally(D, v) \in Nat
  BY <1>1, TallyType
<1> QED
  BY ONLY <1>4, <1>5, <1>6

\* A change of one weight changes the sum by as much.
LEMMA TallyChange ==
  ASSUME NEW D, IsFiniteSet(D), NEW v \in [D -> Nat], NEW w \in [D -> Nat], NEW x \in D,
         \A y \in D : y # x => v[y] = w[y]
  PROVE  Tally(D, w) - w[x] = Tally(D, v) - v[x]
<1> DEFINE z == [w EXCEPT ![x] = 0]
<1>1. z = [w EXCEPT ![x] = 0]
  OBVIOUS
<1>2. z = [v EXCEPT ![x] = 0]
  OBVIOUS
<1> HIDE DEF z
<1>3. Tally(D, z) \in Nat /\ Tally(D, w) = Tally(D, z) + w[x]
  BY <1>1, TallySplit
<1>4. Tally(D, v) = Tally(D, z) + v[x]
  BY <1>2, TallySplit
<1>5. w[x] \in Nat /\ v[x] \in Nat
  OBVIOUS
<1> QED
  BY <1>3, <1>4, <1>5

\* No weight is larger than the sum.
LEMMA TallyBound ==
  ASSUME NEW D, IsFiniteSet(D), NEW w \in [D -> Nat], NEW x \in D
  PROVE  w[x] <= Tally(D, w)
<1> DEFINE z == [w EXCEPT ![x] = 0]
<1>1. z = [w EXCEPT ![x] = 0] /\ w[x] \in Nat
  OBVIOUS
<1> HIDE DEF z
<1>2. Tally(D, z) \in Nat /\ Tally(D, w) = Tally(D, z) + w[x]
  BY <1>1, TallySplit
<1> QED
  BY <1>1, <1>2

\* Larger weights have a larger sum.
LEMMA TallyMonotone ==
  ASSUME NEW D, IsFiniteSet(D), NEW v \in [D -> Nat], NEW w \in [D -> Nat],
         \A x \in D : v[x] <= w[x]
  PROVE  Tally(D, v) <= Tally(D, w)
<1>1. \A u : u \in Units(D, v) => u \in Units(D, w)
  BY UnitsMember
<1>2. Units(D, v) \in SUBSET Units(D, w)
  BY <1>1
<1> QED
  BY <1>2, TallyType, FS_Subset DEF Tally

\* A weight that passes from one element to another leaves the sum alone.
LEMMA TallyPass ==
  ASSUME NEW D, IsFiniteSet(D), NEW v \in [D -> Nat], NEW w \in [D -> Nat],
         NEW x \in D, NEW y \in D, x # y, v[y] = 0, w[x] = 0, w[y] = v[x],
         \A z \in D : z # x /\ z # y => v[z] = w[z]
  PROVE  Tally(D, w) = Tally(D, v)
<1>1. PICK u \in [D -> Nat] : u[x] = 0 /\ u[y] = 0 /\ \A z \in D : z # x => u[z] = v[z]
  <2> DEFINE u == [v EXCEPT ![x] = 0]
  <2>1. u \in [D -> Nat] /\ u[x] = 0 /\ u[y] = 0 /\ \A z \in D : z # x => u[z] = v[z]
    OBVIOUS
  <2> QED
    BY <2>1
<1>2. Tally(D, u) - u[x] = Tally(D, v) - v[x]
  BY <1>1, TallyChange
<1>3. Tally(D, w) - w[y] = Tally(D, u) - u[y]
  BY <1>1, TallyChange
<1>4. Tally(D, u) \in Nat /\ Tally(D, v) \in Nat /\ Tally(D, w) \in Nat /\ v[x] \in Nat
  BY <1>1, TallyType
<1> QED
  BY <1>1, <1>2, <1>3, <1>4

=============================================================================
