---------------------------- MODULE SetupProofs ----------------------------
(***************************************************************************)
(* From a machine to spaces that fit it, and from a table to its copy in   *)
(* another space, for any machine, settings, block sizes and table.        *)
(***************************************************************************)
EXTENDS Conversion, SumTheorems, SequenceTheorems, WellFoundedInduction, TLAPS

-----------------------------------------------------------------------------
(* Numbers.                                                                *)

\* A set of numbers that is not empty has a least one.
LEMMA HasLeast ==
  ASSUME NEW T \in SUBSET Nat, T # {}
  PROVE  \E i \in T : \A j \in T : i <= j
<1>1. PICK i \in T : \A j \in T : <<j, i>> \notin OpToRel(<, Nat)
  BY WFMin, NatLessThanWellFounded
<1>2. \A j \in T : ~(j < i)
  BY <1>1 DEF OpToRel
<1> QED
  BY <1>2

\* The members of S in ascending order.
Enumerates(f, S) ==
  /\ f \in [1..Cardinality(S) -> S]
  /\ \A i, j \in DOMAIN f : i < j => f[i] < f[j]

\* A set of positions is finite.
LEMMA PositionsFinite ==
  ASSUME NEW n \in Nat, NEW S \in SUBSET (1..n)
  PROVE  IsFiniteSet(S) /\ Cardinality(S) \in Nat
<1>1. 1 \in Int /\ n \in Int
  OBVIOUS
<1>2. IsFiniteSet(1..n)
  BY ONLY <1>1, FS_Interval
<1>3. IsFiniteSet(S)
  BY ONLY <1>2, FS_Subset, S \in SUBSET (1..n)
<1> QED
  BY ONLY <1>3, FS_CardinalityType

\* One more number, above all others, goes to the end.
LEMMA EnumerateMore ==
  ASSUME NEW n \in Nat, NEW S \in SUBSET (1..n), NEW f, Enumerates(f, S)
  PROVE  \E g : Enumerates(g, S \cup {n + 1})
<1> DEFINE m == Cardinality(S)
           g == [i \in 1..(m + 1) |-> IF i = m + 1 THEN n + 1 ELSE f[i]]
<1>1. IsFiniteSet(S) /\ m \in Nat
  BY PositionsFinite
<1>2. Cardinality(S \cup {n + 1}) = m + 1
  BY <1>1, FS_AddElement
<1> HIDE DEF m
<1>3. f \in [1..m -> S] /\ \A i, j \in 1..m : i < j => f[i] < f[j]
  BY DEF Enumerates, m
<1>4. g \in [1..(m + 1) -> S \cup {n + 1}]
  BY <1>1, <1>3
<1>5. ASSUME NEW i \in 1..(m + 1), NEW j \in 1..(m + 1), i < j PROVE g[i] < g[j]
  <2>0. i \in 1..m /\ g[i] = f[i]
    BY <1>1, <1>5
  <2>1. f[i] \in 1..n
    <3>1. f[i] \in S
      BY <2>0, <1>3
    <3> QED
      BY <3>1
  <2>2. CASE j = m + 1
    BY <2>0, <2>1, <2>2, <1>1
  <2>3. CASE j # m + 1
    <3>1. j \in 1..m /\ g[j] = f[j]
      BY <2>3, <1>1
    <3> QED
      BY <2>0, <3>1, <1>3, <1>5
  <2> QED
    BY <2>2, <2>3
<1>6. DOMAIN g = 1..(m + 1)
  OBVIOUS
<1> QED
  BY <1>2, <1>4, <1>5, <1>6 DEF Enumerates

\* Every set of positions can be enumerated in ascending order: the least bound
\* for which a set could not be would be the successor of one for which all can.
LEMMA CanEnumerate ==
  ASSUME NEW n \in Nat, NEW S \in SUBSET (1..n)
  PROVE  \E f : Enumerates(f, S)
<1> DEFINE Bad == {k \in Nat : \E T \in SUBSET (1..k) : \A f : ~Enumerates(f, T)}
<1>1. SUFFICES Bad = {}
  BY <1>1
<1>2. SUFFICES ASSUME Bad # {} PROVE FALSE
  OBVIOUS
<1>3. PICK k \in Bad : \A j \in Bad : k <= j
  <2>1. Bad \in SUBSET Nat
    OBVIOUS
  <2> HIDE DEF Bad
  <2> QED
    BY <1>2, <2>1, HasLeast
<1>4. PICK T \in SUBSET (1..k) : \A f : ~Enumerates(f, T)
  OBVIOUS
<1>5. k \in Nat
  OBVIOUS
<1>6. CASE k = 0
  <2>1. T = {}
    BY <1>6
  <2>2. Enumerates([i \in 1..0 |-> i], T)
    <3>1. Cardinality(T) = 0
      BY <2>1, FS_EmptySet
    <3> QED
      BY <3>1 DEF Enumerates
  <2> QED
    BY <2>2, <1>4
<1>7. CASE k # 0
  <2>1. k - 1 \in Nat /\ k - 1 \notin Bad /\ (k - 1) + 1 = k
    BY <1>3, <1>5, <1>7
  <2>2. T \ {k} \in SUBSET (1..(k - 1))
    BY <1>4, <1>5
  <2>3. PICK f : Enumerates(f, T \ {k})
    BY <2>1, <2>2
  <2>4. \E g : Enumerates(g, (T \ {k}) \cup {k})
    BY <2>1, <2>2, <2>3, EnumerateMore
  <2>5. CASE k \in T
    <3>1. (T \ {k}) \cup {k} = T
      BY <2>5
    <3> QED
      BY <2>4, <3>1, <1>4
  <2>6. CASE k \notin T
    <3>1. T \ {k} = T
      BY <2>6
    <3> QED
      BY <2>3, <3>1, <1>4
  <2> QED
    BY <2>5, <2>6
<1> QED
  BY <1>6, <1>7

\* Ascending lists all members of a set of positions, each one once.
LEMMA AscendingProperties ==
  ASSUME NEW n \in Nat, NEW S \in SUBSET (1..n)
  PROVE  /\ Cardinality(S) \in Nat
         /\ Ascending(S) \in [1..Cardinality(S) -> S]
         /\ \A i, j \in 1..Cardinality(S) : Ascending(S)[i] = Ascending(S)[j] => i = j
         /\ \A x \in S : \E i \in 1..Cardinality(S) : Ascending(S)[i] = x
<1> DEFINE f == Ascending(S)
<1>0. IsFiniteSet(S) /\ Cardinality(S) \in Nat
  BY PositionsFinite
<1>1. Enumerates(f, S)
  BY CanEnumerate DEF Ascending, Enumerates
<1> HIDE DEF f
<1>2. PICK m \in Nat : m = Cardinality(S)
  BY <1>0
<1>3. f \in [1..m -> S] /\ \A i, j \in 1..m : i < j => f[i] < f[j]
  BY <1>1, <1>2 DEF Enumerates
<1>4. ASSUME NEW i \in 1..m, NEW j \in 1..m, f[i] = f[j] PROVE i = j
  <2>0. f[i] \in S /\ f[j] \in S
    BY <1>3
  <2>1. \A x \in S : x \in Nat /\ ~(x < x)
    OBVIOUS
  <2>2. ~(i < j) /\ ~(j < i)
    BY <1>3, <1>4, <2>0, <2>1
  <2> QED
    BY <2>2
<1>5. f \in Injection(1..m, S)
  BY <1>3, <1>4 DEF Injection, IsInjective
<1>6. Cardinality(1..m) = m
  BY FS_Interval
<1>7. f \in Surjection(1..m, S)
  BY <1>0, <1>2, <1>5, <1>6, FS_Injection
<1>8. \A x \in S : \E i \in 1..m : f[i] = x
  BY <1>7 DEF Surjection
<1> QED
  BY <1>0, <1>2, <1>3, <1>4, <1>8 DEF f

-----------------------------------------------------------------------------
(* Bytes and blocks.                                                       *)

\* The number of the byte at offset o of block j, of blocks of b bytes.
Pos(b, j, o) == (j - 1) * b + o

LEMMA PosType ==
  ASSUME NEW b \in Nat, NEW j \in Nat \ {0}, NEW o \in Nat
  PROVE  Pos(b, j, o) \in Nat /\ Pos(b, j, o) = Pos(b, j, 0) + o
<1>1. j - 1 \in Nat
  OBVIOUS
<1>2. (j - 1) * b \in Nat
  BY <1>1
<1> QED
  BY <1>2 DEF Pos

\* A block ends where the next one begins.
LEMMA PosEnd ==
  ASSUME NEW b \in Nat, NEW j \in Nat \ {0}
  PROVE  Pos(b, j + 1, 0) = Pos(b, j, b)
<1>1. ((j + 1) - 1) * b = (j - 1) * b + b
  OBVIOUS
<1> QED
  BY <1>1 DEF Pos

LEMMA TimesMonotone ==
  ASSUME NEW b \in Nat, NEW i \in Nat, NEW j \in Nat, i <= j
  PROVE  i * b <= j * b
<1>1. PICK d \in Nat : j = i + d
  <2>1. j - i \in Nat /\ j = i + (j - i)
    OBVIOUS
  <2> QED
    BY <2>1
<1>2. j * b = i * b + d * b /\ d * b \in Nat /\ i * b \in Nat
  BY <1>1
<1> QED
  BY <1>2

\* Later blocks hold higher bytes.
LEMMA PosOrder ==
  ASSUME NEW b \in Nat, NEW i \in Nat \ {0}, NEW j \in Nat \ {0}, i < j
  PROVE  Pos(b, i, b) <= Pos(b, j, 0)
<1>1. i \in Nat /\ j - 1 \in Nat /\ i <= j - 1
  OBVIOUS
<1>2. i * b <= (j - 1) * b
  BY <1>1, TimesMonotone
<1>3. i * b = (i - 1) * b + b
  OBVIOUS
<1> QED
  BY <1>2, <1>3 DEF Pos

\* A byte is in one place.
LEMMA PosUnique ==
  ASSUME NEW b \in Nat, NEW i \in Nat \ {0}, NEW j \in Nat \ {0},
         NEW o \in 1..b, NEW q \in 1..b, Pos(b, i, o) = Pos(b, j, q)
  PROVE  i = j /\ o = q
<1>0. o \in Nat /\ q \in Nat /\ 0 \in Nat
  OBVIOUS
<1>1. PICK x \in Nat : x = Pos(b, i, 0) /\ Pos(b, i, o) = x + o /\ Pos(b, i, b) = x + b
  BY <1>0, PosType
<1>2. PICK y \in Nat : y = Pos(b, j, 0) /\ Pos(b, j, q) = y + q /\ Pos(b, j, b) = y + b
  BY <1>0, PosType
<1>3. x + o = y + q
  BY <1>1, <1>2
<1>4. ~(i < j)
  <2>1. SUFFICES ASSUME i < j PROVE FALSE
    OBVIOUS
  <2>2. x + b <= y
    BY <2>1, <1>1, <1>2, PosOrder
  <2> QED
    BY <1>3, <2>2
<1>5. ~(j < i)
  <2>1. SUFFICES ASSUME j < i PROVE FALSE
    OBVIOUS
  <2>2. y + b <= x
    BY <2>1, <1>1, <1>2, PosOrder
  <2> QED
    BY <1>3, <2>2
<1>6. i = j
  BY <1>4, <1>5
<1> QED
  BY <1>1, <1>2, <1>3, <1>6

\* How many blocks of b bytes hold n bytes.
Count(n, b) == IF n = 0 THEN 0 ELSE (n + b - 1) \div b

LEMMA DivBounds ==
  ASSUME NEW n \in Nat, NEW b \in Nat \ {0}
  PROVE  /\ n \div b \in Nat /\ n % b \in 0..(b - 1)
         /\ n = (n \div b) * b + (n % b)
  OBVIOUS

\* The blocks hold n bytes, and without the last one they would not.
LEMMA CountBounds ==
  ASSUME NEW n \in Nat \ {0}, NEW b \in Nat \ {0}
  PROVE  /\ Count(n, b) \in Nat \ {0}
         /\ Pos(b, Count(n, b), 0) < n /\ n <= Pos(b, Count(n, b), b)
<1>1. PICK m \in Nat : m = n + b - 1
  OBVIOUS
<1>2. PICK q \in Nat, r \in 0..(b - 1) : q = m \div b /\ m = q * b + r
  BY DivBounds
<1>3. q # 0
  BY <1>1, <1>2
<1>4. (q - 1) * b = q * b - b /\ q * b \in Nat
  BY <1>2
<1>5. (q - 1) * b < n /\ n <= (q - 1) * b + b
  BY <1>1, <1>2, <1>4
<1>6. Count(n, b) = q
  BY <1>1, <1>2 DEF Count
<1> QED
  BY <1>3, <1>5, <1>6 DEF Pos

\* A byte of the table is in one of its blocks.
LEMMA BlockExists ==
  ASSUME NEW n \in Nat \ {0}, NEW b \in Nat \ {0}, NEW j \in Nat \ {0}, NEW o \in Nat,
         Pos(b, j, o) < n
  PROVE  j \in 1..Count(n, b)
<1>1. PICK c \in Nat \ {0} : c = Count(n, b) /\ n <= Pos(b, c, b)
  BY CountBounds
<1>2. ~(c < j)
  <2>1. SUFFICES ASSUME c < j PROVE FALSE
    OBVIOUS
  <2>2. Pos(b, c, b) <= Pos(b, j, 0)
    BY <2>1, PosOrder
  <2>3. Pos(b, j, o) = Pos(b, j, 0) + o /\ Pos(b, j, 0) \in Nat /\ Pos(b, c, b) \in Nat
    BY PosType
  <2> QED
    BY <1>1, <2>2, <2>3
<1> QED
  BY <1>1, <1>2

\* Where byte k is.
LEMMA PosOf ==
  ASSUME NEW k \in Nat \ {0}, NEW b \in Nat \ {0}
  PROVE  /\ ((k - 1) \div b) + 1 \in Nat \ {0}
         /\ ((k - 1) % b) + 1 \in 1..b
         /\ Pos(b, ((k - 1) \div b) + 1, ((k - 1) % b) + 1) = k
<1>1. PICK m \in Nat : m = k - 1
  OBVIOUS
<1>2. PICK q \in Nat, r \in 0..(b - 1) : q = m \div b /\ r = m % b /\ m = q * b + r
  BY DivBounds
<1>3. ((q + 1) - 1) * b + (r + 1) = k
  BY <1>1, <1>2
<1> QED
  BY <1>1, <1>2, <1>3 DEF Pos

-----------------------------------------------------------------------------
(* Discovery.                                                              *)

\* A bounded set of numbers that is not empty has a greatest one.
LEMMA HasGreatest ==
  ASSUME NEW n \in Nat, NEW T \in SUBSET (0..n), T # {}
  PROVE  \E i \in T : \A j \in T : j <= i
<1> DEFINE U == {k \in Nat : n - k \in T}
<1>1. \A j \in T : j \in 0..n /\ n - j \in U
  OBVIOUS
<1>2. U \in SUBSET Nat /\ U # {}
  BY <1>1
<1>3. \A k \in U : n - k \in T /\ k \in Nat
  OBVIOUS
<1> HIDE DEF U
<1>4. PICK k \in U : \A l \in U : k <= l
  BY <1>2, HasLeast
<1>5. \A j \in T : j <= n - k
  BY <1>1, <1>3, <1>4
<1> QED
  BY <1>3, <1>5

\* The devices of a directory that were found are a sequence.
Devices == [name : Nat, numa_node : Int, pci : Int]

LEMMA DiscoverDevicesType ==
  ASSUME NEW dir \in Seq([numa : Int, pci : Int])
  PROVE  DiscoverDevices(dir) \in Seq(Devices)
<1> DEFINE readable == {n \in 0..Len(dir) : \A i \in 1..n : dir[i].numa # Garbage}
           n == CHOOSE m \in readable : \A k \in readable : k <= m
<1>1. Len(dir) \in Nat /\ readable \in SUBSET (0..Len(dir)) /\ 0 \in readable
  OBVIOUS
<1>2. \E m \in readable : \A k \in readable : k <= m
  <2> HIDE DEF readable
  <2> QED
    BY <1>1, HasGreatest
<1>3. n \in readable
  <2> HIDE DEF readable
  <2> QED
    BY <1>2
<1>4. n \in Nat /\ n <= Len(dir)
  BY <1>1, <1>3
<1>5. DiscoverDevices(dir) =
        [i \in 1..n |-> [name |-> i, numa_node |-> StoiNuma(dir[i].numa), pci |-> dir[i].pci]]
  BY DEF DiscoverDevices
<1> HIDE DEF n, readable
<1>6. ASSUME NEW i \in 1..n
      PROVE  [name |-> i, numa_node |-> StoiNuma(dir[i].numa), pci |-> dir[i].pci] \in Devices
  <2>0. i \in 1..Len(dir) /\ i \in Nat
    BY <1>1, <1>4
  <2>1. dir[i] \in [numa : Int, pci : Int]
    BY <2>0, ElementOfSeq
  <2> QED
    BY <2>0, <2>1 DEF Devices, StoiNuma, UnknownNode
<1>7. DiscoverDevices(dir) \in [1..n -> Devices]
  BY <1>5, <1>6
<1> QED
  BY <1>4, <1>7, SeqDef

\* What the mapping of NICs to a GPU lists: the NICs on the best path.
Path(gpu, d) == PciePathType(StoiNuma(gpu.numa), gpu.pci, d.numa_node, d.pci)

LEMMA MappedNics ==
  ASSUME NEW gpu, NEW nics \in Seq(Devices)
  PROVE  Range(MapNetworkDevicesToGpu(gpu, nics)) =
           {d \in Range(nics) : /\ d.pci # NoPci
                                /\ \A e \in Range(nics) : e.pci # NoPci => Path(gpu, d) <= Path(gpu, e)}
<1> DEFINE with == {i \in DOMAIN nics : nics[i].pci # NoPci}
           S == {i \in with : \A j \in with : Path(gpu, nics[i]) <= Path(gpu, nics[j])}
           best == Ascending(S)
<1>1. DOMAIN nics = 1..Len(nics) /\ Len(nics) \in Nat
  OBVIOUS
<1>2. S \in SUBSET (1..Len(nics))
  BY <1>1
<1>3. MapNetworkDevicesToGpu(gpu, nics) = [k \in 1..Cardinality(S) |-> nics[best[k]]]
  BY DEF MapNetworkDevicesToGpu, Path, Picked
<1>4. \A d : d \in Range(nics) <=> \E i \in 1..Len(nics) : nics[i] = d
  BY <1>1 DEF Range
<1>5. /\ \A i : i \in S <=> /\ i \in 1..Len(nics) /\ nics[i].pci # NoPci
                            /\ \A j \in 1..Len(nics) : nics[j].pci # NoPci =>
                                                         Path(gpu, nics[i]) <= Path(gpu, nics[j])
  BY <1>1
<1> HIDE DEF S
<1>6. /\ DOMAIN best = 1..Cardinality(S) /\ \A k \in DOMAIN best : best[k] \in S
      /\ \A x \in S : \E k \in DOMAIN best : best[k] = x
  <2>1. PICK n \in Nat : n = Len(nics)
    BY <1>1
  <2>2. S \in SUBSET (1..n)
    BY <1>2, <2>1
  <2>3. best \in [1..Cardinality(S) -> S] /\ \A x \in S : \E k \in 1..Cardinality(S) : best[k] = x
    BY <2>2, AscendingProperties
  <2> HIDE DEF best
  <2> QED
    BY <2>3
<1> HIDE DEF best
<1>7. \A d : d \in Range(MapNetworkDevicesToGpu(gpu, nics)) <=> \E i \in S : nics[i] = d
  BY <1>3, <1>6 DEF Range
<1> QED
  BY <1>4, <1>5, <1>7

LEMMA PathIsRemote ==
  ASSUME NEW gpu, gpu.numa \in Int, NEW d \in Devices
  PROVE  LET numa == NumaNodeFromSys(gpu.numa)
         IN  /\ Path(gpu, d) \in {0, 2, 3, 4}
             /\ Path(gpu, d) = 4 <=> d.numa_node >= 0 /\ numa >= 0 /\ d.numa_node # numa
  BY DEF Path, PciePathType, StoiNuma, NumaNodeFromSys, UnknownNode, NoFile, Garbage, SYS, PHB, PIX, NODE, Devices

\* A function on 1..n is a sequence of length n.
LEMMA LengthIs ==
  ASSUME NEW n \in Nat, NEW f, NEW S, f \in [1..n -> S]
  PROVE  f \in Seq(S) /\ Len(f) = n
<1>1. f \in Seq(S)
  BY SeqDef
<1>2. PICK l \in Nat : l = Len(f) /\ DOMAIN f = 1..l
  BY <1>1, LenProperties
<1>3. 1..l = 1..n
  BY <1>2
<1>4. (n \in 1..n <=> n # 0) /\ (l \in 1..l <=> l # 0)
  OBVIOUS
<1>5. (n # 0 => n \in 1..l) /\ (l # 0 => l \in 1..n)
  BY <1>3, <1>4
<1>6. l = n
  BY <1>5
<1> QED
  BY <1>1, <1>2, <1>6

\* A GPU of the topology is a GPU of the machine and has its index.
LEMMA DiscoveredGpus ==
  ASSUME NEW m \in Machines
  PROVE  LET gpus == Discover(m).gpus
             nics == DiscoverNetworkDevices(m)
         IN  /\ \E n \in Nat : DOMAIN gpus = 1..n /\ Len(gpus) = n
             /\ \A k \in DOMAIN gpus : \E i \in DOMAIN m.gpus :
                  gpus[k] = GpuTopology(i - 1, m.gpus[i], nics)
<1> DEFINE nics == DiscoverNetworkDevices(m)
           count == DeviceCount(m)
           found == {i \in 1..count : m.gpus[i].handle /\ m.gpus[i].pciInfo}
           ids == Ascending(found)
           gpus == Discover(m).gpus
<1>1. m.gpus \in Seq(Gpus)
  BY StartupAssumption
<1>2. DOMAIN m.gpus = 1..Len(m.gpus) /\ Len(m.gpus) \in Nat
  BY <1>1
<1>3. count \in Nat /\ count <= Len(m.gpus)
  BY <1>2 DEF DeviceCount
<1>4. gpus = [k \in DOMAIN ids |-> GpuTopology(ids[k] - 1, m.gpus[ids[k]], nics)]
  BY DEF Discover
<1>5. found \in SUBSET (1..count)
  OBVIOUS
<1> HIDE DEF count, found, nics, gpus
<1>6. Cardinality(found) \in Nat /\ ids \in [1..Cardinality(found) -> found]
  BY <1>3, <1>5, AscendingProperties
<1> HIDE DEF ids
<1>7. PICK n \in Nat : n = Cardinality(found)
  BY <1>6
<1>8. ids \in [1..n -> found] /\ DOMAIN ids = 1..n
  BY <1>6, <1>7
<1>9. DOMAIN gpus = 1..n
  BY <1>4, <1>8
<1>10. Len(gpus) = n
  <2>1. gpus \in [1..n -> {gpus[k] : k \in 1..n}]
    BY <1>4, <1>8
  <2> QED
    BY <2>1, LengthIs
<1>11. ASSUME NEW k \in DOMAIN gpus
       PROVE  \E i \in DOMAIN m.gpus : gpus[k] = GpuTopology(i - 1, m.gpus[i], nics)
  <2>1. ids[k] \in found
    BY <1>8, <1>9
  <2>2. ids[k] \in 1..count
    BY <2>1, <1>5
  <2>3. ids[k] \in DOMAIN m.gpus
    BY <2>2, <1>2, <1>3
  <2> QED
    BY <2>3, <1>4, <1>8, <1>9
<1> QED
  BY <1>9, <1>10, <1>11 DEF gpus, nics

\* The mapping that a discovery makes is local where it can be.
LEMMA DiscoveryIsLocal ==
  ASSUME NEW m \in Machines, NEW g \in Range(Discover(m).gpus)
  PROVE  LET usable == {d \in Range(Discover(m).network_devices) : d.pci # NoPci}
             mapped == Range(g.network_devices)
             Remote(d) == d.numa_node >= 0 /\ g.numa_node >= 0 /\ d.numa_node # g.numa_node
         IN  /\ mapped \subseteq usable
             /\ usable # {} => mapped # {}
             /\ (\E d \in mapped : Remote(d)) => \A d \in usable : Remote(d)
<1> DEFINE nics == DiscoverNetworkDevices(m)
           usable == {d \in Range(nics) : d.pci # NoPci}
           mapped == Range(g.network_devices)
           Remote(d) == d.numa_node >= 0 /\ g.numa_node >= 0 /\ d.numa_node # g.numa_node
<1>1. PICK k \in DOMAIN Discover(m).gpus : g = Discover(m).gpus[k]
  BY DEF Range
<1>2. PICK i \in DOMAIN m.gpus : g = GpuTopology(i - 1, m.gpus[i], nics)
  BY <1>1, DiscoveredGpus
<1>3. PICK gpu : gpu = m.gpus[i]
  OBVIOUS
<1>4. gpu \in Gpus
  <2>1. m.gpus \in Seq(Gpus)
    BY StartupAssumption
  <2> QED
    BY <2>1, <1>3
<1>5. gpu.numa \in Int
  BY <1>4 DEF Gpus
<1>6. g.numa_node = NumaNodeFromSys(gpu.numa) /\ mapped = Range(MapNetworkDevicesToGpu(gpu, nics))
  BY <1>2, <1>3 DEF GpuTopology
<1>7. Discover(m).network_devices = nics
  BY DEF Discover
<1>8. nics \in Seq(Devices)
  <2>1. m.nics \in Seq([numa : Int, pci : Int])
    BY StartupAssumption
  <2> QED
    BY <2>1, DiscoverDevicesType DEF DiscoverNetworkDevices
<1> HIDE DEF nics
<1>9. \A d \in Range(nics) : d \in Devices
  BY <1>8 DEF Range
<1>10. mapped = {d \in usable : \A e \in usable : Path(gpu, d) <= Path(gpu, e)}
  BY <1>6, <1>8, MappedNics
<1>11. ASSUME NEW d \in usable
       PROVE  /\ Path(gpu, d) \in {0, 2, 3, 4}
              /\ Path(gpu, d) = 4 <=> Remote(d)
  BY <1>5, <1>6, <1>9, PathIsRemote
<1> HIDE DEF usable, Remote, mapped
<1>12. usable # {} => mapped # {}
  <2>1. SUFFICES ASSUME usable # {} PROVE mapped # {}
    OBVIOUS
  <2>2. PICK p \in {0, 2, 3, 4} : /\ \E d \in usable : Path(gpu, d) = p
                                 /\ \A d \in usable : p <= Path(gpu, d)
    BY <2>1, <1>11
  <2> QED
    BY <2>2, <1>10
<1>13. (\E d \in mapped : Remote(d)) => \A d \in usable : Remote(d)
  <2>1. SUFFICES ASSUME NEW d \in mapped, Remote(d), NEW e \in usable PROVE Remote(e)
    OBVIOUS
  <2>2. d \in usable /\ Path(gpu, d) <= Path(gpu, e)
    BY <1>10
  <2>3. Path(gpu, d) = 4 /\ Path(gpu, e) \in {0, 2, 3, 4}
    BY <2>1, <2>2, <1>11
  <2>4. Path(gpu, e) = 4
    BY <2>2, <2>3
  <2> QED
    BY <2>4, <1>11
<1>14. mapped \subseteq usable
  BY <1>10
<1> QED
  BY <1>7, <1>12, <1>13, <1>14 DEF usable, mapped, Remote

-----------------------------------------------------------------------------
(* Configurations.                                                         *)

ConfigRec ==
  [tier : Tiers, id : Int, device : Int, capacity : Nat, limit : Nat, start : Nat, stop : Nat,
   block_size : Nat]

\* What a space promises fits what it has.
FitsItself(c) == c.limit <= c.capacity /\ c.start <= c.capacity

\* A fraction of at most 1 makes nothing larger, truncated or not.
LEMMA TimesBound ==
  ASSUME NEW size \in Nat, NEW f, f.n \in Nat, f.d \in Nat \ {0}, f.n <= f.d
  PROVE  Times(size, f) \in Nat /\ Times(size, f) <= size
<1>1. PICK n \in Nat, d \in Nat \ {0} : n = f.n /\ d = f.d /\ n <= d
  OBVIOUS
<1>2. PICK x \in Nat : x = size * n
  OBVIOUS
<1>3. PICK q \in Nat, r \in 0..(d - 1) : q = x \div d /\ x = q * d + r
  BY DivBounds
<1>4. x <= size * d
  <2>1. n * size <= d * size
    BY <1>1, TimesMonotone
  <2>2. n * size = size * n /\ d * size = size * d
    OBVIOUS
  <2> QED
    BY <2>1, <2>2, <1>2
<1>5. ~(size < q)
  <2>1. SUFFICES ASSUME size < q PROVE FALSE
    OBVIOUS
  <2>2. (size + 1) * d <= q * d
    BY <2>1, TimesMonotone
  <2>3. (size + 1) * d = size * d + d /\ size * d \in Nat /\ q * d \in Nat
    OBVIOUS
  <2> QED
    BY <2>2, <2>3, <1>3, <1>4
<1>6. Times(size, f) = q
  BY <1>1, <1>2, <1>3 DEF Times
<1> QED
  BY <1>5, <1>6

LEMMA FractionBound ==
  ASSUME NEW size \in Nat, NEW f \in Fractions
  PROVE  Times(size, f) \in Nat /\ Times(size, f) <= size
<1>1. f.n \in Nat /\ f.d \in Nat \ {0} /\ f.n <= f.d
  BY DEF Fractions, Amounts
<1> QED
  BY <1>1, TimesBound

\* A setting in bytes or as a fraction of the total is no more than the total,
\* and what it makes of another size is no more than that size.
LEMMA AmountBound ==
  ASSUME NEW v \in Amounts, NEW total \in Nat, Sound(v, total), NEW size \in Nat
  PROVE  /\ GetCapacity(v, total) \in Nat /\ GetCapacity(v, total) <= total
         /\ Times(size, GetFraction(v, total)) \in Nat /\ Times(size, GetFraction(v, total)) <= size
<1>1. v.kind \in {"fraction", "bytes"} /\ v.n \in Nat
  BY DEF Amounts
<1>2. CASE v.kind = "fraction"
  <2>1. v \in Fractions
    BY <1>2 DEF Fractions
  <2> QED
    BY <2>1, <1>2, FractionBound DEF GetCapacity, GetFraction
<1>3. CASE v.kind = "bytes"
  <2>1. v.n <= total /\ total > 0
    BY <1>3 DEF Sound
  <2>2. PICK f : f = Fraction(v.n, total)
    OBVIOUS
  <2>3. f.n \in Nat /\ f.d \in Nat \ {0} /\ f.n <= f.d
    BY <1>1, <2>1, <2>2 DEF Fraction
  <2>4. GetFraction(v, total) = f
    BY <1>3, <2>2 DEF GetFraction
  <2> QED
    BY <2>1, <2>3, <2>4, <1>1, <1>3, TimesBound DEF GetCapacity
<1> QED
  BY <1>1, <1>2, <1>3

LEMMA GpuConfigFits ==
  ASSUME NEW b \in Builders, NEW info, info.space_id \in Int, info.gpu_capacity \in Nat,
         Sound(b.gpu_capacity, info.gpu_capacity), Sound(b.gpu_reservation, info.gpu_capacity)
  PROVE  LET c == GpuConfig(b, info)
         IN  /\ c \in ConfigRec /\ FitsItself(c)
             /\ c.tier = "GPU" /\ c.id = info.space_id /\ c.device = info.space_id
             /\ c.capacity <= info.gpu_capacity
<1>1. b.gpu_capacity \in Amounts /\ b.gpu_reservation \in Amounts
  BY DEF Builders
<1>2. b.gpu_downgrade.start \in Fractions /\ b.gpu_downgrade.stop \in Fractions
  BY DEF Builders, Triggers
<1>3. PICK capacity \in Nat : /\ capacity = GetCapacity(b.gpu_capacity, info.gpu_capacity)
                             /\ capacity <= info.gpu_capacity
  BY <1>1, AmountBound
<1>4. PICK limit \in Nat : /\ limit = Times(capacity, GetFraction(b.gpu_reservation, info.gpu_capacity))
                          /\ limit <= capacity
  BY <1>1, AmountBound
<1>5. PICK start \in Nat : start = Times(capacity, b.gpu_downgrade.start) /\ start <= capacity
  BY <1>2, FractionBound
<1>6. PICK stop \in Nat : stop = Times(capacity, b.gpu_downgrade.stop)
  BY <1>2, FractionBound
<1>7. GpuConfig(b, info) =
        [tier |-> "GPU", id |-> info.space_id, device |-> info.space_id, capacity |-> capacity,
         limit |-> limit, start |-> start, stop |-> stop, block_size |-> 0]
  BY <1>3, <1>4, <1>5, <1>6 DEF GpuConfig
<1> QED
  BY <1>3, <1>4, <1>5, <1>7 DEF ConfigRec, FitsItself, Tiers

LEMMA HostConfigFits ==
  ASSUME NEW b \in Builders, NEW info, info.space_id \in Int, info.numa_id \in Int,
         NEW capacity \in Nat, Sound(b.cpu_reservation, capacity)
  PROVE  LET c == HostConfig(b, capacity, info)
         IN  /\ c \in ConfigRec /\ FitsItself(c)
             /\ c.tier = "HOST" /\ c.id = info.space_id /\ c.device = info.numa_id
             /\ c.capacity = capacity /\ c.block_size = b.chunk_size
<1>1. b.cpu_reservation \in Amounts /\ b.chunk_size \in Nat
  BY DEF Builders
<1>2. b.host_downgrade.start \in Fractions /\ b.host_downgrade.stop \in Fractions
  BY DEF Builders, Triggers
<1>4. PICK limit \in Nat : /\ limit = Times(capacity, GetFraction(b.cpu_reservation, capacity))
                          /\ limit <= capacity
  BY <1>1, AmountBound
<1>5. PICK start \in Nat : start = Times(capacity, b.host_downgrade.start) /\ start <= capacity
  BY <1>2, FractionBound
<1>6. PICK stop \in Nat : stop = Times(capacity, b.host_downgrade.stop)
  BY <1>2, FractionBound
<1>7. HostConfig(b, capacity, info) =
        [tier |-> "HOST", id |-> info.space_id, device |-> info.numa_id, capacity |-> capacity,
         limit |-> limit, start |-> start, stop |-> stop, block_size |-> b.chunk_size]
  BY <1>4, <1>5, <1>6 DEF HostConfig
<1> QED
  BY <1>1, <1>4, <1>5, <1>7 DEF ConfigRec, FitsItself, Tiers

LEMMA DiskConfigFits ==
  ASSUME NEW disk \in Disks
  PROVE  LET c == DiskConfig(disk)
         IN  /\ c \in ConfigRec /\ FitsItself(c)
             /\ c.tier = "DISK" /\ c.id = disk.id
<1>1. disk.id \in Nat /\ disk.capacity \in Nat
  BY DEF Disks
<1>2. PICK f : f = Fraction(99, 100)
  OBVIOUS
<1>3. f.n \in Nat /\ f.d \in Nat \ {0} /\ f.n <= f.d
  BY <1>2 DEF Fraction
<1>4. PICK stop \in Nat : stop = Times(disk.capacity, Fraction(99, 100))
  BY <1>1, <1>2, <1>3, TimesBound
<1>5. DiskConfig(disk) =
        [tier |-> "DISK", id |-> disk.id, device |-> disk.id, capacity |-> disk.capacity,
         limit |-> disk.capacity, start |-> disk.capacity, stop |-> stop, block_size |-> 0]
  BY <1>4 DEF DiskConfig
<1> QED
  BY <1>1, <1>5 DEF ConfigRec, FitsItself, Tiers

Memory(m) == [k \in DOMAIN m.gpus |-> m.gpus[k].memory]

\* The GPUs that a build uses are the first ones of the machine.
GpuInfosOf(gpus, n, m) ==
  /\ DOMAIN gpus = 1..n
  /\ \A k \in 1..n : /\ k \in DOMAIN m.gpus
                     /\ gpus[k].space_id = k - 1
                     /\ gpus[k].gpu_capacity = m.gpus[k].memory
                     /\ gpus[k].numa_id = NumaNodeFromSys(m.gpus[k].numa)

LEMMA GpuInfosRight ==
  ASSUME NEW m \in Machines, NEW b \in Builders, ~ExtractThrows(b, Discover(m))
  PROVE  /\ RequestedGpus(b, Discover(m)) \in Nat
         /\ GpuInfosOf(ExtractGpuIds(b, Discover(m), Memory(m)), RequestedGpus(b, Discover(m)), m)
<1> DEFINE topo == Discover(m)
           nics == DiscoverNetworkDevices(m)
           n == RequestedGpus(b, topo)
           gpus == ExtractGpuIds(b, topo, Memory(m))
<1>1. /\ Len(topo.gpus) \in Nat
      /\ \A g \in Range(topo.gpus) : \E i \in DOMAIN m.gpus : g = GpuTopology(i - 1, m.gpus[i], nics)
  BY DiscoveredGpus DEF Range
<1>2. b.num_gpus \in Nat
  BY DEF Builders
<1>3. n \in Nat
  BY <1>1, <1>2 DEF RequestedGpus
<1>4. \A id \in 0..(n - 1) : id \in GpuIds(topo)
  BY DEF ExtractThrows
<1>5. gpus = [k \in 1..n |-> [space_id |-> k - 1, gpu_capacity |-> Memory(m)[k],
                              numa_id |-> GpuOf(topo, k - 1).numa_node]]
  BY DEF ExtractGpuIds
<1> HIDE DEF n, topo, gpus, nics
<1>6. m.gpus \in Seq(Gpus)
  BY StartupAssumption
<1>7. ASSUME NEW k \in 1..n
      PROVE  k \in DOMAIN m.gpus /\ GpuOf(topo, k - 1).numa_node = NumaNodeFromSys(m.gpus[k].numa)
  <2>1. k - 1 \in 0..(n - 1)
    BY <1>3
  <2>2. \E g \in Range(topo.gpus) : g.id = k - 1
    BY <1>4, <2>1 DEF GpuIds
  <2>3. PICK g : g = GpuOf(topo, k - 1)
    OBVIOUS
  <2>4. g \in Range(topo.gpus) /\ g.id = k - 1
    BY <2>2, <2>3 DEF GpuOf
  <2>5. PICK i \in DOMAIN m.gpus : g = GpuTopology(i - 1, m.gpus[i], nics)
    BY <1>1, <2>4
  <2>6. i - 1 = k - 1 /\ g.numa_node = NumaNodeFromSys(m.gpus[i].numa)
    BY <2>4, <2>5 DEF GpuTopology
  <2>7. i \in Int /\ k \in Int
    BY <1>6
  <2>8. i = k
    BY <2>6, <2>7
  <2> QED
    BY <2>3, <2>6, <2>8
<1>8. GpuInfosOf(gpus, n, m)
  BY <1>5, <1>7 DEF GpuInfosOf, Memory
<1> QED
  BY <1>3, <1>8 DEF n, gpus, topo

\* Hosts have different ids and sit on the nodes of GPUs that are used.
HostInfosOf(hosts, h, gpus, n) ==
  /\ DOMAIN hosts = 1..h
  /\ \A k \in 1..h : /\ hosts[k].space_id \in Int
                     /\ \E i \in 1..n : hosts[k].numa_id = gpus[i].numa_id
  /\ \A k, l \in 1..h : hosts[k].space_id = hosts[l].space_id => k = l

LEMMA HostInfosRight ==
  ASSUME NEW m \in Machines, NEW b, NEW n \in Nat, NEW gpus, GpuInfosOf(gpus, n, m)
  PROVE  \E h \in Nat : HostInfosOf(ExtractHostIds(b, gpus), h, gpus, n)
<1>1. \A k \in 1..n : gpus[k].numa_id \in Int
  <2>1. m.gpus \in Seq(Gpus)
    BY StartupAssumption
  <2>2. ASSUME NEW k \in 1..n PROVE gpus[k].numa_id \in Int
    <3>1. m.gpus[k] \in Gpus
      BY <2>1 DEF GpuInfosOf
    <3>2. m.gpus[k].numa \in Int
      BY <3>1 DEF Gpus
    <3> QED
      BY <3>2 DEF GpuInfosOf, NumaNodeFromSys, UnknownNode
  <2> QED
    BY <2>2
<1>2. CASE b.host_policy = "gpu"
  <2>1. PICK hosts : hosts = [k \in 1..n |-> [space_id |-> gpus[k].space_id, numa_id |-> gpus[k].numa_id]]
    OBVIOUS
  <2>2. ExtractHostIds(b, gpus) = hosts
    BY <1>2, <2>1 DEF ExtractHostIds, GpuInfosOf
  <2>3. \A k \in 1..n : hosts[k].space_id = k - 1 /\ hosts[k].numa_id = gpus[k].numa_id
    BY <2>1 DEF GpuInfosOf
  <2>4. HostInfosOf(hosts, n, gpus, n)
    BY <2>1, <2>3 DEF HostInfosOf
  <2> QED
    BY <2>2, <2>4
<1>3. CASE b.host_policy # "gpu"
  <2> DEFINE firsts == {k \in DOMAIN gpus : \A j \in 1..(k - 1) : gpus[j].numa_id # gpus[k].numa_id}
  <2>1. PICK order : order = Ascending(firsts)
    OBVIOUS
  <2>2. ExtractHostIds(b, gpus) =
          [i \in DOMAIN order |-> [space_id |-> gpus[order[i]].numa_id, numa_id |-> gpus[order[i]].numa_id]]
    BY <1>3, <2>1 DEF ExtractHostIds
  <2>3. firsts \in SUBSET (1..n)
    BY DEF GpuInfosOf
  <2>4. \A k, l \in firsts : gpus[k].numa_id = gpus[l].numa_id => k = l
    BY <2>3
  <2> HIDE DEF firsts
  <2>5. PICK h \in Nat : /\ order \in [1..h -> firsts]
                         /\ \A i, j \in 1..h : order[i] = order[j] => i = j
    <3>1. /\ Cardinality(firsts) \in Nat /\ Ascending(firsts) \in [1..Cardinality(firsts) -> firsts]
          /\ \A i, j \in 1..Cardinality(firsts) : Ascending(firsts)[i] = Ascending(firsts)[j] => i = j
      BY ONLY <2>3, n \in Nat, AscendingProperties
    <3> QED
      BY ONLY <3>1, <2>1
  <2>6. PICK hosts : hosts = ExtractHostIds(b, gpus)
    OBVIOUS
  <2>7. /\ DOMAIN hosts = 1..h
        /\ \A i \in 1..h : /\ order[i] \in firsts
                           /\ hosts[i].space_id = gpus[order[i]].numa_id
                           /\ hosts[i].numa_id = gpus[order[i]].numa_id
    BY <2>2, <2>5, <2>6
  <2>8. ASSUME NEW i \in 1..h
        PROVE  hosts[i].space_id \in Int /\ \E k \in 1..n : hosts[i].numa_id = gpus[k].numa_id
    <3>1. order[i] \in 1..n
      BY <2>3, <2>7
    <3> QED
      BY <3>1, <2>7, <1>1
  <2>9. ASSUME NEW i \in 1..h, NEW j \in 1..h, hosts[i].space_id = hosts[j].space_id
        PROVE  i = j
    <3>1. order[i] = order[j]
      BY <2>4, <2>7, <2>9
    <3> QED
      BY <3>1, <2>5
  <2>10. HostInfosOf(hosts, h, gpus, n)
    BY <2>7, <2>8, <2>9 DEF HostInfosOf
  <2> QED
    BY <2>6, <2>10
<1> QED
  BY <1>2, <1>3

\* The places of two sequences in their concatenation.
LEMMA ConcatTwo ==
  ASSUME NEW S, NEW s1 \in Seq(S), NEW s2 \in Seq(S), NEW t, t = s1 \o s2
  PROVE  /\ t \in Seq(S) /\ Len(t) = Len(s1) + Len(s2)
         /\ \A i \in 1..Len(s1) : t[i] = s1[i]
         /\ \A i \in 1..Len(s2) : t[Len(s1) + i] = s2[i]
<1>1. PICK p \in Nat, q \in Nat : p = Len(s1) /\ q = Len(s2)
  BY LenProperties
<1>3. t \in Seq(S) /\ Len(t) = p + q
  BY <1>1, ConcatProperties
<1>4. \A i \in 1..(p + q) : t[i] = IF i <= p THEN s1[i] ELSE s2[i - p]
  BY <1>1, ConcatProperties
<1>6. ASSUME NEW i \in 1..p PROVE t[i] = s1[i]
  <2>1. i \in 1..(p + q) /\ i <= p
    OBVIOUS
  <2> QED
    BY <2>1, <1>4
<1>7. ASSUME NEW i \in 1..q PROVE t[p + i] = s2[i]
  <2>1. p + i \in 1..(p + q) /\ ~(p + i <= p) /\ (p + i) - p = i
    OBVIOUS
  <2> QED
    BY <2>1, <1>4
<1> QED
  BY <1>1, <1>3, <1>6, <1>7

HostsOf(cs) == {i \in DOMAIN cs : cs[i].tier = "HOST"}

Fitting(cs, m) ==
  /\ \A i, j \in DOMAIN cs : cs[i].tier = cs[j].tier /\ cs[i].id = cs[j].id => i = j
  /\ \A i \in DOMAIN cs :
       /\ FitsItself(cs[i])
       /\ cs[i].tier = "GPU" => cs[i].capacity <= m.gpus[cs[i].device + 1].memory
       /\ cs[i].tier = "HOST" =>
            \E j \in DOMAIN cs : /\ cs[j].tier = "GPU"
                                 /\ NumaNodeFromSys(m.gpus[cs[j].device + 1].numa) = cs[i].device

\* What one of n hosts gets of a total.
Share(total, n) == IF n <= 1 THEN total ELSE total \div n

Shared(cs, b) ==
  ~b.per_space => \A i \in HostsOf(cs) : cs[i].capacity = Share(b.host_capacity, Cardinality(HostsOf(cs)))

\* What build() makes: configurations for the GPUs, the hosts and the disks, in
\* this order.
LEMMA BuildRight ==
  ASSUME NEW m \in Machines, NEW b \in Builders, \A k \in DOMAIN b.disks : b.disks[k].id = k - 1,
         ~ExtractThrows(b, Discover(m)), BuildSound(b, Discover(m), Memory(m)),
         NEW cs, cs = Build(b, Discover(m), Memory(m))
  PROVE  /\ cs \in Seq(ConfigRec)
         /\ \A i \in HostsOf(cs) : cs[i].block_size # 0
         /\ Fitting(cs, m)
         /\ Shared(cs, b)
<1>a. PICK gpus : gpus = ExtractGpuIds(b, Discover(m), Memory(m))
  OBVIOUS
<1>b. PICK hosts : hosts = ExtractHostIds(b, gpus)
  OBVIOUS
<1>1. PICK n \in Nat : GpuInfosOf(gpus, n, m)
  BY <1>a, GpuInfosRight
<1>2. PICK h \in Nat : HostInfosOf(hosts, h, gpus, n)
  BY <1>b, <1>1, HostInfosRight
<1>3. PICK capacity : capacity = PerHostCapacity(b, hosts)
  OBVIOUS
<1>4. b.host_capacity \in Nat /\ b.disks \in Seq(Disks) /\ b.chunk_size \in Nat \ {0}
  BY DEF Builders
<1>5. PICK d \in Nat : d = Len(b.disks) /\ DOMAIN b.disks = 1..d
  BY <1>4, LenProperties
<1>6. /\ Len(hosts) = h /\ capacity \in Nat
      /\ ~b.per_space => capacity = Share(b.host_capacity, h)
  <2>1. hosts \in [1..h -> {hosts[k] : k \in 1..h}]
    <3>1. hosts = [k \in 1..h |-> hosts[k]]
      BY <1>b, <1>2 DEF HostInfosOf, ExtractHostIds
    <3> QED
      BY <3>1
  <2>2. Len(hosts) = h
    BY <2>1, LengthIs
  <2>3. h > 1 => b.host_capacity \div h \in Nat
    BY <1>4, DivBounds
  <2> QED
    BY <2>2, <2>3, <1>3, <1>4 DEF PerHostCapacity, Share
<1>7. \A k \in 1..n : Sound(b.gpu_capacity, m.gpus[k].memory) /\ Sound(b.gpu_reservation, m.gpus[k].memory)
  BY <1>a, <1>1 DEF BuildSound, GpuInfosOf, Memory
<1>8. n # 0 => Sound(b.cpu_reservation, capacity)
  <2>1. gpus = <<>> => n = 0
    BY <1>1 DEF GpuInfosOf
  <2> QED
    BY <2>1, <1>a, <1>b, <1>3 DEF BuildSound
<1> DEFINE A == [k \in DOMAIN gpus |-> GpuConfig(b, gpus[k])]
           B == [k \in DOMAIN hosts |-> HostConfig(b, capacity, hosts[k])]
           D == [k \in DOMAIN b.disks |-> DiskConfig(b.disks[k])]
<1>9. cs = A \o B \o D
  BY <1>a, <1>b, <1>3 DEF Build
<1>10. ASSUME NEW k \in 1..n
       PROVE  /\ A[k] \in ConfigRec /\ FitsItself(A[k]) /\ A[k].tier = "GPU"
              /\ A[k].id = k - 1 /\ A[k].device = k - 1 /\ A[k].capacity <= m.gpus[k].memory
  <2>1. m.gpus \in Seq(Gpus)
    BY StartupAssumption
  <2>2. m.gpus[k] \in Gpus
    BY <2>1, <1>1 DEF GpuInfosOf
  <2>3. m.gpus[k].memory \in Nat
    BY <2>2 DEF Gpus
  <2>4. /\ gpus[k].space_id = k - 1 /\ k - 1 \in Int /\ gpus[k].gpu_capacity = m.gpus[k].memory
        /\ Sound(b.gpu_capacity, gpus[k].gpu_capacity) /\ Sound(b.gpu_reservation, gpus[k].gpu_capacity)
    BY <1>1, <1>7 DEF GpuInfosOf
  <2>5. A[k] = GpuConfig(b, gpus[k])
    BY <1>1 DEF GpuInfosOf
  <2> QED
    BY <2>3, <2>4, <2>5, GpuConfigFits
<1>11. ASSUME NEW k \in 1..h
       PROVE  /\ B[k] \in ConfigRec /\ FitsItself(B[k]) /\ B[k].tier = "HOST"
              /\ B[k].id = hosts[k].space_id /\ B[k].capacity = capacity
              /\ B[k].block_size = b.chunk_size
              /\ \E i \in 1..n : B[k].device = NumaNodeFromSys(m.gpus[i].numa)
  <2>0. PICK i \in 1..n : hosts[k].numa_id = gpus[i].numa_id
    BY <1>2 DEF HostInfosOf
  <2>1. hosts[k].numa_id = NumaNodeFromSys(m.gpus[i].numa)
    BY <2>0, <1>1 DEF GpuInfosOf
  <2>2. m.gpus \in Seq(Gpus)
    BY StartupAssumption
  <2>3. m.gpus[i] \in Gpus
    BY <2>2, <1>1 DEF GpuInfosOf
  <2>4. hosts[k].numa_id \in Int
    BY <2>1, <2>3 DEF Gpus, NumaNodeFromSys, UnknownNode
  <2>5. hosts[k].space_id \in Int
    BY <1>2 DEF HostInfosOf
  <2>6. B[k] = HostConfig(b, capacity, hosts[k])
    BY <1>2 DEF HostInfosOf
  <2>7. Sound(b.cpu_reservation, capacity)
    BY <1>8
  <2> QED
    BY <2>1, <2>4, <2>5, <2>6, <2>7, <1>6, HostConfigFits
<1>12. ASSUME NEW k \in 1..d
       PROVE  D[k] \in ConfigRec /\ FitsItself(D[k]) /\ D[k].tier = "DISK" /\ D[k].id = k - 1
  <2>1. b.disks[k] \in Disks /\ b.disks[k].id = k - 1
    BY <1>4, <1>5
  <2>2. D[k] = DiskConfig(b.disks[k])
    BY <1>5
  <2> QED
    BY <2>1, <2>2, DiskConfigFits
<1>13. A \in [1..n -> ConfigRec] /\ B \in [1..h -> ConfigRec] /\ D \in [1..d -> ConfigRec]
  BY <1>1, <1>2, <1>5, <1>10, <1>11, <1>12 DEF GpuInfosOf, HostInfosOf
<1> HIDE DEF A, B, D
<1>14. /\ cs \in Seq(ConfigRec) /\ DOMAIN cs = 1..(n + h + d)
       /\ \A i \in 1..n : cs[i] = A[i]
       /\ \A i \in 1..h : cs[n + i] = B[i]
       /\ \A i \in 1..d : cs[n + h + i] = D[i]
  <2>1. PICK t : t = A \o B
    OBVIOUS
  <2>2. cs = t \o D
    BY <1>9, <2>1
  <2>3. /\ A \in Seq(ConfigRec) /\ Len(A) = n /\ B \in Seq(ConfigRec) /\ Len(B) = h
        /\ D \in Seq(ConfigRec) /\ Len(D) = d
    BY <1>13, LengthIs
  <2>4. /\ t \in Seq(ConfigRec) /\ Len(t) = n + h
        /\ \A i \in 1..n : t[i] = A[i]
        /\ \A i \in 1..h : t[n + i] = B[i]
    <3>1. /\ t \in Seq(ConfigRec) /\ Len(t) = Len(A) + Len(B)
          /\ \A i \in 1..Len(A) : t[i] = A[i]
          /\ \A i \in 1..Len(B) : t[Len(A) + i] = B[i]
      <4>1. A \in Seq(ConfigRec) /\ B \in Seq(ConfigRec)
        BY <2>3
      <4>2. t \in Seq(ConfigRec) /\ Len(t) = Len(A) + Len(B)
        BY ONLY <2>1, <4>1, ConcatTwo
      <4>3. \A i \in 1..Len(A) : t[i] = A[i]
        BY ONLY <2>1, <4>1, ConcatTwo
      <4>4. \A i \in 1..Len(B) : t[Len(A) + i] = B[i]
        BY ONLY <2>1, <4>1, ConcatTwo
      <4> QED
        BY <4>2, <4>3, <4>4
    <3> QED
      BY ONLY <2>3, <3>1
  <2>5. /\ cs \in Seq(ConfigRec) /\ Len(cs) = Len(t) + Len(D)
        /\ \A i \in 1..Len(t) : cs[i] = t[i]
        /\ \A i \in 1..Len(D) : cs[Len(t) + i] = D[i]
    <3>1. t \in Seq(ConfigRec) /\ D \in Seq(ConfigRec)
      BY <2>3, <2>4
    <3>2. cs \in Seq(ConfigRec) /\ Len(cs) = Len(t) + Len(D)
      BY ONLY <2>2, <3>1, ConcatTwo
    <3>3. \A i \in 1..Len(t) : cs[i] = t[i]
      BY ONLY <2>2, <3>1, ConcatTwo
    <3>4. \A i \in 1..Len(D) : cs[Len(t) + i] = D[i]
      BY ONLY <2>2, <3>1, ConcatTwo
    <3> QED
      BY <3>2, <3>3, <3>4
  <2>6. DOMAIN cs = 1..(n + h + d) /\ \A i \in 1..d : cs[n + h + i] = D[i]
    BY <2>3, <2>4, <2>5, LenProperties
  <2>7. \A i \in 1..n : i \in 1..Len(t) /\ cs[i] = A[i]
    BY <2>4, <2>5
  <2>8. \A i \in 1..h : n + i \in 1..Len(t) /\ cs[n + i] = B[i]
    BY <2>4, <2>5
  <2> QED
    BY <2>5, <2>6, <2>7, <2>8
<1> USE <1>14
<1>15. ASSUME NEW i \in DOMAIN cs
       PROVE  \/ i \in 1..n /\ cs[i] = A[i]
              \/ \E k \in 1..h : i = n + k /\ cs[i] = B[k]
              \/ \E k \in 1..d : i = n + h + k /\ cs[i] = D[k]
  <2>1. CASE i <= n
    BY <2>1
  <2>2. CASE n < i /\ i <= n + h
    <3>1. i - n \in 1..h /\ i = n + (i - n)
      BY <2>2
    <3> QED
      BY <3>1
  <2>3. CASE n + h < i
    <3>1. i - (n + h) \in 1..d /\ i = n + h + (i - (n + h))
      BY <2>3
    <3> QED
      BY <3>1
  <2> QED
    BY <2>1, <2>2, <2>3
<1>16. \A i \in DOMAIN cs : FitsItself(cs[i])
  BY <1>10, <1>11, <1>12, <1>15
<1>17. ASSUME NEW i \in DOMAIN cs, cs[i].tier = "GPU" PROVE i \in 1..n /\ cs[i] = A[i]
  BY <1>11, <1>12, <1>15, <1>17
<1>18. ASSUME NEW i \in DOMAIN cs, cs[i].tier = "HOST" PROVE \E k \in 1..h : i = n + k /\ cs[i] = B[k]
  BY <1>10, <1>12, <1>15, <1>18
<1>19. ASSUME NEW i \in DOMAIN cs, cs[i].tier = "DISK" PROVE \E k \in 1..d : i = n + h + k /\ cs[i] = D[k]
  BY <1>10, <1>11, <1>15, <1>19
<1>20. ASSUME NEW i \in DOMAIN cs, NEW j \in DOMAIN cs, cs[i].tier = cs[j].tier, cs[i].id = cs[j].id
       PROVE  i = j
  <2>1. CASE cs[i].tier = "GPU"
    <3>1. /\ i \in 1..n /\ cs[i].id = i - 1
          /\ j \in 1..n /\ cs[j].id = j - 1
      BY <2>1, <1>10, <1>17, <1>20
    <3> QED
      BY <3>1, <1>20
  <2>2. CASE cs[i].tier = "HOST"
    <3>1. PICK k \in 1..h : i = n + k /\ cs[i] = B[k]
      BY <2>2, <1>18
    <3>2. PICK l \in 1..h : j = n + l /\ cs[j] = B[l]
      BY <2>2, <1>18, <1>20
    <3>3. hosts[k].space_id = hosts[l].space_id
      BY <3>1, <3>2, <1>11, <1>20
    <3>4. k = l
      BY <3>3, <1>2 DEF HostInfosOf
    <3> QED
      BY <3>1, <3>2, <3>4
  <2>3. CASE cs[i].tier = "DISK"
    <3>1. PICK k \in 1..d : i = n + h + k /\ cs[i] = D[k]
      BY <2>3, <1>19
    <3>2. PICK l \in 1..d : j = n + h + l /\ cs[j] = D[l]
      BY <2>3, <1>19, <1>20
    <3>3. k - 1 = l - 1
      BY <3>1, <3>2, <1>12, <1>20
    <3>4. k \in Nat /\ l \in Nat
      OBVIOUS
    <3>5. k = l
      BY ONLY <3>3, <3>4
    <3> QED
      BY ONLY <3>1, <3>2, <3>5
  <2>4. cs[i].tier \in Tiers
    <3>1. cs[i] \in ConfigRec
      OBVIOUS
    <3> QED
      BY <3>1 DEF ConfigRec
  <2> QED
    BY <2>1, <2>2, <2>3, <2>4 DEF Tiers
<1>21. ASSUME NEW i \in DOMAIN cs, cs[i].tier = "GPU"
       PROVE  cs[i].capacity <= m.gpus[cs[i].device + 1].memory
  <2>1. i \in 1..n /\ cs[i].device = i - 1 /\ cs[i].capacity <= m.gpus[i].memory
    BY <1>10, <1>17, <1>21
  <2>2. cs[i].device + 1 = i
    BY <2>1
  <2> QED
    BY <2>1, <2>2
<1>22. ASSUME NEW i \in DOMAIN cs, cs[i].tier = "HOST"
       PROVE  \E j \in DOMAIN cs : /\ cs[j].tier = "GPU"
                                   /\ NumaNodeFromSys(m.gpus[cs[j].device + 1].numa) = cs[i].device
  <2>1. PICK k \in 1..n : cs[i].device = NumaNodeFromSys(m.gpus[k].numa)
    BY <1>11, <1>18, <1>22
  <2>2. k \in DOMAIN cs /\ cs[k].tier = "GPU" /\ cs[k].device = k - 1
    <3>1. k \in 1..(n + h + d)
      OBVIOUS
    <3>2. cs[k] = A[k]
      OBVIOUS
    <3> QED
      BY <3>1, <3>2, <1>10
  <2>3. cs[k].device + 1 = k
    BY <2>2
  <2> QED
    BY <2>1, <2>2, <2>3
<1>23. Fitting(cs, m)
  BY <1>16, <1>20, <1>21, <1>22 DEF Fitting
<1>24. \A i \in HostsOf(cs) : cs[i].block_size # 0 /\ cs[i].capacity = capacity
  BY <1>4, <1>11, <1>18 DEF HostsOf
<1>25. HostsOf(cs) = (n + 1)..(n + h)
  <2>1. ASSUME NEW i \in HostsOf(cs) PROVE i \in (n + 1)..(n + h)
    BY <1>18 DEF HostsOf
  <2>2. ASSUME NEW i \in (n + 1)..(n + h) PROVE i \in HostsOf(cs)
    <3>1. i - n \in 1..h /\ i = n + (i - n) /\ i \in DOMAIN cs
      OBVIOUS
    <3>2. cs[i] = B[i - n]
      BY <3>1
    <3> QED
      BY <3>1, <3>2, <1>11 DEF HostsOf
  <2> QED
    BY <2>1, <2>2
<1>26. Cardinality(HostsOf(cs)) = h
  <2>1. Cardinality((n + 1)..(n + h)) = IF n + 1 > n + h THEN 0 ELSE (n + h) - (n + 1) + 1
    BY FS_Interval
  <2> QED
    BY <2>1, <1>25
<1>27. Shared(cs, b)
  BY <1>6, <1>24, <1>26 DEF Shared
<1> QED
  BY <1>23, <1>24, <1>27

-----------------------------------------------------------------------------
(* Startup.                                                                *)

\* Settings are sound, and disks are numbered in the order they were given.
BuilderOK(b) == b \in Builders /\ \A k \in DOMAIN b.disks : b.disks[k].id = k - 1

ConfigsOK(cs) == cs \in Seq(ConfigRec) /\ \A i \in HostsOf(cs) : cs[i].block_size # 0

StartInv ==
  /\ BuilderOK(builder)
  /\ ConfigsOK(configs)
  /\ phase \in {"discovered", "built"} => machine \in Machines /\ topology = Discover(machine)
  /\ phase = "built" => Fitting(configs, machine) /\ Shared(configs, builder)

LEMMA SettersKeep ==
  ASSUME NEW b, BuilderOK(b), NEW new \in Setters(b)
  PROVE  BuilderOK(new)
<1>1. b \in Builders
  BY DEF BuilderOK
<1>2. ASSUME new \in Builders, new.disks = b.disks PROVE BuilderOK(new)
  BY <1>2 DEF BuilderOK
<1>3. ASSUME NEW n \in 1..2, new = SetNumberOfGpus(b, n) PROVE BuilderOK(new)
  BY <1>1, <1>2, <1>3 DEF SetNumberOfGpus, Builders
<1>4. ASSUME NEW v \in GpuUsages, new = SetGpuUsage(b, v) PROVE BuilderOK(new)
  <2>1. v \in Amounts
    BY StartupAssumption
  <2> QED
    BY <1>1, <1>2, <1>4, <2>1 DEF SetGpuUsage, Builders
<1>5. ASSUME NEW v \in GpuReservations, new = SetGpuReservation(b, v) PROVE BuilderOK(new)
  <2>1. v \in Amounts
    BY StartupAssumption
  <2> QED
    BY <1>1, <1>2, <1>5, <2>1 DEF SetGpuReservation, Builders
<1>6. ASSUME NEW p \in Downgrades, new = SetDowngradePerGpu(b, p[1], p[2]) PROVE BuilderOK(new)
  <2>1. p[1] \in Fractions /\ p[2] \in Fractions
    BY StartupAssumption
  <2>2. [start |-> p[1], stop |-> p[2]] \in Triggers
    BY <2>1 DEF Triggers
  <2> QED
    BY <1>1, <1>2, <1>6, <2>2 DEF SetDowngradePerGpu, Builders
<1>7. ASSUME NEW what \in {"gpu", "numa"}, new = UseHostPer(b, what) PROVE BuilderOK(new)
  BY <1>1, <1>2, <1>7 DEF UseHostPer, Builders
<1>8. ASSUME NEW n \in HostCapacities, new = SetTotalHostCapacity(b, n) PROVE BuilderOK(new)
  <2>1. n \in Nat /\ FALSE \in BOOLEAN
    BY StartupAssumption
  <2> QED
    BY <1>1, <1>2, <1>8, <2>1 DEF SetTotalHostCapacity, Builders
<1>9. ASSUME NEW n \in HostCapacities, new = SetPerHostCapacity(b, n) PROVE BuilderOK(new)
  <2>1. n \in Nat /\ TRUE \in BOOLEAN
    BY StartupAssumption
  <2> QED
    BY <1>1, <1>2, <1>9, <2>1 DEF SetPerHostCapacity, Builders
<1>10. ASSUME NEW v \in HostReservations, new = SetHostReservation(b, v) PROVE BuilderOK(new)
  <2>1. v \in Amounts
    BY StartupAssumption
  <2> QED
    BY <1>1, <1>2, <1>10, <2>1 DEF SetHostReservation, Builders
<1>11. ASSUME NEW p \in Downgrades, new = SetDowngradePerHost(b, p[1], p[2]) PROVE BuilderOK(new)
  <2>1. p[1] \in Fractions /\ p[2] \in Fractions
    BY StartupAssumption
  <2>2. [start |-> p[1], stop |-> p[2]] \in Triggers
    BY <2>1 DEF Triggers
  <2> QED
    BY <1>1, <1>2, <1>11, <2>2 DEF SetDowngradePerHost, Builders
<1>12. ASSUME NEW n \in ChunkSizes, new = SetHostPoolFeatures(b, n) PROVE BuilderOK(new)
  <2>1. n \in Nat \ {0}
    BY StartupAssumption
  <2> QED
    BY <1>1, <1>2, <1>12, <2>1 DEF SetHostPoolFeatures, Builders
<1>13. ASSUME NEW n \in DiskSizes, new = SetDiskMountingPoint(b, Len(b.disks), n) PROVE BuilderOK(new)
  <2>1. n \in Nat
    BY StartupAssumption
  <2>2. PICK disks : disks = b.disks
    OBVIOUS
  <2>3. disks \in Seq(Disks) /\ \A k \in 1..Len(disks) : disks[k].id = k - 1
    BY <2>2 DEF BuilderOK, Builders
  <2>4. PICK disk : disk = [id |-> Len(disks), capacity |-> n]
    OBVIOUS
  <2>5. disk \in Disks /\ disk.id = Len(disks)
    BY <2>1, <2>3, <2>4 DEF Disks
  <2>6. PICK more : more = Append(disks, disk)
    OBVIOUS
  <2>7. /\ more \in Seq(Disks) /\ Len(more) = Len(disks) + 1
        /\ \A k \in 1..Len(more) : more[k].id = k - 1
    BY <2>3, <2>5, <2>6
  <2>8. new = [b EXCEPT !.disks = more]
    BY <1>13, <2>2, <2>4, <2>6 DEF SetDiskMountingPoint
  <2>9. new \in Builders /\ new.disks = more
    BY <1>1, <2>7, <2>8 DEF Builders
  <2> QED
    BY <2>7, <2>9 DEF BuilderOK
<1> QED
  BY <1>3, <1>4, <1>5, <1>6, <1>7, <1>8, <1>9, <1>10, <1>11, <1>12, <1>13 DEF Setters

\* Two configurations that differ in their block sizes at most.
SameSpace(c, d) ==
  /\ c.tier = d.tier /\ c.id = d.id /\ c.device = d.device
  /\ c.capacity = d.capacity /\ c.limit = d.limit /\ c.start = d.start

\* A client that changes a block size leaves everything else as it was.
LEMMA TuneKeeps ==
  ASSUME NEW cs, NEW ds, DOMAIN ds = DOMAIN cs, \A j \in DOMAIN cs : SameSpace(ds[j], cs[j])
  PROVE  /\ HostsOf(ds) = HostsOf(cs)
         /\ \A m : Fitting(cs, m) => Fitting(ds, m)
         /\ \A b : Shared(cs, b) => Shared(ds, b)
<1>1. HostsOf(ds) = HostsOf(cs)
  BY DEF HostsOf, SameSpace
<1>2. ASSUME NEW m, Fitting(cs, m) PROVE Fitting(ds, m)
  BY <1>2 DEF Fitting, FitsItself, SameSpace
<1>3. ASSUME NEW b, Shared(cs, b) PROVE Shared(ds, b)
  BY <1>1, <1>3 DEF Shared, HostsOf, SameSpace
<1> QED
  BY <1>1, <1>2, <1>3

LEMMA StartInitially == StartInit => StartInv
<1> SUFFICES ASSUME StartInit PROVE StartInv
  OBVIOUS
<1>1. DOMAIN DefaultBuilder.disks = {}
  BY StartupAssumption
<1>2. BuilderOK(builder)
  BY <1>1, StartupAssumption DEF StartInit, BuilderOK
<1>3. ConfigsOK(configs)
  BY DEF StartInit, ConfigsOK, HostsOf
<1> QED
  BY <1>2, <1>3 DEF StartInit, StartInv

LEMMA StartStep == StartInv /\ [StartNext]_startVars => StartInv'
<1> SUFFICES ASSUME StartInv, [StartNext]_startVars PROVE StartInv'
  OBVIOUS
<1>1. CASE UNCHANGED startVars
  BY <1>1 DEF StartInv, startVars
<1>2. CASE CallSetter
  <2>1. BuilderOK(builder')
    BY <1>2, SettersKeep DEF CallSetter, StartInv
  <2> QED
    BY <1>2, <2>1 DEF CallSetter, StartInv
<1>3. ASSUME NEW m \in Machines, RunDiscovery(m) PROVE StartInv'
  <2>1. phase' \in {"threw", "discovered"}
    BY <1>3 DEF RunDiscovery
  <2> QED
    BY <1>3, <2>1 DEF RunDiscovery, StartInv
<1>4. CASE RunBuild
  <2>1. machine \in Machines /\ topology = Discover(machine)
    BY <1>4 DEF RunBuild, StartInv
  <2>2. CASE ExtractThrows(builder, topology)
    <3>1. phase' = "threw" /\ configs' = <<>>
      BY <1>4, <2>2 DEF RunBuild
    <3>2. ConfigsOK(<<>>)
      BY DEF ConfigsOK, HostsOf
    <3> QED
      BY <1>4, <3>1, <3>2 DEF RunBuild, StartInv
  <2>3. CASE ~ExtractThrows(builder, topology)
    <3>1. /\ phase' = "built" /\ configs' = Build(builder, topology, Memory(machine))
          /\ BuildSound(builder, topology, Memory(machine))
      BY <1>4, <2>3 DEF RunBuild, Memory
    <3>2. ConfigsOK(configs') /\ Fitting(configs', machine) /\ Shared(configs', builder)
      <4>1. builder \in Builders /\ \A k \in DOMAIN builder.disks : builder.disks[k].id = k - 1
        BY DEF StartInv, BuilderOK
      <4>2. PICK cs : cs = configs'
        OBVIOUS
      <4>3. cs = Build(builder, Discover(machine), Memory(machine))
        BY <2>1, <3>1, <4>2
      <4>4. ~ExtractThrows(builder, Discover(machine)) /\ BuildSound(builder, Discover(machine), Memory(machine))
        BY <2>1, <2>3, <3>1
      <4>5. /\ cs \in Seq(ConfigRec) /\ \A i \in HostsOf(cs) : cs[i].block_size # 0
            /\ Fitting(cs, machine) /\ Shared(cs, builder)
        BY <2>1, <4>1, <4>3, <4>4, BuildRight
      <4> QED
        BY <4>2, <4>5 DEF ConfigsOK
    <3> QED
      BY <1>4, <2>1, <3>1, <3>2 DEF RunBuild, StartInv
  <2> QED
    BY <2>2, <2>3
<1>5. ASSUME NEW i \in DOMAIN configs, NEW n \in ChunkSizes, TuneBlockSize(i, n) PROVE StartInv'
  <2>1. n \in Nat \ {0}
    BY StartupAssumption
  <2>2. PICK cs : cs = configs'
    OBVIOUS
  <2>3. ConfigsOK(configs) /\ configs[i].tier = "HOST" /\ cs = [configs EXCEPT ![i].block_size = n]
    BY <1>5, <2>2 DEF TuneBlockSize, StartInv
  <2>4. /\ ConfigsOK(cs)
        /\ Fitting(configs, machine) => Fitting(cs, machine)
        /\ Shared(configs, builder) => Shared(cs, builder)
    <3>1. configs \in Seq(ConfigRec) /\ configs[i] \in ConfigRec /\ i \in 1..Len(configs)
      BY <2>3 DEF ConfigsOK
    <3>2. PICK c \in ConfigRec : c = [configs[i] EXCEPT !.block_size = n]
      BY <2>1, <3>1 DEF ConfigRec
    <3>3. cs = [configs EXCEPT ![i] = c]
      BY <2>3, <3>2
    <3>4. cs \in Seq(ConfigRec) /\ DOMAIN cs = DOMAIN configs
      BY <3>1, <3>3
    <3>5. /\ \A j \in DOMAIN configs : j # i => cs[j] = configs[j]
          /\ cs[i] = c /\ c.block_size = n /\ SameSpace(c, configs[i])
      BY <3>1, <3>2, <3>3 DEF SameSpace, ConfigRec
    <3>6. \A j \in DOMAIN configs : SameSpace(cs[j], configs[j])
      BY <3>5 DEF SameSpace
    <3>7. /\ HostsOf(cs) = HostsOf(configs)
          /\ Fitting(configs, machine) => Fitting(cs, machine)
          /\ Shared(configs, builder) => Shared(cs, builder)
      BY ONLY <3>4, <3>6, TuneKeeps
    <3>8. ConfigsOK(cs)
      BY <2>1, <2>3, <3>4, <3>5, <3>7 DEF ConfigsOK, HostsOf
    <3> QED
      BY <3>7, <3>8
  <2>5. phase = "built" /\ UNCHANGED <<phase, builder, machine, topology>>
    BY <1>5 DEF TuneBlockSize
  <2> QED
    BY <2>2, <2>4, <2>5 DEF StartInv
<1>6. CASE StartManager
  <2>1. phase' \in {"threw", "running"} /\ builder' = DefaultBuilder /\ configs' = configs
    BY <1>6 DEF StartManager
  <2>2. DOMAIN DefaultBuilder.disks = {}
    BY StartupAssumption
  <2>3. BuilderOK(DefaultBuilder)
    BY <2>2, StartupAssumption DEF BuilderOK
  <2> QED
    BY <2>1, <2>3 DEF StartInv
<1> QED
  BY <1>1, <1>2, <1>3, <1>4, <1>5, <1>6 DEF StartNext

\* Conversions change nothing of the setup.
LEMMA NextIsStart == [Next]_allVars => [StartNext]_startVars
<1> SUFFICES ASSUME [Next]_allVars PROVE [StartNext]_startVars
  OBVIOUS
<1>1. CASE UNCHANGED allVars
  BY <1>1 DEF allVars
<1>2. CASE StartNext /\ UNCHANGED convVars
  BY <1>2
<1>3. CASE ConvNext
  <2>1. UNCHANGED startVars
    BY <1>3 DEF ConvNext, RegisterConverter, UnregisterConverter, RegisterBuiltin, Clear, NewTable, Convert,
       UseDevice, AllocationThrows, AllocationSucceeds, ConvertGpuToHost, ConvertHostToGpu,
       ConvertHostToHost, ConvertGpuToGpu, CopyTurn, ConversionReturns
  <2> QED
    BY <2>1
<1> QED
  BY <1>1, <1>2, <1>3 DEF Next

\* From the setters to the running manager: settings stay sound, a build starts
\* from the topology of the machine, and what it makes fits that machine.
THEOREM StartInvariant == Spec => []StartInv
  BY StartInitially, StartStep, NextIsStart, PTL DEF Spec, ConvInit

\* No NIC of another NUMA node is mapped to a GPU unless no NIC with PCI
\* information sits on its own, and a GPU gets one whenever there is one, for
\* any machine (topology_discovery::discover).
THEOREM NicsAreLocal == Spec => []MappedNicsAreLocal
<1>1. StartInv => MappedNicsAreLocal
  <2> SUFFICES ASSUME StartInv, phase = "discovered" PROVE MappedNicsAreLocal
    BY DEF MappedNicsAreLocal
  <2>1. machine \in Machines /\ topology = Discover(machine)
    BY DEF StartInv
  <2> QED
    BY <2>1, DiscoveryIsLocal DEF MappedNicsAreLocal
<1> QED
  BY <1>1, StartInvariant, PTL

\* The configurations that build() makes of any machine and any sound settings
\* have different ids within a tier, limits within capacities, capacities within
\* devices, and hosts on the nodes of GPUs that are used.
THEOREM SpacesFit == Spec => []SpacesFitMachine
<1>1. StartInv => SpacesFitMachine
  BY DEF StartInv, SpacesFitMachine, Fitting, FitsItself
<1> QED
  BY <1>1, StartInvariant, PTL

\* However many hosts there are, their capacities add up to the total that was
\* set, up to what the division leaves over
\* (reservation_manager_configurator::build).
THEOREM TotalIsShared == Spec => []TotalHostCapacityKept
<1>1. StartInv => TotalHostCapacityKept
  <2> DEFINE hosts == HostsOf(configs)
             total == builder.host_capacity
  <2> SUFFICES ASSUME StartInv, phase = "built", ~builder.per_space, hosts # {}
               PROVE  HostCapacity <= total /\ HostCapacity + Cardinality(hosts) > total
    BY DEF TotalHostCapacityKept, HostsOf
  <2>1. total \in Nat
    BY DEF StartInv, BuilderOK, Builders
  <2>2. PICK n \in Nat : DOMAIN configs = 1..n
    BY LenProperties DEF StartInv, ConfigsOK
  <2>3. hosts \in SUBSET (1..n)
    BY <2>2 DEF HostsOf
  <2>4. IsFiniteSet(hosts) /\ Cardinality(hosts) \in Nat
    BY <2>3, PositionsFinite
  <2>5. PICK h \in Nat \ {0} : h = Cardinality(hosts)
    BY <2>4, FS_EmptySet
  <2>6. PICK q \in Nat : q = Share(total, h) /\ h * q <= total /\ total < h * q + h
    <3>1. CASE h = 1
      BY <3>1, <2>1 DEF Share
    <3>2. CASE h # 1
      <4>1. PICK q \in Nat, r \in 0..(h - 1) : q = total \div h /\ total = q * h + r
        BY <2>1, DivBounds
      <4>2. h * q = q * h /\ q * h \in Nat
        OBVIOUS
      <4>3. h * q <= total /\ total < h * q + h
        BY <4>1, <4>2
      <4>4. q = Share(total, h)
        BY <3>2, <4>1 DEF Share
      <4> QED
        BY <4>3, <4>4
    <3> QED
      BY <3>1, <3>2
  <2>7. \A i \in hosts : configs[i].capacity = q
    BY <2>5, <2>6 DEF StartInv, Shared
  <2>8. HostCapacity = Cardinality(UNION {{i} \X (1..configs[i].capacity) : i \in hosts})
    BY DEF HostCapacity, SumOver, HostsOf
  <2> HIDE DEF hosts, total
  <2>9. UNION {{i} \X (1..configs[i].capacity) : i \in hosts} = hosts \X (1..q)
    BY <2>7
  <2>10. IsFiniteSet(1..q) /\ Cardinality(1..q) = q
    BY FS_Interval
  <2>11. Cardinality(hosts \X (1..q)) = Cardinality(hosts) * Cardinality(1..q)
    BY <2>4, <2>10, FS_Product
  <2>12. HostCapacity = h * q
    BY <2>5, <2>8, <2>9, <2>10, <2>11
  <2> QED
    BY <2>1, <2>5, <2>6, <2>12
<1> QED
  BY <1>1, StartInvariant, PTL

-----------------------------------------------------------------------------
(* Candidates.                                                             *)

\* A sequence of the members of T, each one once.
Lists(p, T) ==
  /\ p \in Seq(T)
  /\ \A x \in T : \E k \in 1..Len(p) : p[k] = x
  /\ \A k, l \in 1..Len(p) : p[k] = p[l] => k = l

\* All of A that is in p comes before what is in B.
Before(p, A, B) == \A k, l \in 1..Len(p) : p[k] \in A /\ p[l] \in B => k < l

LEMMA PickedLists ==
  ASSUME NEW T, NEW q, Lists(q, T), NEW K, K \in SUBSET (1..Len(q)), NEW U, U = {q[k] : k \in K},
         NEW p, p = Picked(q, K)
  PROVE  Lists(p, U)
<1>1. PICK n \in Nat : n = Len(q) /\ q \in Seq(T)
  BY LenProperties DEF Lists
<1>2. K \in SUBSET (1..n)
  BY <1>1
<1>a. PICK m \in Nat : m = Cardinality(K)
  BY ONLY <1>2, AscendingProperties, n \in Nat
<1>b. PICK f : f = Ascending(K)
  OBVIOUS
<1>3. m = Cardinality(K) /\ f = Ascending(K)
  BY <1>a, <1>b
<1>4. f \in [1..m -> K]
  BY ONLY <1>2, <1>3, AscendingProperties, n \in Nat
<1>5. \A i, j \in 1..m : f[i] = f[j] => i = j
  BY ONLY <1>2, <1>3, AscendingProperties, n \in Nat
<1>6. \A x \in K : \E i \in 1..m : f[i] = x
  BY ONLY <1>2, <1>3, AscendingProperties, n \in Nat
<1>7. p = [i \in 1..m |-> q[f[i]]]
  BY <1>3 DEF Picked
<1>8. p \in [1..m -> U]
  BY <1>4, <1>7
<1>9. p \in Seq(U) /\ Len(p) = m
  BY ONLY <1>8, LengthIs, m \in Nat
<1>10. \A x \in U : \E i \in 1..m : p[i] = x
  BY <1>6, <1>7
<1>11. ASSUME NEW i \in 1..m, NEW j \in 1..m, p[i] = p[j] PROVE i = j
  <2>1. f[i] \in 1..Len(q) /\ f[j] \in 1..Len(q) /\ q[f[i]] = q[f[j]]
    BY <1>4, <1>7, <1>11
  <2>2. \A x, y \in 1..Len(q) : q[x] = q[y] => x = y
    BY DEF Lists
  <2>3. f[i] = f[j]
    BY ONLY <2>1, <2>2
  <2> QED
    BY <2>3, <1>5
<1> QED
  BY <1>9, <1>10, <1>11 DEF Lists

LEMMA ConcatLists ==
  ASSUME NEW A, NEW B, A \cap B = {}, NEW p, Lists(p, A), NEW q, Lists(q, B), NEW s, s = p \o q
  PROVE  Lists(s, A \cup B) /\ Before(s, A, B)
<1>1. p \in Seq(A) /\ q \in Seq(B)
  BY DEF Lists
<1>2. PICK m \in Nat, n \in Nat : m = Len(p) /\ n = Len(q)
  BY <1>1, LenProperties
<1>3. p \in Seq(A \cup B) /\ q \in Seq(A \cup B)
  <2>1. p \in [1..m -> A] /\ q \in [1..n -> B]
    BY <1>1, <1>2, LenProperties
  <2>2. p \in [1..m -> A \cup B] /\ q \in [1..n -> A \cup B]
    BY <2>1
  <2> QED
    BY <2>2, LengthIs
<1>4. s \in Seq(A \cup B) /\ Len(s) = m + n
  BY ONLY <1>2, <1>3, ConcatTwo, s = p \o q
<1>5. \A i \in 1..m : s[i] = p[i]
  BY ONLY <1>2, <1>3, ConcatTwo, s = p \o q
<1>6. \A i \in 1..n : s[m + i] = q[i]
  BY ONLY <1>2, <1>3, ConcatTwo, s = p \o q
<1>7. \A i \in 1..m : s[i] \in A
  BY <1>1, <1>2, <1>5, ElementOfSeq
<1>8. \A i \in 1..n : s[m + i] \in B
  BY <1>1, <1>2, <1>6, ElementOfSeq
<1>9. \A k \in 1..(m + n) : k \in 1..m \/ \E i \in 1..n : k = m + i
  <2>1. ASSUME NEW k \in 1..(m + n), k \notin 1..m PROVE \E i \in 1..n : k = m + i
    <3>1. k - m \in 1..n /\ k = m + (k - m)
      BY <2>1
    <3> QED
      BY <3>1
  <2> QED
    BY <2>1
<1>10. \A k \in 1..(m + n) : (s[k] \in A <=> k \in 1..m) /\ (s[k] \in B <=> k \notin 1..m)
  <2>1. \A i \in 1..n : m + i \notin 1..m
    OBVIOUS
  <2> QED
    BY <2>1, <1>7, <1>8, <1>9
<1>11. Before(s, A, B)
  <2>1. \A k, l \in 1..(m + n) : k \in 1..m /\ l \notin 1..m => k < l
    OBVIOUS
  <2> QED
    BY <2>1, <1>4, <1>10 DEF Before
<1>12. ASSUME NEW x \in A \cup B PROVE \E k \in 1..(m + n) : s[k] = x
  <2>1. CASE x \in A
    <3>1. PICK i \in 1..m : p[i] = x
      BY <2>1, <1>2 DEF Lists
    <3>2. i \in 1..(m + n)
      OBVIOUS
    <3>3. s[i] = x
      BY ONLY <3>1, <1>5, i \in 1..m
    <3> QED
      BY <3>2, <3>3
  <2>2. CASE x \in B
    <3>1. PICK i \in 1..n : q[i] = x
      BY <2>2, <1>2 DEF Lists
    <3>2. m + i \in 1..(m + n)
      OBVIOUS
    <3>3. s[m + i] = x
      BY ONLY <3>1, <1>6, i \in 1..n
    <3> QED
      BY <3>2, <3>3
  <2> QED
    BY <2>1, <2>2
<1>13. ASSUME NEW k \in 1..(m + n), NEW l \in 1..(m + n), s[k] = s[l] PROVE k = l
  <2>1. CASE k \in 1..m
    <3>1. l \in 1..m
      BY <2>1, <1>10, <1>13
    <3>2. p[k] = p[l]
      BY <2>1, <3>1, <1>5, <1>13
    <3> QED
      BY <2>1, <3>1, <3>2, <1>2 DEF Lists
  <2>2. CASE k \notin 1..m
    <3>1. l \notin 1..m
      BY <2>2, <1>10, <1>13
    <3>2. PICK i \in 1..n, j \in 1..n : k = m + i /\ l = m + j
      BY <2>2, <3>1, <1>9
    <3>3. q[i] = q[j]
      BY <3>2, <1>6, <1>13
    <3>4. i = j
      BY <3>3, <1>2 DEF Lists
    <3> QED
      BY <3>2, <3>4
  <2> QED
    BY <2>1, <2>2
<1> QED
  BY <1>4, <1>11, <1>12, <1>13 DEF Lists

\* The configurations of a tier, and those with an id.
OfTier(cs, tier) == {i \in DOMAIN cs : cs[i].tier = tier}
WithId(cs, S, d) == {i \in S : cs[i].id = d}

LEMMA SpacesListed ==
  ASSUME NEW cs \in Seq(ConfigRec), NEW tier
  PROVE  Lists(SpacesForTier(cs, tier), OfTier(cs, tier))
<1>1. PICK n \in Nat : n = Len(cs) /\ DOMAIN cs = 1..n
  BY LenProperties
<1>2. PICK all : all = AllSpaces(cs)
  OBVIOUS
<1>3. all = [i \in 1..n |-> i]
  BY <1>1, <1>2 DEF AllSpaces
<1>4. all \in Seq(1..n) /\ Len(all) = n
  <2>1. all \in [1..n -> 1..n]
    BY <1>3
  <2> QED
    BY ONLY <2>1, LengthIs, n \in Nat
<1>5. Lists(all, 1..n)
  BY <1>3, <1>4 DEF Lists
<1>6. PICK K : K = OfTier(cs, tier)
  OBVIOUS
<1>7. K \in SUBSET (1..n)
  BY <1>1, <1>6 DEF OfTier
<1>8. K \in SUBSET (1..Len(all)) /\ K = {all[k] : k \in K}
  BY <1>3, <1>4, <1>7
<1>9. SpacesForTier(cs, tier) = Picked(all, K)
  BY <1>2, <1>6 DEF SpacesForTier, OfTier
<1>10. Lists(SpacesForTier(cs, tier), K)
  BY ONLY <1>5, <1>8, <1>9, PickedLists
<1> QED
  BY <1>6, <1>10

\* A preference puts the spaces with the id first and loses none.
LEMMA PreferenceRight ==
  ASSUME NEW cs \in Seq(ConfigRec), NEW S, NEW spaces, Lists(spaces, S), NEW d, d # NoPreference,
         NEW p, p = Preferring(cs, spaces, d)
  PROVE  Lists(p, S) /\ Before(p, WithId(cs, S, d), S \ WithId(cs, S, d))
<1>1. spaces \in Seq(S) /\ DOMAIN spaces = 1..Len(spaces)
  BY LenProperties DEF Lists
<1>2. PICK fits, rest : /\ fits = {k \in DOMAIN spaces : cs[spaces[k]].id = d}
                        /\ rest = DOMAIN spaces \ fits
  OBVIOUS
<1>3. PICK A, B : A = WithId(cs, S, d) /\ B = S \ A
  OBVIOUS
<1>4. \A k \in 1..Len(spaces) : spaces[k] \in S
  BY <1>1, ElementOfSeq
<1>5. A = {spaces[k] : k \in fits} /\ fits \in SUBSET (1..Len(spaces))
  BY <1>1, <1>2, <1>3, <1>4 DEF WithId, Lists
<1>6. B = {spaces[k] : k \in rest} /\ rest \in SUBSET (1..Len(spaces))
  BY <1>1, <1>2, <1>3, <1>4 DEF WithId, Lists
<1>7. Lists(Picked(spaces, fits), A)
  BY ONLY <1>5, PickedLists, Lists(spaces, S)
<1>8. Lists(Picked(spaces, rest), B)
  BY ONLY <1>6, PickedLists, Lists(spaces, S)
<1>9. p = Picked(spaces, fits) \o Picked(spaces, rest)
  BY <1>2 DEF Preferring
<1>10. A \cap B = {} /\ A \cup B = S
  BY <1>3 DEF WithId
<1>11. Lists(p, A \cup B) /\ Before(p, A, B)
  BY ONLY <1>7, <1>8, <1>9, <1>10, ConcatLists
<1> QED
  BY <1>3, <1>10, <1>11

\* Two lists after each other.
LEMMA FlattenTwo ==
  ASSUME NEW p, NEW q
  PROVE  FlattenSeq(<<p, q>>) = p \o q
<1> DEFINE seqs == <<p, q>>
           Next2(f, i) == IF i = 1 THEN seqs[i] ELSE f[i - 1] \o seqs[i]
           g == [i \in 1..2 |-> IF i = 1 THEN p ELSE p \o q]
           flatten == CHOOSE f : f = [i \in 1..2 |-> Next2(f, i)]
<1>1. Len(seqs) = 2 /\ seqs[1] = p /\ seqs[2] = q
  OBVIOUS
<1>2. g = [i \in 1..2 |-> Next2(g, i)]
  <2>1. ASSUME NEW i \in 1..2 PROVE g[i] = Next2(g, i)
    <3>1. i = 1 \/ i = 2
      OBVIOUS
    <3> QED
      BY <3>1, <1>1
  <2> QED
    BY <2>1
<1>3. PICK h : h = flatten /\ h = [i \in 1..2 |-> Next2(h, i)]
  BY <1>2
<1>4. \A i \in 1..2 : h[i] = IF i = 1 THEN seqs[i] ELSE h[i - 1] \o seqs[i]
  BY ONLY <1>3 DEF Next2
<1>5. h[1] = p /\ h[2] = h[1] \o q
  <2>1. 1 \in 1..2 /\ 2 \in 1..2 /\ 2 # 1 /\ 2 - 1 = 1
    OBVIOUS
  <2> HIDE DEF seqs
  <2> QED
    BY ONLY <2>1, <1>1, <1>4
<1>6. FlattenSeq(seqs) = flatten[2]
  BY <1>1 DEF FlattenSeq
<1> QED
  BY <1>3, <1>5, <1>6

\* The tables of spaces with different ids give every request its candidates.
LEMMA TablesRight ==
  ASSUME configs \in Seq(ConfigRec),
         \A i, j \in DOMAIN configs :
           configs[i].tier = configs[j].tier /\ configs[i].id = configs[j].id => i = j
  PROVE  RightCandidates
<1>0. PICK n \in Nat : DOMAIN configs = 1..n
  BY LenProperties
<1>1. ASSUME NEW tier \in Tiers, NEW d \in -1..2, NEW S, S = OfTier(configs, tier), NEW p,
             p = GetCandidates(configs, AnyMemorySpaceInTierWithPreference(tier, d))
      PROVE  /\ Range(p) = S /\ IsInjective(p)
             /\ \A i, j \in DOMAIN p : i < j /\ configs[p[j]].id = d => configs[p[i]].id = d
  <2>1. Lists(SpacesForTier(configs, tier), S)
    BY <1>1, SpacesListed
  <2>2. p = Preferring(configs, SpacesForTier(configs, tier), d)
    BY <1>1 DEF GetCandidates, AnyMemorySpaceInTierWithPreference
  <2>3. d # NoPreference
    BY DEF NoPreference
  <2>4. Lists(p, S) /\ Before(p, WithId(configs, S, d), S \ WithId(configs, S, d))
    BY ONLY <2>1, <2>2, <2>3, PreferenceRight, configs \in Seq(ConfigRec)
  <2>5. PICK m \in Nat : m = Len(p) /\ DOMAIN p = 1..m /\ \A i \in 1..m : p[i] \in S
    <3>1. p \in Seq(S)
      BY <2>4 DEF Lists
    <3> QED
      BY <3>1, LenProperties, ElementOfSeq
  <2>6. Range(p) = S /\ IsInjective(p)
    BY <2>4, <2>5 DEF Lists, Range, IsInjective
  <2>7. ASSUME NEW i \in 1..m, NEW j \in 1..m, i < j, configs[p[j]].id = d PROVE configs[p[i]].id = d
    <3>1. SUFFICES ASSUME configs[p[i]].id # d PROVE FALSE
      OBVIOUS
    <3>2. p[j] \in WithId(configs, S, d) /\ p[i] \in S \ WithId(configs, S, d)
      BY <3>1, <2>5, <2>7 DEF WithId
    <3>3. j < i
      BY <3>2, <2>4, <2>5 DEF Before
    <3> QED
      BY <3>3, <2>7
  <2> QED
    BY <2>5, <2>6, <2>7
<1>2. ASSUME NEW tier \in Tiers, NEW d \in -1..2, NEW p,
             p = GetCandidates(configs, SpecificMemorySpace(tier, d))
      PROVE  Range(p) = {i \in OfTier(configs, tier) : configs[i].id = d}
  <2>1. PICK found : found = {i \in DOMAIN configs : configs[i].tier = tier /\ configs[i].id = d}
    OBVIOUS
  <2>2. GetMemorySpace(configs, tier, d) =
          IF found = {} THEN NoSpace ELSE CHOOSE i \in found : \A j \in found : j <= i
    BY <2>1 DEF GetMemorySpace
  <2>3. p = IF GetMemorySpace(configs, tier, d) = NoSpace THEN <<>> ELSE <<GetMemorySpace(configs, tier, d)>>
    BY <1>2 DEF GetCandidates, SpecificMemorySpace
  <2>4. CASE found = {}
    <3>1. p = <<>>
      BY <2>2, <2>3, <2>4
    <3>2. Range(p) = {}
      BY <3>1 DEF Range
    <3> QED
      BY <3>2, <2>1, <2>4 DEF OfTier
  <2>5. CASE found # {}
    <3>1. PICK s \in found : TRUE
      BY <2>5
    <3>2. found = {s} /\ s \in Nat /\ s # 0
      BY <1>0, <2>1
    <3>3. (CHOOSE i \in found : \A j \in found : j <= i) = s
      <4>1. \A j \in found : j <= s
        BY <3>2
      <4> QED
        BY <3>2, <4>1
    <3>4. GetMemorySpace(configs, tier, d) = s
      BY <2>2, <2>5, <3>3
    <3>5. p = <<s>>
      BY <2>3, <3>2, <3>4 DEF NoSpace
    <3>6. Range(p) = {s}
      BY <3>5 DEF Range
    <3> QED
      BY <3>2, <3>6, <2>1 DEF OfTier
  <2> QED
    BY <2>4, <2>5
<1>3. ASSUME NEW tier \in Tiers, NEW other \in Tiers \ {tier}, NEW p,
             p = GetCandidates(configs, AnyMemorySpaceInTiers(<<tier, other>>))
      PROVE  /\ Range(p) = {i \in DOMAIN configs : configs[i].tier \in {tier, other}}
             /\ \A i, j \in DOMAIN p : configs[p[i]].tier = tier /\ configs[p[j]].tier = other => i < j
  <2>1. PICK A, B, a, b : /\ A = OfTier(configs, tier) /\ B = OfTier(configs, other)
                          /\ a = SpacesForTier(configs, tier) /\ b = SpacesForTier(configs, other)
    OBVIOUS
  <2>2. Lists(a, A) /\ Lists(b, B)
    BY <2>1, SpacesListed
  <2>3. p = a \o b
    <3>1. p = FlattenSeq([k \in DOMAIN <<tier, other>> |-> SpacesForTier(configs, <<tier, other>>[k])])
      BY <1>3 DEF GetCandidates, AnyMemorySpaceInTiers
    <3>2. [k \in DOMAIN <<tier, other>> |-> SpacesForTier(configs, <<tier, other>>[k])] = <<a, b>>
      BY <2>1
    <3> QED
      BY <3>1, <3>2, FlattenTwo
  <2>4. A \cap B = {}
    BY <2>1 DEF OfTier
  <2>5. Lists(p, A \cup B) /\ Before(p, A, B)
    BY ONLY <2>2, <2>3, <2>4, ConcatLists
  <2>6. PICK m \in Nat : m = Len(p) /\ DOMAIN p = 1..m /\ \A i \in 1..m : p[i] \in A \cup B
    <3>1. p \in Seq(A \cup B)
      BY <2>5 DEF Lists
    <3> QED
      BY <3>1, LenProperties, ElementOfSeq
  <2>7. Range(p) = A \cup B
    BY <2>5, <2>6 DEF Lists, Range
  <2>8. \A i, j \in 1..m : p[i] \in A /\ p[j] \in B => i < j
    BY <2>5, <2>6 DEF Before
  <2>9. \A i \in 1..m : (configs[p[i]].tier = tier => p[i] \in A) /\ (configs[p[i]].tier = other => p[i] \in B)
    BY <2>1, <2>6 DEF OfTier
  <2>10. A \cup B = {i \in DOMAIN configs : configs[i].tier \in {tier, other}}
    BY <2>1 DEF OfTier
  <2> QED
    BY <2>6, <2>7, <2>8, <2>9, <2>10
<1> DEFINE Preferred(tier, d) == GetCandidates(configs, AnyMemorySpaceInTierWithPreference(tier, d))
           Exact(tier, d) == GetCandidates(configs, SpecificMemorySpace(tier, d))
           Both(tier, other) == GetCandidates(configs, AnyMemorySpaceInTiers(<<tier, other>>))
<1>4. ASSUME NEW tier \in Tiers, NEW d \in -1..2
      PROVE  /\ Range(Preferred(tier, d)) = {i \in DOMAIN configs : configs[i].tier = tier}
             /\ IsInjective(Preferred(tier, d))
             /\ \A i, j \in DOMAIN Preferred(tier, d) :
                  i < j /\ configs[Preferred(tier, d)[j]].id = d => configs[Preferred(tier, d)[i]].id = d
  <2>1. PICK p, S : p = Preferred(tier, d) /\ S = OfTier(configs, tier)
    OBVIOUS
  <2>2. /\ Range(p) = S /\ IsInjective(p)
        /\ \A i, j \in DOMAIN p : i < j /\ configs[p[j]].id = d => configs[p[i]].id = d
    BY <2>1, <1>1
  <2> HIDE DEF Preferred
  <2> QED
    BY <2>1, <2>2 DEF OfTier
<1>5. ASSUME NEW tier \in Tiers, NEW d \in -1..2
      PROVE  Range(Exact(tier, d)) =
               {i \in {k \in DOMAIN configs : configs[k].tier = tier} : configs[i].id = d}
  BY <1>2 DEF OfTier
<1>6. ASSUME NEW tier \in Tiers, NEW other \in Tiers \ {tier}
      PROVE  /\ Range(Both(tier, other)) = {i \in DOMAIN configs : configs[i].tier \in {tier, other}}
             /\ \A i, j \in DOMAIN Both(tier, other) :
                  /\ configs[Both(tier, other)[i]].tier = tier
                  /\ configs[Both(tier, other)[j]].tier = other
                  => i < j
  <2>1. PICK p : p = Both(tier, other)
    OBVIOUS
  <2>2. /\ Range(p) = {i \in DOMAIN configs : configs[i].tier \in {tier, other}}
        /\ \A i, j \in DOMAIN p : configs[p[i]].tier = tier /\ configs[p[j]].tier = other => i < j
    BY <2>1, <1>3
  <2> HIDE DEF Both
  <2> QED
    BY <2>1, <2>2
<1> QED
  BY <1>4, <1>5, <1>6, Zenon DEF RightCandidates

\* In the tables of any manager that starts, a preference orders the spaces of
\* a tier and excludes none, a list of tiers is tried tier by tier, and a tier
\* with an id is one space (the get_candidates of the strategies).
THEOREM CandidatesAreRight == Spec => CandidatesRight
<1>1. ASSUME StartInv, [StartNext]_startVars, phase' = "running", phase # "running"
      PROVE  RightCandidates'
  <2>1. StartManager
    BY <1>1 DEF startVars, StartNext, CallSetter, RunDiscovery, RunBuild, TuneBlockSize
  <2>2. phase = "built" /\ configs' = configs
    BY <2>1 DEF StartManager
  <2>3. configs \in Seq(ConfigRec)
    BY <1>1 DEF StartInv, ConfigsOK
  <2>4. \A i, j \in DOMAIN configs :
          configs[i].tier = configs[j].tier /\ configs[i].id = configs[j].id => i = j
    BY <1>1, <2>2 DEF StartInv, Fitting
  <2>5. RightCandidates
    BY <2>3, <2>4, TablesRight
  <2> QED
    BY <2>2, <2>5 DEF RightCandidates
<1>2. StartInv /\ [Next]_allVars =>
        [phase' = "running" /\ phase # "running" => RightCandidates']_startVars
  BY <1>1, NextIsStart
<1> QED
  BY <1>2, StartInvariant, PTL DEF Spec, CandidatesRight

-----------------------------------------------------------------------------
(* Tables in blocks.                                                       *)

RepRec == [space : Nat, size : Nat, block : Nat, blocks : Seq(Seq(Nat))]

\* The blocks of a representation are as many as its size asks for, and full.
Shape(r) ==
  /\ r \in RepRec
  /\ r.size # 0 => r.block # 0
  /\ Len(r.blocks) = Count(r.size, r.block)
  /\ \A j \in 1..Len(r.blocks) : Len(r.blocks[j]) = r.block

\* The first m bytes of r are those of the table.
Holds(r, m) ==
  \A j \in 1..Len(r.blocks), o \in 1..r.block :
    Pos(r.block, j, o) <= m => r.blocks[j][o] = Pos(r.block, j, o)

\* Offset o of block j comes after the first k bytes.
Cursor(r, j, o, k) == o < r.block /\ Pos(r.block, j, o) = k

\* Blocks of b bytes with some bytes at the start.
Filled(bs, b, bytes) ==
  \A j \in 1..Len(bs) :
    /\ Len(bs[j]) = b
    /\ \A o \in 1..b : Pos(b, j, o) \in 1..Len(bytes) => bs[j][o] = bytes[Pos(b, j, o)]

\* What is allocated for n bytes, and what is written into it from the start.
LEMMA BlocksRight ==
  ASSUME NEW n \in Nat, NEW b \in Nat, n # 0 => b # 0, NEW bytes \in Seq(Nat),
         NEW bs, bs = Blocks(n, b, bytes)
  PROVE  bs \in Seq(Seq(Nat)) /\ Len(bs) = Count(n, b) /\ Filled(bs, b, bytes)
<1> DEFINE At(k) == IF k <= Len(bytes) THEN bytes[k] ELSE 0
<1>1. PICK c \in Nat : c = Count(n, b)
  <2>1. CASE n = 0
    BY <2>1 DEF Count
  <2>2. CASE n # 0
    BY <2>2, CountBounds
  <2> QED
    BY <2>1, <2>2
<1>2. bs = [j \in 1..c |-> [o \in 1..b |-> At((j - 1) * b + o)]]
  BY <1>1 DEF Blocks, Count
<1>3. ASSUME NEW j \in 1..c, NEW o \in 1..b
      PROVE  /\ Pos(b, j, o) \in Nat \ {0} /\ At((j - 1) * b + o) \in Nat
             /\ Pos(b, j, o) \in 1..Len(bytes) => At((j - 1) * b + o) = bytes[Pos(b, j, o)]
  <2>1. j \in Nat \ {0} /\ o \in Nat /\ o # 0
    OBVIOUS
  <2>2. PICK k \in Nat : k = Pos(b, j, o) /\ k # 0
    <3>1. 0 \in Nat
      OBVIOUS
    <3>2. PICK x \in Nat : x = Pos(b, j, 0)
      BY <2>1, <3>1, PosType
    <3>3. Pos(b, j, o) = x + o
      BY <2>1, <3>2, PosType
    <3> QED
      BY <2>1, <3>3
  <2>3. (j - 1) * b + o = k
    BY <2>2 DEF Pos
  <2>4. At(k) \in Nat
    <3>1. CASE k <= Len(bytes)
      <4>1. k \in 1..Len(bytes)
        BY <3>1, <2>2
      <4> QED
        BY <3>1, <4>1, ElementOfSeq
    <3>2. CASE ~(k <= Len(bytes))
      BY <3>2
    <3> QED
      BY <3>1, <3>2
  <2>5. k \in 1..Len(bytes) => At(k) = bytes[k]
    OBVIOUS
  <2> HIDE DEF At
  <2> QED
    BY <2>2, <2>3, <2>4, <2>5
<1> HIDE DEF At
<1>4. ASSUME NEW j \in 1..c
      PROVE  /\ bs[j] \in Seq(Nat) /\ Len(bs[j]) = b
             /\ \A o \in 1..b : Pos(b, j, o) \in 1..Len(bytes) => bs[j][o] = bytes[Pos(b, j, o)]
  <2>1. bs[j] = [o \in 1..b |-> At((j - 1) * b + o)]
    BY <1>2
  <2>2. bs[j] \in [1..b -> Nat]
    BY <2>1, <1>3
  <2>3. bs[j] \in Seq(Nat) /\ Len(bs[j]) = b
    BY <2>2, LengthIs
  <2> QED
    BY <2>1, <2>3, <1>3
<1>5. bs \in [1..c -> Seq(Nat)]
  BY <1>2, <1>4
<1>6. bs \in Seq(Seq(Nat)) /\ Len(bs) = c
  BY <1>5, LengthIs
<1> QED
  BY <1>1, <1>4, <1>6 DEF Filled

\* A representation that holds all bytes has the content of the table.
LEMMA HoldsIsContent ==
  ASSUME NEW r, Shape(r), Holds(r, r.size)
  PROVE  Content(r) = [k \in 1..r.size |-> k]
<1>1. PICK n \in Nat, b \in Nat : n = r.size /\ b = r.block
  BY DEF Shape, RepRec
<1>2. ASSUME NEW k \in 1..n PROVE r.blocks[((k - 1) \div b) + 1][((k - 1) % b) + 1] = k
  <2>1. n \in Nat \ {0} /\ b \in Nat \ {0} /\ k \in Nat \ {0}
    BY <1>1 DEF Shape
  <2>2. PICK j \in Nat \ {0}, o \in 1..b : /\ j = ((k - 1) \div b) + 1 /\ o = ((k - 1) % b) + 1
                                         /\ Pos(b, j, o) = k
    <3>1. /\ ((k - 1) \div b) + 1 \in Nat \ {0} /\ ((k - 1) % b) + 1 \in 1..b
          /\ Pos(b, ((k - 1) \div b) + 1, ((k - 1) % b) + 1) = k
      BY ONLY <2>1, PosOf
    <3> QED
      BY ONLY <3>1
  <2>3. o - 1 \in Nat /\ Pos(b, j, o - 1) < n
    <3>1. o \in Nat /\ o - 1 \in Nat
      OBVIOUS
    <3>2. PICK x \in Nat : x = Pos(b, j, 0)
      BY PosType
    <3>3. Pos(b, j, o - 1) = x + (o - 1) /\ Pos(b, j, o) = x + o
      BY <3>1, <3>2, PosType
    <3> QED
      BY <3>1, <3>3, <2>2
  <2>4. j \in 1..Count(n, b)
    BY <2>1, <2>3, BlockExists
  <2>5. j \in 1..Len(r.blocks)
    BY <2>4, <1>1 DEF Shape
  <2>6. r.blocks[j][o] = k
    <3>1. j \in 1..Len(r.blocks) /\ o \in 1..r.block /\ Pos(r.block, j, o) = k /\ k <= r.size
      BY <2>2, <2>5, <1>1
    <3> QED
      BY ONLY <3>1, Holds(r, r.size) DEF Holds
  <2> QED
    BY <2>2, <2>6
<1> QED
  BY <1>1, <1>2 DEF Content

\* The least of three numbers.
LEMMA SmallestOfThree ==
  ASSUME NEW x \in Nat, NEW y \in Nat, NEW z \in Nat, NEW m, m = Smallest({x, y, z})
  PROVE  m \in {x, y, z} /\ m <= x /\ m <= y /\ m <= z
<1>1. \E k \in {x, y, z} : \A l \in {x, y, z} : k <= l
  <2>1. {x, y, z} \in SUBSET Nat /\ {x, y, z} # {}
    OBVIOUS
  <2> QED
    BY ONLY <2>1, HasLeast
<1>2. m \in {x, y, z} /\ \A l \in {x, y, z} : m <= l
  BY <1>1 DEF Smallest
<1> QED
  BY <1>2

\* A cursor that moves within its block, or to the start of the next one.
LEMMA CursorMoves ==
  ASSUME NEW b \in Nat \ {0}, NEW j \in Nat \ {0}, NEW o \in Nat, NEW n \in Nat, o + n <= b
  PROVE  /\ NextBlock(j, o + n, b) \in Nat \ {0}
         /\ NextOff(o + n, b) \in Nat /\ NextOff(o + n, b) < b
         /\ Pos(b, NextBlock(j, o + n, b), NextOff(o + n, b)) = Pos(b, j, o) + n
<1>1. PICK x \in Nat : x = Pos(b, j, 0)
  <2>1. 0 \in Nat
    OBVIOUS
  <2> QED
    BY <2>1, PosType
<1>2. o + n \in Nat /\ b \in Nat
  OBVIOUS
<1>3. Pos(b, j, o) = x + o /\ Pos(b, j, o + n) = x + (o + n) /\ Pos(b, j, b) = x + b
  BY <1>1, <1>2, PosType
<1>4. Pos(b, j + 1, 0) = x + b
  BY <1>2, <1>3, PosEnd
<1>5. CASE o + n = b
  <2>1. NextBlock(j, o + n, b) = j + 1 /\ NextOff(o + n, b) = 0
    BY <1>5 DEF NextBlock, NextOff
  <2>2. x + b = (x + o) + n
    BY <1>5
  <2> QED
    BY <2>1, <2>2, <1>3, <1>4
<1>6. CASE o + n # b
  <2>1. NextBlock(j, o + n, b) = j /\ NextOff(o + n, b) = o + n
    BY <1>6 DEF NextBlock, NextOff
  <2>2. x + (o + n) = (x + o) + n /\ o + n < b
    BY <1>6
  <2> QED
    BY <2>1, <2>2, <1>2, <1>3
<1> QED
  BY <1>5, <1>6

\* Offset o of block j of r comes after c bytes, and n more are in that block.
Within(r, j, o, c, n) ==
  /\ c \in Nat /\ n \in Nat /\ o \in Nat /\ j \in 1..Len(r.blocks)
  /\ o + n <= r.block /\ Pos(r.block, j, o) = c /\ c + n <= r.size

\* The bytes of the table that follow the first c.
Follow(bytes, c, n) == bytes \in Seq(Nat) /\ Len(bytes) = n /\ \A i \in 1..n : bytes[i] = c + i

\* The bytes from a cursor on, read from one block.
LEMMA BytesRead ==
  ASSUME NEW r, Shape(r), Holds(r, r.size), NEW j, NEW o, NEW c, NEW n, Within(r, j, o, c, n)
  PROVE  Follow(SubSeq(r.blocks[j], o + 1, o + n), c, n)
<1>0. /\ c \in Nat /\ n \in Nat /\ o \in Nat /\ j \in 1..Len(r.blocks)
      /\ o + n <= r.block /\ Pos(r.block, j, o) = c /\ c + n <= r.size
  BY DEF Within
<1>a. PICK bytes : bytes = SubSeq(r.blocks[j], o + 1, o + n)
  OBVIOUS
<1>1. PICK b \in Nat, l \in Nat : b = r.block /\ l = Len(r.blocks)
  BY LenProperties DEF Shape, RepRec
<1>2. r.blocks[j] \in Seq(Nat) /\ Len(r.blocks[j]) = b
  BY <1>0, <1>1, ElementOfSeq DEF Shape, RepRec
<1>3. PICK s \in Seq(Nat) : s = r.blocks[j] /\ Len(s) = b
  BY <1>2
<1>4. bytes \in Seq(Nat) /\ Len(bytes) = n /\ \A i \in 1..n : bytes[i] = s[o + i]
  <2>1. o + n \in 0..Len(s) /\ o + 1 \in 1..(Len(s) + 1) /\ bytes = SubSeq(s, o + 1, o + n)
    BY <1>0, <1>a, <1>1, <1>3
  <2>2. bytes = [i \in 1..n |-> s[o + i]]
    BY <1>0, <2>1
  <2>3. \A i \in 1..n : o + i \in 1..Len(s)
    BY <1>0, <1>1, <1>3
  <2>4. bytes \in [1..n -> Nat]
    BY <2>2, <2>3, ElementOfSeq
  <2>5. bytes \in Seq(Nat) /\ Len(bytes) = n
    BY ONLY <2>4, LengthIs, <1>0
  <2> QED
    BY <2>2, <2>5
<1>5. ASSUME NEW i \in 1..n PROVE s[o + i] = c + i
  <2>1. o + i \in 1..b /\ j \in Nat \ {0} /\ o \in Nat /\ o + i \in Nat
    BY <1>0, <1>1
  <2>2. PICK x \in Nat : x = Pos(b, j, 0) /\ Pos(b, j, o) = x + o /\ Pos(b, j, o + i) = x + (o + i)
    <3>1. 0 \in Nat
      OBVIOUS
    <3>2. PICK x \in Nat : x = Pos(b, j, 0)
      BY <2>1, <3>1, PosType
    <3> QED
      BY <2>1, <3>2, PosType
  <2>3. Pos(b, j, o + i) = c + i
    BY <1>0, <1>1, <2>2
  <2>4. c + i <= r.size
    BY <1>0 DEF Shape, RepRec
  <2>5. r.blocks[j][o + i] = Pos(b, j, o + i)
    BY <1>0, <1>1, <2>1, <2>3, <2>4 DEF Holds
  <2> QED
    BY <1>3, <2>3, <2>5
<1> QED
  BY <1>a, <1>4, <1>5 DEF Follow

\* Bytes written at a cursor extend what a representation holds, and touch
\* nothing else.
LEMMA BytesWritten ==
  ASSUME NEW r, Shape(r), NEW j, NEW o, NEW c, NEW n, Within(r, j, o, c, n), Holds(r, c),
         NEW bytes, Follow(bytes, c, n), NEW e, e = Written(r, j, o, bytes)
  PROVE  /\ Shape(e) /\ e.space = r.space /\ e.size = r.size /\ e.block = r.block
         /\ Holds(e, c + n)
<1> USE DEF Within, Follow
<1>1. PICK b \in Nat, l \in Nat : b = r.block /\ l = Len(r.blocks) /\ DOMAIN r.blocks = 1..l
  BY LenProperties DEF Shape, RepRec
<1>2. PICK old \in Seq(Nat) : old = r.blocks[j] /\ Len(old) = b /\ DOMAIN old = 1..b
  <2>1. r.blocks[j] \in Seq(Nat) /\ Len(r.blocks[j]) = b
    BY <1>1, ElementOfSeq DEF Shape, RepRec
  <2> QED
    BY <2>1, LenProperties
<1> DEFINE new == [q \in 1..b |-> IF q \in (o + 1)..(o + n) THEN bytes[q - o] ELSE old[q]]
<1>3. e = [r EXCEPT !.blocks[j] = new]
  BY <1>2 DEF Written
<1>4. new \in Seq(Nat) /\ Len(new) = b
  <2>1. ASSUME NEW q \in 1..b PROVE new[q] \in Nat
    <3>1. CASE q \in (o + 1)..(o + n)
      <4>1. q - o \in 1..n
        BY <3>1
      <4> QED
        BY <3>1, <4>1, ElementOfSeq
    <3>2. CASE q \notin (o + 1)..(o + n)
      BY <3>2, <1>2, ElementOfSeq
    <3> QED
      BY <3>1, <3>2
  <2>2. new \in [1..b -> Nat]
    BY <2>1
  <2> HIDE DEF new
  <2> QED
    BY ONLY <2>2, LengthIs, b \in Nat
<1>5. \A q \in 1..b : new[q] = IF q \in (o + 1)..(o + n) THEN bytes[q - o] ELSE old[q]
  OBVIOUS
<1> HIDE DEF new
<1>6. /\ e.space = r.space /\ e.size = r.size /\ e.block = b
      /\ e.blocks = [r.blocks EXCEPT ![j] = new]
  BY <1>1, <1>3 DEF Shape, RepRec
<1>7. e.blocks \in [1..l -> Seq(Nat)]
  BY <1>1, <1>4, <1>6, ElementOfSeq DEF Shape, RepRec
<1>8. e.blocks \in Seq(Seq(Nat)) /\ Len(e.blocks) = l
  BY ONLY <1>7, LengthIs, l \in Nat
<1>9. e.blocks[j] = new /\ \A i \in 1..l : i # j => e.blocks[i] = r.blocks[i]
  BY <1>1, <1>6
<1>10. Shape(e)
  <2>1. e \in RepRec
    BY <1>1, <1>3, <1>6, <1>8 DEF Shape, RepRec
  <2>2. \A i \in 1..l : Len(e.blocks[i]) = b
    BY <1>1, <1>4, <1>9 DEF Shape
  <2> QED
    BY <2>1, <2>2, <1>1, <1>6, <1>8 DEF Shape
<1>11. ASSUME NEW i \in 1..l, NEW q \in 1..b, Pos(b, i, q) <= c + n
       PROVE  e.blocks[i][q] = Pos(b, i, q)
  <2>1. i \in Nat \ {0} /\ j \in Nat \ {0} /\ q \in Nat /\ 0 \in Nat
    BY <1>1
  <2>2. PICK x \in Nat : x = Pos(b, j, 0)
    BY <2>1, PosType
  <2>3. c = x + o
    <3>1. Pos(b, j, o) = Pos(b, j, 0) + o
      BY ONLY <2>1, PosType, b \in Nat, o \in Nat
    <3>2. Pos(b, j, o) = c
      BY <1>1
    <3> QED
      BY <3>1, <3>2, <2>2
  <2>4. CASE i = j /\ q \in (o + 1)..(o + n)
    <3>1. e.blocks[i][q] = bytes[q - o]
      BY <2>4, <1>5, <1>9
    <3>2. bytes[q - o] = c + (q - o)
      BY <2>4
    <3>3. Pos(b, i, q) = x + q
      BY <2>1, <2>2, <2>4, PosType
    <3> QED
      BY <3>1, <3>2, <3>3, <2>3
  <2>5. CASE ~(i = j /\ q \in (o + 1)..(o + n))
    <3>1. e.blocks[i][q] = r.blocks[i][q]
      BY <2>5, <1>2, <1>5, <1>9
    <3>2. PICK k \in Nat : k = Pos(b, i, q)
      BY <2>1, PosType
    <3>3. ~(c < k)
      <4>1. SUFFICES ASSUME c < k PROVE FALSE
        OBVIOUS
      <4>2. PICK d \in 1..n : k = c + d
        <5>0. k <= c + n
          BY <3>2, <1>11
        <5>1. k - c \in 1..n /\ k = c + (k - c)
          BY ONLY <5>0, <4>1, k \in Nat, c \in Nat, n \in Nat
        <5> QED
          BY <5>1
      <4>3. o + d \in 1..b /\ o + d \in Nat
        BY <1>1
      <4>4. Pos(b, j, o + d) = x + (o + d)
        BY <4>3, <2>1, <2>2, PosType
      <4>5. Pos(b, i, q) = Pos(b, j, o + d)
        <5>1. c \in Nat /\ o \in Nat /\ d \in Nat
          OBVIOUS
        <5> QED
          BY ONLY <5>1, <4>2, <4>4, <3>2, <2>3, x \in Nat
      <4>6. i = j /\ q = o + d
        BY <4>3, <4>5, <2>1, PosUnique
      <4> QED
        BY <4>6, <2>5
    <3>4. r.blocks[i][q] = k
      <4>1. Pos(b, i, q) <= c
        BY <3>2, <3>3
      <4>2. i \in 1..Len(r.blocks) /\ q \in 1..r.block /\ Pos(r.block, i, q) <= c
        BY <4>1, <1>1
      <4>3. r.blocks[i][q] = Pos(r.block, i, q)
        BY ONLY <4>2, Holds(r, c) DEF Holds
      <4> QED
        BY <4>3, <3>2, <1>1
    <3> QED
      BY <3>1, <3>2, <3>4
  <2> QED
    BY <2>4, <2>5
<1>12. Holds(e, c + n)
  BY <1>6, <1>8, <1>11 DEF Holds
<1> QED
  BY <1>1, <1>6, <1>10, <1>12

-----------------------------------------------------------------------------
(* Conversions.                                                            *)

ConvRec ==
  [at : {"idle", "allocate", "copy"}, dst : RepRec, caller : Int, copied : Nat,
   srcBlock : Nat \ {0}, srcOff : Nat, dstBlock : Nat \ {0}, dstOff : Nat]

\* A space for tables.
Hosting(i) == i \in DOMAIN configs /\ Type(i) \in {"GPU", "HOST"}

RepOK(r) == Shape(r) /\ Hosting(r.space) /\ (Type(r.space) = "GPU" => r.block = r.size)

\* A copy has taken over the first bytes of the table, and both cursors stand
\* behind them.
CopyOK(r, c) ==
  /\ RepOK(c.dst) /\ c.dst.size = r.size
  /\ c.copied <= r.size /\ Holds(c.dst, c.copied)
  /\ c.copied < r.size => /\ Cursor(r, c.srcBlock, c.srcOff, c.copied)
                          /\ Cursor(c.dst, c.dstBlock, c.dstOff, c.copied)

ConvInv ==
  /\ device \in Int /\ conv \in ConvRec
  /\ rep # NoRep => phase = "running" /\ RepOK(rep) /\ Holds(rep, rep.size)
  /\ conv.at # "idle" =>
       /\ rep # NoRep
       /\ Hosting(conv.dst.space)
       /\ Type(conv.dst.space) = "HOST" => device = conv.caller
  /\ conv.at = "allocate" => /\ conv.copied = 0 /\ conv.srcBlock = 1 /\ conv.srcOff = 0
                             /\ conv.dstBlock = 1 /\ conv.dstOff = 0
  /\ conv.at = "copy" => CopyOK(rep, conv)

\* A copy of r can go on.
Unfinished(r, c) ==
  /\ Shape(r) /\ Holds(r, r.size) /\ c \in ConvRec /\ Shape(c.dst) /\ c.dst.size = r.size
  /\ c.copied < r.size /\ Holds(c.dst, c.copied)
  /\ Cursor(r, c.srcBlock, c.srcOff, c.copied) /\ Cursor(c.dst, c.dstBlock, c.dstOff, c.copied)

\* What n more bytes leave: e, with its cursors.
Advanced(r, c, n, e) ==
  LET sb == NextBlock(c.srcBlock, c.srcOff + n, r.block)
      so == NextOff(c.srcOff + n, r.block)
      db == NextBlock(c.dstBlock, c.dstOff + n, c.dst.block)
      do == NextOff(c.dstOff + n, c.dst.block)
  IN  /\ n \in Nat /\ c.copied + n <= r.size
      /\ Shape(e) /\ e.space = c.dst.space /\ e.size = r.size /\ e.block = c.dst.block
      /\ Holds(e, c.copied + n)
      /\ sb \in Nat \ {0} /\ so \in Nat /\ Cursor(r, sb, so, c.copied + n)
      /\ db \in Nat \ {0} /\ do \in Nat /\ Cursor(e, db, do, c.copied + n)

\* One turn of a copy loop.
LEMMA TurnRight ==
  ASSUME NEW r, NEW c, Unfinished(r, c),
         NEW n, n = Smallest({r.size - c.copied, r.block - c.srcOff, c.dst.block - c.dstOff}),
         NEW bytes, bytes = SubSeq(r.blocks[c.srcBlock], c.srcOff + 1, c.srcOff + n),
         NEW e, e = Written(c.dst, c.dstBlock, c.dstOff, bytes)
  PROVE  Advanced(r, c, n, e)
<1>0. /\ Shape(r) /\ Holds(r, r.size) /\ c \in ConvRec /\ Shape(c.dst) /\ c.dst.size = r.size
      /\ c.copied < r.size /\ Holds(c.dst, c.copied)
      /\ Cursor(r, c.srcBlock, c.srcOff, c.copied) /\ Cursor(c.dst, c.dstBlock, c.dstOff, c.copied)
  BY DEF Unfinished
<1>1. PICK size \in Nat, a \in Nat, b \in Nat : size = r.size /\ a = r.block /\ b = c.dst.block
  BY <1>0 DEF Shape, RepRec
<1>2. PICK k \in Nat, so \in Nat, do \in Nat : k = c.copied /\ so = c.srcOff /\ do = c.dstOff
  BY <1>0 DEF ConvRec
<1>3. PICK sb \in Nat \ {0}, db \in Nat \ {0} : sb = c.srcBlock /\ db = c.dstBlock
  BY <1>0 DEF ConvRec
<1>4. k < size /\ so < a /\ do < b /\ Pos(a, sb, so) = k /\ Pos(b, db, do) = k
  BY <1>0, <1>1, <1>2, <1>3 DEF Cursor
<1>5. n \in Nat /\ k + n <= size /\ so + n <= a /\ do + n <= b
  <2>1. PICK x \in Nat, y \in Nat, z \in Nat : x = size - k /\ y = a - so /\ z = b - do
    BY <1>4
  <2>2. n = Smallest({x, y, z})
    BY <2>1, <1>1, <1>2
  <2>3. n \in {x, y, z} /\ n <= x /\ n <= y /\ n <= z
    BY ONLY <2>2, SmallestOfThree, x \in Nat, y \in Nat, z \in Nat
  <2>4. n \in Nat /\ n <= size - k /\ n <= a - so /\ n <= b - do
    BY ONLY <2>1, <2>3, x \in Nat, y \in Nat, z \in Nat
  <2> QED
    BY ONLY <2>4, size \in Nat, k \in Nat, a \in Nat, so \in Nat, b \in Nat, do \in Nat
<1>6. size \in Nat \ {0} /\ a \in Nat \ {0} /\ b \in Nat \ {0}
  BY <1>4
<1>7. sb \in 1..Len(r.blocks)
  <2>1. sb \in 1..Count(size, a)
    BY ONLY <1>4, <1>6, BlockExists, sb \in Nat \ {0}, so \in Nat
  <2> QED
    BY <2>1, <1>0, <1>1 DEF Shape
<1>8. db \in 1..Len(c.dst.blocks)
  <2>1. db \in 1..Count(size, b)
    BY ONLY <1>4, <1>6, BlockExists, db \in Nat \ {0}, do \in Nat
  <2> QED
    BY <2>1, <1>0, <1>1 DEF Shape
<1>9. Follow(bytes, k, n)
  <2>1. bytes = SubSeq(r.blocks[sb], so + 1, so + n)
    BY <1>2, <1>3
  <2>2. Within(r, sb, so, k, n)
    BY <1>1, <1>4, <1>5, <1>7 DEF Within
  <2> QED
    BY ONLY <2>1, <2>2, BytesRead, <1>0
<1>10. /\ Shape(e) /\ e.space = c.dst.space /\ e.size = c.dst.size /\ e.block = c.dst.block
       /\ Holds(e, k + n)
  <2>1. e = Written(c.dst, db, do, bytes) /\ Holds(c.dst, k)
    BY <1>0, <1>2, <1>3
  <2>2. Within(c.dst, db, do, k, n)
    BY <1>0, <1>1, <1>4, <1>5, <1>8 DEF Within
  <2> QED
    BY ONLY <2>1, <2>2, <1>9, BytesWritten, <1>0
<1>11. /\ NextBlock(sb, so + n, a) \in Nat \ {0} /\ NextOff(so + n, a) \in Nat /\ NextOff(so + n, a) < a
       /\ Pos(a, NextBlock(sb, so + n, a), NextOff(so + n, a)) = k + n
  <2>1. n \in Nat /\ so + n <= a /\ a \in Nat \ {0}
    BY <1>5, <1>6
  <2>2. /\ NextBlock(sb, so + n, a) \in Nat \ {0}
        /\ NextOff(so + n, a) \in Nat /\ NextOff(so + n, a) < a
        /\ Pos(a, NextBlock(sb, so + n, a), NextOff(so + n, a)) = Pos(a, sb, so) + n
    BY ONLY <2>1, CursorMoves, sb \in Nat \ {0}, so \in Nat
  <2> QED
    BY <2>2, <1>4
<1>12. /\ NextBlock(db, do + n, b) \in Nat \ {0} /\ NextOff(do + n, b) \in Nat /\ NextOff(do + n, b) < b
       /\ Pos(b, NextBlock(db, do + n, b), NextOff(do + n, b)) = k + n
  <2>1. n \in Nat /\ do + n <= b /\ b \in Nat \ {0}
    BY <1>5, <1>6
  <2>2. /\ NextBlock(db, do + n, b) \in Nat \ {0}
        /\ NextOff(do + n, b) \in Nat /\ NextOff(do + n, b) < b
        /\ Pos(b, NextBlock(db, do + n, b), NextOff(do + n, b)) = Pos(b, db, do) + n
    BY ONLY <2>1, CursorMoves, db \in Nat \ {0}, do \in Nat
  <2> QED
    BY <2>2, <1>4
<1>13. Cursor(r, NextBlock(sb, so + n, a), NextOff(so + n, a), k + n)
  BY <1>1, <1>11 DEF Cursor
<1>14. Cursor(e, NextBlock(db, do + n, b), NextOff(do + n, b), k + n)
  BY <1>1, <1>10, <1>12 DEF Cursor
<1> QED
  BY <1>0, <1>1, <1>2, <1>3, <1>5, <1>10, <1>11, <1>12, <1>13, <1>14 DEF Advanced

\* A fresh representation in a space for tables.
LEMMA AllocatedRight ==
  ASSUME StartInv, NEW i, Hosting(i), NEW n \in Nat, NEW bytes \in Seq(Nat), NEW r,
         r = [space |-> i, size |-> n, block |-> BlockSize(i, n), blocks |-> Blocks(n, BlockSize(i, n), bytes)]
  PROVE  /\ RepOK(r) /\ r.space = i /\ r.size = n
         /\ \A m \in 0..Len(bytes) : (\A k \in 1..m : bytes[k] = k) => Holds(r, m)
<1>1. PICK b \in Nat : b = BlockSize(i, n) /\ (n # 0 => b # 0) /\ (Type(i) = "GPU" => b = n)
  <2>1. CASE Type(i) = "GPU"
    BY <2>1 DEF BlockSize
  <2>2. CASE Type(i) # "GPU"
    <3>1. i \in HostsOf(configs) /\ i \in DOMAIN configs
      BY <2>2 DEF Hosting, HostsOf, Type
    <3>2. configs \in Seq(ConfigRec) /\ configs[i].block_size # 0
      BY <3>1 DEF StartInv, ConfigsOK
    <3>3. configs[i] \in ConfigRec
      BY <3>1, <3>2, ElementOfSeq, LenProperties
    <3>4. configs[i].block_size \in Nat
      BY <3>3 DEF ConfigRec
    <3> QED
      BY <2>2, <3>2, <3>4 DEF BlockSize
  <2> QED
    BY <2>1, <2>2
<1>2. i \in Nat
  <2>1. DOMAIN configs = 1..Len(configs)
    BY LenProperties DEF StartInv, ConfigsOK
  <2> QED
    BY <2>1 DEF Hosting
<1>3. PICK bs : bs = Blocks(n, b, bytes)
  OBVIOUS
<1>4. /\ bs \in Seq(Seq(Nat)) /\ Len(bs) = Count(n, b)
      /\ \A j \in 1..Len(bs) :
           /\ Len(bs[j]) = b
           /\ \A o \in 1..b : Pos(b, j, o) \in 1..Len(bytes) => bs[j][o] = bytes[Pos(b, j, o)]
  <2>1. n # 0 => b # 0
    BY <1>1
  <2>2. bs \in Seq(Seq(Nat)) /\ Len(bs) = Count(n, b) /\ Filled(bs, b, bytes)
    BY ONLY <2>1, <1>3, BlocksRight, n \in Nat, b \in Nat, bytes \in Seq(Nat)
  <2> QED
    BY <2>2 DEF Filled
<1>5. r = [space |-> i, size |-> n, block |-> b, blocks |-> bs]
  BY <1>1, <1>3
<1>6. RepOK(r)
  BY <1>1, <1>2, <1>4, <1>5 DEF RepOK, Shape, RepRec
<1>7. ASSUME NEW m \in 0..Len(bytes), \A k \in 1..m : bytes[k] = k,
             NEW j \in 1..Len(bs), NEW o \in 1..b, Pos(b, j, o) <= m
      PROVE  bs[j][o] = Pos(b, j, o)
  <2>1. j \in Nat \ {0} /\ o \in Nat /\ o # 0 /\ 0 \in Nat
    BY <1>4, LenProperties
  <2>2. PICK x \in Nat : x = Pos(b, j, 0)
    BY ONLY <2>1, PosType, b \in Nat
  <2>3. Pos(b, j, o) = x + o
    BY ONLY <2>1, <2>2, PosType, b \in Nat
  <2>4. Pos(b, j, o) \in 1..m /\ Pos(b, j, o) \in 1..Len(bytes)
    BY <2>1, <2>3, <1>7, LenProperties
  <2> QED
    BY <2>4, <1>4, <1>7
<1>8. ASSUME NEW m \in 0..Len(bytes), \A k \in 1..m : bytes[k] = k PROVE Holds(r, m)
  <2>1. r.block = b /\ r.blocks = bs
    BY <1>5
  <2>2. \A j \in 1..Len(bs), o \in 1..b : Pos(b, j, o) <= m => bs[j][o] = Pos(b, j, o)
    BY <1>7, <1>8
  <2> QED
    BY ONLY <2>1, <2>2 DEF Holds
<1> QED
  BY <1>5, <1>6, <1>8

LEMMA NoRepType == NoRep \in RepRec /\ NoRep.size = 0 /\ NoRep.space = 0
  BY DEF NoRep, RepRec, NoSpace

LEMMA ConvInitially == ConvInit => ConvInv
<1> SUFFICES ASSUME ConvInit PROVE ConvInv
  OBVIOUS
<1>1. conv \in ConvRec /\ conv.at = "idle" /\ device \in Int /\ rep = NoRep
  BY NoRepType DEF ConvInit, Idle, ConvRec
<1> QED
  BY <1>1 DEF ConvInv

\* Where the setup does not change, a conversion that ends or does not begin is
\* in order when the representation is.
LEMMA IdleKeeps ==
  ASSUME ConvInv, UNCHANGED startVars, conv' = Idle, device' \in Int,
         rep' # NoRep => phase = "running" /\ RepOK(rep)' /\ Holds(rep', rep'.size)
  PROVE  ConvInv'
<1>1. conv' \in ConvRec /\ conv'.at = "idle"
  BY NoRepType DEF Idle, ConvRec
<1>2. phase' = phase
  BY DEF startVars
<1> QED
  BY <1>1, <1>2 DEF ConvInv

LEMMA ConvStep == StartInv /\ ConvInv /\ [Next]_allVars => ConvInv'
<1> SUFFICES ASSUME StartInv, ConvInv, [Next]_allVars PROVE ConvInv'
  OBVIOUS
<1>a. UNCHANGED startVars => UNCHANGED <<phase, configs>>
  BY DEF startVars
<1>b. ASSUME UNCHANGED startVars, UNCHANGED <<rep, conv, device>> PROVE ConvInv'
  <2>1. UNCHANGED <<phase, configs, rep, conv, device>>
    BY <1>a, <1>b
  <2> QED
    BY <2>1 DEF ConvInv, CopyOK, RepOK, Hosting, Type
<1>1. CASE UNCHANGED allVars
  BY <1>1, <1>b DEF allVars, convVars
<1>2. CASE StartNext /\ UNCHANGED convVars
  <2>1. phase # "running"
    BY <1>2 DEF StartNext, CallSetter, RunDiscovery, RunBuild, TuneBlockSize, StartManager
  <2>2. rep = NoRep /\ conv.at = "idle"
    BY <2>1 DEF ConvInv
  <2>3. UNCHANGED <<rep, conv, device>>
    BY <1>2 DEF convVars
  <2> QED
    BY <2>2, <2>3 DEF ConvInv
<1>3. CASE ConvNext
  <2>1. CASE \/ \E k \in ClientKeys : RegisterConverter(k) \/ UnregisterConverter(k)
             \/ RegisterBuiltin \/ Clear
    <3>1. UNCHANGED <<startVars, rep, conv, device>>
      BY <2>1 DEF RegisterConverter, UnregisterConverter, RegisterBuiltin, Clear
    <3> QED
      BY <3>1, <1>b
  <2>2. ASSUME NEW i \in DOMAIN configs, NEW n \in TableSizes, NewTable(i, n) PROVE ConvInv'
    <3>1. /\ phase = "running" /\ rep = NoRep /\ Hosting(i) /\ n \in Nat
          /\ UNCHANGED <<startVars, conv, device>>
      BY <2>2, ConversionAssumption DEF NewTable, Hosting
    <3>2. PICK bytes : bytes = [k \in 1..n |-> k]
      OBVIOUS
    <3>3. bytes \in Seq(Nat) /\ Len(bytes) = n /\ \A k \in 1..n : bytes[k] = k
      <4>1. bytes \in [1..n -> Nat]
        BY <3>1, <3>2
      <4> QED
        BY <4>1, <3>1, <3>2, LengthIs
    <3>4. rep' = [space |-> i, size |-> n, block |-> BlockSize(i, n), blocks |-> Blocks(n, BlockSize(i, n), bytes)]
      BY <2>2, <3>2 DEF NewTable, Allocated
    <3>5. PICK r : r = rep'
      OBVIOUS
    <3>6. r = [space |-> i, size |-> n, block |-> BlockSize(i, n), blocks |-> Blocks(n, BlockSize(i, n), bytes)]
      BY <3>4, <3>5
    <3>7. RepOK(r) /\ r.size = n /\ (\A m \in 0..Len(bytes) : (\A k \in 1..m : bytes[k] = k) => Holds(r, m))
      BY ONLY <3>1, <3>3, <3>6, AllocatedRight, StartInv
    <3>8. Holds(r, r.size)
      <4>1. n \in 0..Len(bytes)
        BY <3>1, <3>3
      <4> QED
        BY ONLY <4>1, <3>3, <3>7
    <3>9. RepOK(rep)'
      BY <3>1, <3>5, <3>7, <1>a DEF RepOK, Hosting, Type
    <3>10. conv.at = "idle"
      BY <3>1 DEF ConvInv
    <3> QED
      BY <3>1, <3>5, <3>8, <3>9, <3>10, <1>a DEF ConvInv
  <2>3. ASSUME NEW i \in DOMAIN configs, Convert(i) PROVE ConvInv'
    <3>1. /\ rep # NoRep /\ Hosting(i) /\ UNCHANGED <<startVars, rep>>
          /\ device' = IF Type(i) = "GPU" THEN configs[i].id ELSE device
          /\ conv' = [Idle EXCEPT !.at = "allocate", !.dst = [NoRep EXCEPT !.space = i], !.caller = device]
      BY <2>3 DEF Convert, Hosting
    <3>2. configs \in Seq(ConfigRec)
      BY DEF StartInv, ConfigsOK
    <3>3. i \in Nat /\ configs[i] \in ConfigRec
      BY <3>2, LenProperties, ElementOfSeq
    <3>4. device' \in Int /\ device \in Int
      BY <3>1, <3>3 DEF ConfigRec, ConvInv
    <3>5. [NoRep EXCEPT !.space = i] \in RepRec /\ [NoRep EXCEPT !.space = i].space = i
      BY <3>3, NoRepType DEF RepRec
    <3>6. PICK d \in RepRec : d = [NoRep EXCEPT !.space = i] /\ d.space = i
      BY <3>5
    <3>7. conv' = [Idle EXCEPT !.at = "allocate", !.dst = d, !.caller = device]
      BY <3>1, <3>6
    <3>8. /\ conv' \in ConvRec /\ conv'.at = "allocate" /\ conv'.dst.space = i
          /\ conv'.caller = device /\ conv'.copied = 0 /\ conv'.srcBlock = 1 /\ conv'.srcOff = 0
          /\ conv'.dstBlock = 1 /\ conv'.dstOff = 0
      <4>1. conv' = [at |-> "allocate", dst |-> d, caller |-> device, copied |-> 0,
                     srcBlock |-> 1, srcOff |-> 0, dstBlock |-> 1, dstOff |-> 0]
        BY <3>7 DEF Idle
      <4>2. conv' \in ConvRec
        BY <4>1, <3>4 DEF ConvRec
      <4>3. conv'.dst = d
        BY <4>1
      <4> QED
        BY <4>1, <4>2, <4>3, <3>6
    <3>9. rep # NoRep => phase = "running" /\ RepOK(rep) /\ Holds(rep, rep.size)
      BY DEF ConvInv
    <3>10. UNCHANGED <<phase, configs, rep>>
      BY <3>1, <1>a
    <3>11. (rep # NoRep => phase = "running" /\ RepOK(rep) /\ Holds(rep, rep.size))'
      BY <3>9, <3>10 DEF RepOK, Hosting, Type
    <3>12. Hosting(conv.dst.space)' /\ (Type(conv.dst.space) = "HOST" => device = conv.caller)'
      BY <3>1, <3>8, <3>10 DEF Hosting, Type
    <3> QED
      BY <3>1, <3>4, <3>8, <3>11, <3>12 DEF ConvInv
  <2>4. ASSUME NEW d \in 0..1, UseDevice(d) PROVE ConvInv'
    <3>1. conv.at = "idle" /\ device' \in Int /\ UNCHANGED <<startVars, rep, conv>>
      BY <2>4 DEF UseDevice
    <3>2. UNCHANGED <<phase, configs, rep, conv>>
      BY <3>1, <1>a
    <3> QED
      BY <3>1, <3>2 DEF ConvInv, RepOK, Hosting, Type
  <2>5. CASE AllocationThrows
    <3>1. conv' = Idle /\ UNCHANGED <<startVars, rep, device>>
      BY <2>5 DEF AllocationThrows
    <3>2. UNCHANGED <<phase, configs, rep, device>>
      BY <3>1, <1>a
    <3>3. device' \in Int /\ (rep' # NoRep => phase = "running" /\ RepOK(rep)' /\ Holds(rep', rep'.size))
      BY <3>2 DEF ConvInv, RepOK, Hosting, Type
    <3> QED
      BY <3>1, <3>3, IdleKeeps
  <2>6. CASE AllocationSucceeds
    <3>1. /\ conv.at = "allocate" /\ UNCHANGED <<startVars, rep, device>>
          /\ conv' = [conv EXCEPT !.at = "copy", !.dst = Allocated(conv.dst.space, rep.size)]
      BY <2>6 DEF AllocationSucceeds
    <3>2. PICK i, n : i = conv.dst.space /\ n = rep.size
      OBVIOUS
    <3>3. Hosting(i) /\ n \in Nat /\ rep # NoRep /\ RepOK(rep) /\ Holds(rep, n)
      BY <3>1, <3>2 DEF ConvInv, RepOK, Shape, RepRec
    <3>4. PICK bytes \in Seq(Nat) : bytes = <<>> /\ Len(bytes) = 0
      BY EmptySeq
    <3>5. PICK r : r = [space |-> i, size |-> n, block |-> BlockSize(i, n), blocks |-> Blocks(n, BlockSize(i, n), bytes)]
      OBVIOUS
    <3>6. RepOK(r) /\ r.space = i /\ r.size = n
      BY ONLY <3>3, <3>5, AllocatedRight, StartInv, bytes \in Seq(Nat)
    <3>7. \A m \in 0..Len(bytes) : (\A k \in 1..m : bytes[k] = k) => Holds(r, m)
      BY ONLY <3>3, <3>5, AllocatedRight, StartInv, bytes \in Seq(Nat)
    <3>8. Holds(r, 0)
      BY <3>4, <3>7
    <3>9. conv' = [conv EXCEPT !.at = "copy", !.dst = r]
      BY <3>1, <3>2, <3>4, <3>5 DEF Allocated
    <3>10. r \in RepRec
      BY <3>6 DEF RepOK, Shape
    <3>11. /\ conv' \in ConvRec /\ conv'.at = "copy" /\ conv'.dst = r /\ conv'.caller = conv.caller
           /\ conv'.copied = 0 /\ conv'.srcBlock = 1 /\ conv'.srcOff = 0 /\ conv'.dstBlock = 1
           /\ conv'.dstOff = 0
      BY <3>1, <3>9, <3>10 DEF ConvInv, ConvRec
    <3>12. 0 < n => Cursor(rep, 1, 0, 0) /\ Cursor(r, 1, 0, 0)
      <4>1. ASSUME NEW x, Shape(x), x.size = n, 0 < n PROVE Cursor(x, 1, 0, 0)
        <5>1. PICK b \in Nat \ {0} : b = x.block
          BY <4>1, <3>3 DEF Shape, RepRec
        <5>2. Pos(b, 1, 0) = 0
          BY DEF Pos
        <5> QED
          BY <5>1, <5>2 DEF Cursor
      <4> QED
        BY <4>1, <3>2, <3>3, <3>6 DEF RepOK
    <3>13. UNCHANGED <<phase, configs, rep, device>>
      BY <3>1, <1>a
    <3>14. CopyOK(rep, conv)'
      <4>1. RepOK(conv.dst)'
        BY <3>6, <3>11, <3>13 DEF RepOK, Hosting, Type
      <4> QED
        BY <4>1, <3>2, <3>3, <3>6, <3>8, <3>11, <3>12, <3>13 DEF CopyOK
    <3>15. Hosting(conv.dst.space)' /\ (Type(conv.dst.space) = "HOST" => device = conv.caller)'
      BY <3>1, <3>2, <3>3, <3>6, <3>11, <3>13 DEF ConvInv, Hosting, Type
    <3>16. (rep # NoRep => phase = "running" /\ RepOK(rep) /\ Holds(rep, rep.size))' /\ device' \in Int
      BY <3>13 DEF ConvInv, RepOK, Hosting, Type
    <3> QED
      BY <3>3, <3>11, <3>13, <3>14, <3>15, <3>16 DEF ConvInv
  <2>7. CASE ConvertGpuToHost \/ ConvertHostToGpu \/ ConvertHostToHost
    <3>1. CopyTurn /\ conv.at = "copy" /\ conv.copied < rep.size
      BY <2>7 DEF ConvertGpuToHost, ConvertHostToGpu, ConvertHostToHost, Copying
    <3>2. PICK n : n = Smallest({rep.size - conv.copied, rep.block - conv.srcOff, conv.dst.block - conv.dstOff})
      OBVIOUS
    <3>3. PICK bytes : bytes = SubSeq(rep.blocks[conv.srcBlock], conv.srcOff + 1, conv.srcOff + n)
      OBVIOUS
    <3>4. PICK e : e = Written(conv.dst, conv.dstBlock, conv.dstOff, bytes)
      OBVIOUS
    <3>5. PICK sb, so : /\ sb = NextBlock(conv.srcBlock, conv.srcOff + n, rep.block)
                        /\ so = NextOff(conv.srcOff + n, rep.block)
      OBVIOUS
    <3>6. PICK db, do : /\ db = NextBlock(conv.dstBlock, conv.dstOff + n, conv.dst.block)
                        /\ do = NextOff(conv.dstOff + n, conv.dst.block)
      OBVIOUS
    <3>7. conv' = [conv EXCEPT !.dst = e, !.copied = conv.copied + n, !.srcBlock = sb, !.srcOff = so,
                               !.dstBlock = db, !.dstOff = do]
      BY <3>1, <3>2, <3>3, <3>4, <3>5, <3>6 DEF CopyTurn
    <3>8. UNCHANGED <<phase, configs, rep, device>>
      BY <3>1, <1>a DEF CopyTurn
    <3>9. /\ rep # NoRep /\ RepOK(rep) /\ Holds(rep, rep.size) /\ phase = "running" /\ conv \in ConvRec
          /\ CopyOK(rep, conv) /\ device \in Int /\ Hosting(conv.dst.space)
          /\ (Type(conv.dst.space) = "HOST" => device = conv.caller)
      BY <3>1 DEF ConvInv
    <3>10. /\ Shape(rep) /\ Shape(conv.dst) /\ conv.dst.size = rep.size /\ Holds(conv.dst, conv.copied)
           /\ Cursor(rep, conv.srcBlock, conv.srcOff, conv.copied)
           /\ Cursor(conv.dst, conv.dstBlock, conv.dstOff, conv.copied)
      BY <3>1, <3>9 DEF CopyOK, RepOK
    <3>11. /\ n \in Nat /\ conv.copied + n <= rep.size
           /\ Shape(e) /\ e.space = conv.dst.space /\ e.size = rep.size /\ e.block = conv.dst.block
           /\ Holds(e, conv.copied + n)
           /\ sb \in Nat \ {0} /\ so \in Nat /\ Cursor(rep, sb, so, conv.copied + n)
           /\ db \in Nat \ {0} /\ do \in Nat /\ Cursor(e, db, do, conv.copied + n)
      <4>1. Unfinished(rep, conv)
        BY <3>1, <3>9, <3>10 DEF Unfinished
      <4>2. Advanced(rep, conv, n, e)
        BY ONLY <4>1, <3>2, <3>3, <3>4, TurnRight
      <4> QED
        BY ONLY <4>2, <3>5, <3>6 DEF Advanced
    <3>12. PICK k \in Nat : k = conv.copied + n
      BY <3>9, <3>11 DEF ConvRec
    <3>13. e \in RepRec
      BY <3>11 DEF Shape
    <3>14. /\ conv' \in ConvRec /\ conv'.at = "copy" /\ conv'.dst = e /\ conv'.caller = conv.caller
           /\ conv'.copied = k /\ conv'.srcBlock = sb /\ conv'.srcOff = so /\ conv'.dstBlock = db
           /\ conv'.dstOff = do
      BY <3>1, <3>7, <3>9, <3>11, <3>12, <3>13 DEF ConvRec
    <3>15. RepOK(conv.dst)'
      BY <3>8, <3>9, <3>10, <3>11, <3>14 DEF CopyOK, RepOK, Hosting, Type
    <3>16. CopyOK(rep, conv)'
      BY <3>8, <3>11, <3>12, <3>14, <3>15 DEF CopyOK
    <3>17. Hosting(conv.dst.space)' /\ (Type(conv.dst.space) = "HOST" => device = conv.caller)'
      BY <3>8, <3>9, <3>11, <3>14 DEF Hosting, Type
    <3>18. (rep # NoRep => phase = "running" /\ RepOK(rep) /\ Holds(rep, rep.size))' /\ device' \in Int
      BY <3>8, <3>9 DEF RepOK, Hosting, Type
    <3> QED
      BY <3>8, <3>9, <3>14, <3>16, <3>17, <3>18 DEF ConvInv
  <2>8. CASE ConvertGpuToGpu
    <3>1. /\ conv.at = "copy" /\ Type(rep.space) = "GPU" /\ Type(conv.dst.space) = "GPU"
          /\ conv' = [conv EXCEPT !.dst.blocks = rep.blocks, !.copied = rep.size]
          /\ UNCHANGED <<startVars, rep, device>>
      BY <2>8 DEF ConvertGpuToGpu, Copying
    <3>2. /\ rep # NoRep /\ RepOK(rep) /\ Holds(rep, rep.size) /\ phase = "running" /\ conv \in ConvRec
          /\ CopyOK(rep, conv) /\ device \in Int
      BY <3>1 DEF ConvInv
    <3>3. RepOK(conv.dst) /\ conv.dst.size = rep.size /\ conv.dst.block = rep.block /\ rep.size \in Nat
      BY <3>1, <3>2 DEF CopyOK, RepOK, Shape, RepRec
    <3>4. PICK e : e = [conv.dst EXCEPT !.blocks = rep.blocks]
      OBVIOUS
    <3>5. /\ e \in RepRec /\ e.space = conv.dst.space /\ e.size = rep.size /\ e.block = rep.block
          /\ e.blocks = rep.blocks
      BY <3>2, <3>3, <3>4 DEF RepOK, Shape, RepRec
    <3>6. conv' = [conv EXCEPT !.dst = e, !.copied = rep.size]
      BY <3>1, <3>2, <3>4 DEF ConvRec
    <3>7. /\ conv' \in ConvRec /\ conv'.at = "copy" /\ conv'.dst = e /\ conv'.caller = conv.caller
          /\ conv'.copied = rep.size
      BY <3>1, <3>2, <3>3, <3>5, <3>6 DEF ConvRec
    <3>8. Shape(e) /\ Holds(e, rep.size)
      BY <3>2, <3>5 DEF RepOK, Shape, Holds
    <3>9. UNCHANGED <<phase, configs, rep, device>>
      BY <3>1, <1>a
    <3>10. RepOK(conv.dst)'
      BY <3>1, <3>3, <3>5, <3>7, <3>8, <3>9 DEF RepOK, Hosting, Type
    <3>11. CopyOK(rep, conv)'
      BY <3>3, <3>5, <3>7, <3>8, <3>9, <3>10 DEF CopyOK
    <3>12. Hosting(conv.dst.space)' /\ (Type(conv.dst.space) = "HOST" => device = conv.caller)'
      BY <3>1, <3>3, <3>5, <3>7, <3>9 DEF RepOK, Hosting, Type
    <3>13. (rep # NoRep => phase = "running" /\ RepOK(rep) /\ Holds(rep, rep.size))' /\ device' \in Int
      BY <3>2, <3>9 DEF RepOK, Hosting, Type
    <3> QED
      BY <3>2, <3>7, <3>9, <3>11, <3>12, <3>13 DEF ConvInv
  <2>9. CASE ConversionReturns
    <3>1. /\ conv.at = "copy" /\ conv.copied = rep.size /\ rep' = conv.dst /\ conv' = Idle
          /\ device' = RestoredDevice(Type(rep.space), Type(conv.dst.space)) /\ UNCHANGED startVars
      BY <2>9 DEF ConversionReturns
    <3>2. /\ rep # NoRep /\ phase = "running" /\ RepOK(rep) /\ CopyOK(rep, conv) /\ conv \in ConvRec
          /\ device \in Int
      BY <3>1 DEF ConvInv
    <3>3. RepOK(conv.dst) /\ Holds(conv.dst, conv.dst.size)
      BY <3>1, <3>2 DEF CopyOK
    <3>4. configs[rep.space].id \in Int
      <4>1. configs \in Seq(ConfigRec) /\ rep.space \in DOMAIN configs
        BY <3>2 DEF StartInv, ConfigsOK, RepOK, Hosting
      <4>2. configs[rep.space] \in ConfigRec
        BY <4>1, LenProperties, ElementOfSeq
      <4> QED
        BY <4>2 DEF ConfigRec
    <3>5. conv.caller \in Int
      BY <3>2 DEF ConvRec
    <3>6. device' \in Int
      BY <3>1, <3>2, <3>4, <3>5 DEF RestoredDevice
    <3>7. RepOK(rep)' /\ Holds(rep', rep'.size)
      BY <3>1, <3>3, <1>a DEF RepOK, Hosting, Type
    <3> QED
      BY <3>1, <3>2, <3>6, <3>7, IdleKeeps
  <2> QED
    BY <1>3, <2>1, <2>2, <2>3, <2>4, <2>5, <2>6, <2>7, <2>8, <2>9 DEF ConvNext
<1> QED
  BY <1>1, <1>2, <1>3 DEF Next

\* A conversion under way has copied a prefix of the table, block by block, and
\* its cursors stand behind it (the copy loops of representation_converter.cpp).
THEOREM ConversionInvariant == Spec => []ConvInv
  BY ConvInitially, ConvStep, StartInvariant, PTL DEF Spec

\* A table of any size keeps its bytes through any conversions, between any
\* block sizes and with allocations that fail anywhere.
THEOREM TablesSurvive == Spec => []TableUnchanged
<1>1. ConvInv => TableUnchanged
  <2> SUFFICES ASSUME ConvInv PROVE TableUnchanged
    OBVIOUS
  <2>1. CASE rep = NoRep
    BY <2>1 DEF TableUnchanged, Content, NoRep
  <2>2. CASE rep # NoRep
    BY <2>2, HoldsIsContent DEF ConvInv, RepOK, TableUnchanged
  <2> QED
    BY <2>1, <2>2
<1> QED
  BY <1>1, ConversionInvariant, PTL

\* A conversion that succeeds leaves the device of its caller current, but for
\* a copy between GPUs that was called on another device than the source's.
THEOREM DevicesComeBack == Spec => DeviceRestored
<1>1. ASSUME ConvInv, [Next]_allVars, rep # NoRep, rep' # rep
      PROVE  \/ device' = conv.caller
             \/ /\ Type(rep.space) = "GPU" /\ Type(rep'.space) = "GPU"
                /\ device' = configs[rep.space].id /\ device' # conv.caller
  <2>1. ConversionReturns
    BY <1>1 DEF Next, allVars, convVars, ConvNext, RegisterConverter, UnregisterConverter,
       RegisterBuiltin, Clear, NewTable, Convert, UseDevice, AllocationThrows, AllocationSucceeds,
       ConvertGpuToHost, ConvertHostToGpu, ConvertHostToHost, ConvertGpuToGpu, CopyTurn
  <2>2. /\ conv.at = "copy" /\ rep' = conv.dst
        /\ device' = RestoredDevice(Type(rep.space), Type(conv.dst.space))
    BY <2>1 DEF ConversionReturns
  <2>3. /\ Type(rep.space) \in {"GPU", "HOST"} /\ Type(conv.dst.space) \in {"GPU", "HOST"}
        /\ (Type(conv.dst.space) = "HOST" => device = conv.caller)
    BY <2>2, <1>1 DEF ConvInv, RepOK, Hosting
  <2> QED
    BY <2>2, <2>3 DEF RestoredDevice
<1>2. ConvInv /\ [Next]_allVars =>
        [rep # NoRep /\ rep' # rep =>
           \/ device' = conv.caller
           \/ /\ Type(rep.space) = "GPU" /\ Type(rep'.space) = "GPU"
              /\ device' = configs[rep.space].id /\ device' # conv.caller]_allVars
  BY <1>1
<1> QED
  BY <1>2, ConversionInvariant, PTL DEF Spec, DeviceRestored

=============================================================================
