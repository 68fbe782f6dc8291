------------------------ MODULE DataRepositoryProofs ------------------------
(***************************************************************************)
(* A repository and its batches, for any number of threads, batches,       *)
(* repositories and partitions.                                            *)
(*                                                                         *)
(* None of the properties is inductive.  A pop may trust what it has seen  *)
(* of its partition only because it holds the mutex while it scans, so the *)
(* invariant (ThreadOK) says of every thread in the middle of a call what  *)
(* it knows at that point, and the proof of a step has two halves: the     *)
(* thread that takes it, and what the step may do to the others.           *)
(***************************************************************************)
EXTENDS RepositoryManager, DataBatchProofs, SequenceTheorems, WellFoundedInduction

-----------------------------------------------------------------------------
(* Sequences of partitions.                                                *)

Partitions == Seq(Seq(Batches))

\* No batch is twice in the partitions ps.
Unique(ps) ==
  \A p, q \in DOMAIN ps : \A i \in DOMAIN ps[p], j \in DOMAIN ps[q] :
    ps[p][i] = ps[q][j] => p = q /\ i = j

StoredIn(ps) == UNION {Range(ps[p]) : p \in DOMAIN ps}

\* A batch is stored where some partition has it.
LEMMA StoredMember ==
  ASSUME NEW ps, NEW b
  PROVE  b \in StoredIn(ps) <=> \E p \in DOMAIN ps : \E i \in DOMAIN ps[p] : ps[p][i] = b
  BY DEF StoredIn, Range

\* Taking an element out of a sequence.
LEMMA RemoveAtProperties ==
  ASSUME NEW S, NEW s \in Seq(S), NEW i \in 1..Len(s)
  PROVE  /\ RemoveAt(s, i) \in Seq(S)
         /\ Len(RemoveAt(s, i)) = Len(s) - 1
         /\ \A j \in 1..(Len(s) - 1) : RemoveAt(s, i)[j] = IF j < i THEN s[j] ELSE s[j + 1]
<1> DEFINE a == SubSeq(s, 1, i - 1)
           b == SubSeq(s, i + 1, Len(s))
<1>0. Len(s) \in Nat /\ i \in Nat
  BY LenProperties
<1>1. /\ a \in Seq(S) /\ Len(a) = i - 1
      /\ \A j \in 1..(i - 1) : a[j] = s[j]
  BY <1>0
<1>2. /\ b \in Seq(S) /\ Len(b) = Len(s) - i
      /\ \A j \in 1..(Len(s) - i) : b[j] = s[i + j]
  BY <1>0
<1> HIDE DEF a, b
<1>3. /\ a \o b \in Seq(S) /\ Len(a \o b) = Len(s) - 1
      /\ \A j \in 1..(Len(s) - 1) : (a \o b)[j] = IF j < i THEN s[j] ELSE s[j + 1]
  <2>1. a \o b \in Seq(S) /\ Len(a \o b) = Len(a) + Len(b)
    BY <1>1, <1>2, ConcatProperties
  <2>2. \A j \in 1..(Len(a) + Len(b)) : (a \o b)[j] = IF j <= Len(a) THEN a[j] ELSE b[j - Len(a)]
    BY <1>1, <1>2, ConcatProperties
  <2>3. ASSUME NEW j \in 1..(Len(s) - 1) PROVE (a \o b)[j] = IF j < i THEN s[j] ELSE s[j + 1]
    <3>1. CASE j < i
      BY <3>1, <2>2, <1>0, <1>1, <1>2
    <3>2. CASE ~(j < i)
      <4>1. (a \o b)[j] = b[j - (i - 1)] /\ j - (i - 1) \in 1..(Len(s) - i)
        BY <3>2, <2>2, <1>0, <1>1, <1>2
      <4>2. b[j - (i - 1)] = s[i + (j - (i - 1))] /\ i + (j - (i - 1)) = j + 1
        BY <4>1, <1>0, <1>2
      <4> QED
        BY <4>1, <4>2, <3>2
    <3> QED
      BY <3>1, <3>2
  <2> QED
    BY <1>0, <1>1, <1>2, <2>1, <2>3
<1>4. RemoveAt(s, i) = a \o b
  BY DEF RemoveAt, a, b
<1> QED
  BY <1>3, <1>4

\* A pop leaves the partitions free of the batch it takes.
LEMMA RemovedParts ==
  ASSUME NEW ps \in Partitions, NEW p \in DOMAIN ps, NEW i \in DOMAIN ps[p],
         NEW qs, qs = [ps EXCEPT ![p] = RemoveAt(@, i)]
  PROVE  /\ qs \in Partitions /\ DOMAIN qs = DOMAIN ps
         /\ \A k \in DOMAIN ps : Range(qs[k]) \subseteq Range(ps[k])
         /\ Unique(ps) => Unique(qs) /\ ps[p][i] \notin StoredIn(qs)
<1> DEFINE s == ps[p]
           r == RemoveAt(s, i)
<1>1. s \in Seq(Batches) /\ i \in 1..Len(s) /\ p \in 1..Len(ps) /\ DOMAIN ps = 1..Len(ps)
  BY DEF Partitions
<1>2. /\ r \in Seq(Batches) /\ Len(r) = Len(s) - 1
      /\ \A j \in 1..(Len(s) - 1) : r[j] = IF j < i THEN s[j] ELSE s[j + 1]
  BY <1>1, RemoveAtProperties
<1>3. /\ qs \in Partitions /\ DOMAIN qs = DOMAIN ps
      /\ qs[p] = r /\ \A k \in DOMAIN ps : k # p => qs[k] = ps[k]
  <2> HIDE DEF r
  <2>1. qs = [ps EXCEPT ![p] = r]
    BY DEF r
  <2> QED
    BY <1>1, <1>2, <2>1, ExceptSeq DEF Partitions
<1> DEFINE Old(k, j) == IF k = p /\ ~(j < i) THEN j + 1 ELSE j
<1>5. ASSUME NEW k \in DOMAIN ps, NEW j \in DOMAIN qs[k]
      PROVE  /\ Old(k, j) \in DOMAIN ps[k] /\ qs[k][j] = ps[k][Old(k, j)]
             /\ ~(k = p /\ Old(k, j) = i) /\ j \in Int
  <2>1. CASE k = p
    <3>1. j \in 1..Len(r) /\ qs[k] = r
      BY <2>1, <1>2, <1>3
    <3>2. Len(s) \in Nat
      BY <1>1, LenProperties
    <3> HIDE DEF r
    <3> QED
      BY <2>1, <3>1, <3>2, <1>1, <1>2
  <2>2. CASE k # p
    <3>1. qs[k] = ps[k]
      BY <2>2, <1>3
    <3>2. j \in Int
      BY <3>1, <1>1 DEF Partitions
    <3> QED
      BY <2>2, <3>1, <3>2
  <2> QED
    BY <2>1, <2>2
<1>6. ASSUME NEW k \in DOMAIN ps PROVE Range(qs[k]) \subseteq Range(ps[k])
  BY <1>5 DEF Range
<1>7. ASSUME NEW k \in DOMAIN ps, NEW j1, NEW j2, j1 \in Int, j2 \in Int, Old(k, j1) = Old(k, j2)
      PROVE  j1 = j2
  BY <1>1, <1>7
<1>8. ASSUME Unique(ps) PROVE Unique(qs)
  <2> HIDE DEF Old, r, s
  <2> SUFFICES ASSUME NEW k \in DOMAIN qs, NEW m \in DOMAIN qs,
                      NEW j1 \in DOMAIN qs[k], NEW j2 \in DOMAIN qs[m],
                      qs[k][j1] = qs[m][j2]
               PROVE  k = m /\ j1 = j2
    BY DEF Unique
  <2>1. k \in DOMAIN ps /\ m \in DOMAIN ps
    BY <1>3
  <2>2. ps[k][Old(k, j1)] = ps[m][Old(m, j2)]
    BY <2>1, <1>5
  <2>3. k = m /\ Old(k, j1) = Old(m, j2)
    BY <1>8, <2>1, <2>2, <1>5 DEF Unique
  <2> QED
    BY <2>1, <2>3, <1>5, <1>7
<1>9. ASSUME Unique(ps) PROVE ps[p][i] \notin StoredIn(qs)
  <2> HIDE DEF Old, r, s
  <2>0. PICK b : b = ps[p][i]
    OBVIOUS
  <2> SUFFICES ASSUME b \in StoredIn(qs) PROVE FALSE
    BY <2>0
  <2>3. PICK k \in DOMAIN qs : \E j \in DOMAIN qs[k] : qs[k][j] = b
    BY DEF StoredIn, Range
  <2>4. PICK j \in DOMAIN qs[k] : qs[k][j] = b
    BY <2>3
  <2>1. k \in DOMAIN ps
    BY <1>3
  <2>2. k = p /\ Old(k, j) = i
    BY <1>9, <2>0, <2>1, <2>4, <1>5 DEF Unique
  <2> QED
    BY <2>1, <2>2, <1>5
<1> QED
  BY <1>3, <1>6, <1>8, <1>9

\* add_data_batch puts a batch that is not stored at the end of a partition,
\* and leaves the other partitions alone.
LEMMA AddedParts ==
  ASSUME NEW ps \in Partitions, NEW p \in Nat \ {0}, NEW b \in Batches, b \notin StoredIn(ps),
         NEW qs, qs = Added(ps, p, b)
  PROVE  /\ qs \in Partitions /\ DOMAIN ps \subseteq DOMAIN qs
         /\ StoredIn(qs) \subseteq StoredIn(ps) \cup {b}
         /\ Unique(ps) => Unique(qs)
<1> DEFINE n == IF p > Len(ps) THEN p ELSE Len(ps)
           rs == Resized(ps, p)
<1>1. Len(ps) \in Nat /\ n \in Nat /\ p \in 1..n /\ DOMAIN ps = 1..Len(ps) /\ 1..Len(ps) \subseteq 1..n
  BY LenProperties DEF Partitions
<1>2. \A q \in 1..Len(ps) : ps[q] \in Seq(Batches)
  BY DEF Partitions
<1>3. rs = [q \in 1..n |-> IF q <= Len(ps) THEN ps[q] ELSE <<>>]
  BY DEF Resized
<1> HIDE DEF n, rs
<1>4. \A q \in 1..n : rs[q] \in Seq(Batches) /\ (q \in 1..Len(ps) => rs[q] = ps[q])
                      /\ (q \notin 1..Len(ps) => rs[q] = <<>>)
  BY <1>1, <1>2, <1>3
<1> DEFINE s == rs[p]
<1>5. s \in Seq(Batches) /\ Append(s, b) \in Seq(Batches) /\ Len(Append(s, b)) = Len(s) + 1
      /\ Append(s, b)[Len(s) + 1] = b
      /\ \A j \in 1..Len(s) : Append(s, b)[j] = s[j]
  <2>1. s \in Seq(Batches)
    BY <1>1, <1>4
  <2> HIDE DEF s
  <2> QED
    BY <2>1, AppendProperties
<1>6. qs = [q \in 1..n |-> IF q = p THEN Append(s, b) ELSE rs[q]]
  BY <1>1, <1>3 DEF rs, Added
<1> HIDE DEF s
<1>7. qs \in Partitions /\ DOMAIN qs = 1..n
  <2>1. \A q \in 1..n : qs[q] \in Seq(Batches)
    BY <1>4, <1>5, <1>6
  <2>2. qs \in [1..n -> Seq(Batches)] /\ n \in Nat
    BY <1>1, <1>6, <2>1
  <2>3. qs \in Seq(Seq(Batches))
    BY ONLY <2>2
  <2> QED
    BY <1>6, <2>3 DEF Partitions
<1>8. ASSUME NEW k \in 1..n, NEW j \in DOMAIN qs[k]
      PROVE  \/ k \in DOMAIN ps /\ j \in DOMAIN ps[k] /\ qs[k][j] = ps[k][j]
             \/ k = p /\ j = Len(s) + 1 /\ qs[k][j] = b
  <2>1. CASE k # p
    <3>1. qs[k] = rs[k] /\ j \in 1..Len(rs[k])
      BY <2>1, <1>4, <1>6
    <3>2. k \in 1..Len(ps)
      BY <3>1, <1>4
    <3> QED
      BY <3>1, <3>2, <1>1, <1>4
  <2>2. CASE k = p
    <3>1. qs[k] = Append(s, b) /\ j \in 1..(Len(s) + 1) /\ Len(s) \in Nat
      BY <2>2, <1>5, <1>6, LenProperties
    <3>2. CASE j \in 1..Len(s)
      <4>1. p \in 1..Len(ps)
        BY <3>2, <1>1, <1>4 DEF s
      <4> QED
        BY <3>1, <3>2, <4>1, <2>2, <1>1, <1>2, <1>4, <1>5 DEF s
    <3>3. CASE j = Len(s) + 1
      BY <3>1, <3>3, <2>2, <1>5
    <3> QED
      BY <3>1, <3>2, <3>3
  <2> QED
    BY <2>1, <2>2
<1>9. ASSUME Unique(ps) PROVE Unique(qs)
  <2> SUFFICES ASSUME NEW k \in 1..n, NEW m \in 1..n,
                      NEW j1 \in DOMAIN qs[k], NEW j2 \in DOMAIN qs[m],
                      qs[k][j1] = qs[m][j2]
               PROVE  k = m /\ j1 = j2
    BY <1>7 DEF Unique
  <2>1. \A q \in DOMAIN ps : \A i \in DOMAIN ps[q] : ps[q][i] # b
    BY StoredMember
  <2> QED
    BY <2>1, <1>8, <1>9 DEF Unique
<1>10. StoredIn(qs) \subseteq StoredIn(ps) \cup {b}
  <2> SUFFICES ASSUME NEW a \in StoredIn(qs), a # b PROVE a \in StoredIn(ps)
    OBVIOUS
  <2>1. PICK k \in DOMAIN qs : \E j \in DOMAIN qs[k] : qs[k][j] = a
    BY StoredMember
  <2>2. k \in DOMAIN ps /\ \E j \in DOMAIN ps[k] : ps[k][j] = a
    BY <2>1, <1>7, <1>8
  <2> QED
    BY <2>2, StoredMember
<1> QED
  BY <1>1, <1>7, <1>9, <1>10

\* A set of positions that is not empty has a first one.
LEMMA HasFirst ==
  ASSUME NEW T \in SUBSET Nat, T # {}
  PROVE  \E i \in T : \A j \in T : i <= j
<1>1. PICK i \in T : \A j \in T : <<j, i>> \notin OpToRel(<, Nat)
  BY WFMin, NatLessThanWellFounded
<1>2. \A j \in T : ~(j < i)
  BY <1>1 DEF OpToRel
<1> QED
  BY <1>2

-----------------------------------------------------------------------------
(* The invariant.                                                          *)

CallRec == [at : {"ready", "scan", "block", "wait", "woken", "return"}, op : Op,
            repo : Repos \cup {NoCv}, part : Nat,
            target : {"idle", "task_created", "in_transit"}, id : Batches \cup {NoBatch},
            i : Nat, got : Batches \cup {NoBatch},
            seen : SUBSET Batches, late : SUBSET Batches]

\* The thread that scans, is about to wait or about to return has the mutex,
\* and nobody else has.
MutexHeld ==
  \A r \in Repos, t \in Threads :
    lock[r] = t <=> call[t].repo = r /\ call[t].at \in {"scan", "block", "return"}

RepoShape ==
  /\ parts \in [Repos -> Partitions]
  /\ lock \in [Repos -> Threads \cup {NoThread}]
  /\ call \in [Threads -> CallRec]
  /\ MutexHeld
  /\ \A r \in Repos : Unique(parts[r])

\* What a thread knows at each point of its call.
ThreadOK(u) ==
  LET c == call[u]
  IN  /\ c.at # "ready" => c.repo \in Repos /\ c.part \in DOMAIN parts[c.repo]
      /\ c.at = "scan" =>
           /\ c.i \in DOMAIN Partition(c)
           /\ c.op = "pop_data_batch" => \A j \in 1..(c.i - 1) : Partition(c)[j] \in c.seen
      /\ c.at = "block" /\ c.op = "pop_data_batch" => Range(Partition(c)) \subseteq c.seen
      /\ c.at = "wait" /\ c.op = "pop_data_batch" =>
           Range(Partition(c)) \subseteq c.seen \/ \E x \in Threads : notifying[x] = c.repo
      /\ c.at = "return" => c.got \in Batches
      /\ c.at = "return" /\ c.op # "get_data_batch_by_id" => c.got \notin StoredIn(parts[c.repo])
      /\ c.at = "return" /\ c.target = "in_transit" =>
           movers[c.got] = {u} /\ state[c.got] = "in_transit"

RepoInv == BatchCore /\ RepoShape /\ \A u \in Threads : ThreadOK(u)

\* A search starts at the first batch it may take.
LEMMA FirstIsCandidate ==
  ASSUME NEW c, Partition(c) \in Seq(Batches), Candidates(c) # {}
  PROVE  /\ First(c) \in DOMAIN Partition(c)
         /\ c.op = "pop_data_batch" => \A j \in 1..(First(c) - 1) : FALSE
<1>1. DOMAIN Partition(c) \subseteq Nat /\ DOMAIN Partition(c) = 1..Len(Partition(c))
      /\ Len(Partition(c)) \in Nat
  OBVIOUS
<1>2. Candidates(c) \in SUBSET Nat /\ Candidates(c) \subseteq DOMAIN Partition(c)
  BY <1>1 DEF Candidates
<1>3. First(c) \in Candidates(c) /\ \A j \in Candidates(c) : First(c) <= j
  BY <1>2, HasFirst DEF First
<1>4. c.op = "pop_data_batch" => Candidates(c) = DOMAIN Partition(c)
  BY DEF Candidates
<1> QED
  BY <1>1, <1>2, <1>3, <1>4

-----------------------------------------------------------------------------
(* What a step of one thread may do to the others.                         *)

\* It changes a repository only if it has its mutex or nobody has, and then
\* takes batches out or notifies; it withdraws no notification; and it leaves
\* batches alone that another thread holds in transit.
Frame(t) ==
  /\ \A r \in Repos :
       \/ parts'[r] = parts[r]
       \/ /\ lock[r] \in {t, NoThread}
          /\ DOMAIN parts[r] \subseteq DOMAIN parts'[r]
          /\ \/ \A p \in DOMAIN parts[r] : Range(parts'[r][p]) \subseteq Range(parts[r][p])
             \/ notifying'[t] = r
  /\ \A x \in Threads : notifying[x] # NoCv => notifying'[x] = notifying[x]
  /\ \A u \in Threads, b \in Batches :
       u # t /\ movers[b] = {u} /\ state[b] = "in_transit" =>
         movers'[b] = {u} /\ state'[b] = "in_transit"
  /\ \A u \in Threads : u # t => call'[u] = call[u]

\* Whatever it gives the others to take it announces: a batch whose state it
\* changes, or that it stores somewhere, is one whose condition variable it goes
\* on to notify.
Announces(t) ==
  /\ Frame(t)
  /\ batchId' = batchId
  /\ \A b \in Batches : state'[b] # state[b] => notifying'[t] = cv[b]
  /\ \A b \in Batches : cv'[b] # cv[b] => cv'[b] \in Repos /\ notifying'[t] = cv'[b]
  /\ \A r \in Repos : \A b \in StoredIn(parts'[r]) : b \in StoredIn(parts[r]) \/ cv'[b] = r

\* Then the others know what they knew.
LEMMA OthersKeep ==
  ASSUME RepoInv, NEW t \in Threads, Frame(t), NEW u \in Threads, u # t
  PROVE  ThreadOK(u)'
<1> DEFINE c == call[u]
<1>0. call'[u] = c /\ c \in CallRec /\ ThreadOK(u)
  BY DEF Frame, RepoInv, RepoShape
<1>1. CASE c.at = "ready"
  BY <1>0, <1>1 DEF ThreadOK
<1>2. CASE c.at # "ready"
  <2>0. c.repo \in Repos /\ c.part \in DOMAIN parts[c.repo]
    BY <1>0, <1>2 DEF ThreadOK
  <2>1. c.part \in DOMAIN parts'[c.repo]
    BY <2>0 DEF Frame
  <2>2. CASE c.at \in {"scan", "block", "return"}
    <3>1. lock[c.repo] = u /\ u # NoThread
      BY <2>0, <2>2, RepositoryAssumption DEF RepoInv, RepoShape, MutexHeld
    <3>2. parts'[c.repo] = parts[c.repo]
      BY <2>0, <3>1 DEF Frame
    <3>3. Partition(call[u])' = Partition(call[u])
      BY <1>0, <3>2 DEF Partition
    <3>4. c.at = "return" /\ c.target = "in_transit" =>
            movers'[c.got] = {u} /\ state'[c.got] = "in_transit"
      BY <1>0 DEF ThreadOK, Frame
    <3> QED
      BY <1>0, <2>0, <2>1, <2>2, <3>2, <3>3, <3>4 DEF ThreadOK, Partition
  <2>3. CASE c.at = "wait"
    <3>1. ASSUME c.op = "pop_data_batch"
          PROVE  \/ Range(parts'[c.repo][c.part]) \subseteq c.seen
                 \/ \E x \in Threads : notifying'[x] = c.repo
      <4>1. CASE Range(parts[c.repo][c.part]) \subseteq c.seen
        BY <2>0, <4>1 DEF Frame
      <4>2. CASE \E x \in Threads : notifying[x] = c.repo
        BY <2>0, <4>2, DataBatchAssumption DEF Frame
      <4> QED
        BY <1>0, <2>3, <3>1, <4>1, <4>2 DEF ThreadOK, Partition
    <3> QED
      BY <1>0, <2>0, <2>1, <2>3, <3>1 DEF ThreadOK, Partition
  <2>4. CASE c.at = "woken"
    BY <1>0, <2>0, <2>1, <2>4 DEF ThreadOK
  <2> QED
    BY <1>0, <1>2, <2>2, <2>3, <2>4 DEF CallRec
<1> QED
  BY <1>1, <1>2

\* The invariant after a step of thread t.
LEMMA StepKeeps ==
  ASSUME RepoInv, NEW t \in Threads, Frame(t), BatchCore', RepoShape', ThreadOK(t)'
  PROVE  RepoInv'
<1>1. ASSUME NEW u \in Threads PROVE ThreadOK(u)'
  BY <1>1, OthersKeep
<1> QED
  BY <1>1 DEF RepoInv

-----------------------------------------------------------------------------
(* The batch operations of a thread.                                       *)

BatchOp(t) ==
  \/ \E b \in Batches :
       \/ TryToCreateTask(t, b)
       \/ TryToCancelTask(t, b)
       \/ \E s \in Spaces, h \in Handles : TryToLockForProcessing(t, b, s, h)
       \/ TryToLockForInTransit(t, b)
       \/ \E s \in BatchState : TryToReleaseInTransit(t, b, s)
  \/ \E h \in Handles : HandleRelease(t, h)

\* A batch operation is a step of DataBatch that disturbs no other thread.
LEMMA BatchOpFrame ==
  ASSUME BatchCore, NEW t \in Threads, BatchOp(t)
  PROVE  /\ BatchCore'
         /\ UNCHANGED <<batchId, cv>>
         /\ \A b \in Batches : state'[b] # state[b] => notifying'[t] = cv[b]
         /\ \A x \in Threads : notifying[x] # NoCv => notifying'[x] = notifying[x]
         /\ \A u \in Threads, b \in Batches :
              u # t /\ movers[b] = {u} /\ state[b] = "in_transit" =>
                movers'[b] = {u} /\ state'[b] = "in_transit"
<1>0. TypeOK /\ TransitHeld
  BY DEF BatchCore
<1>1. BatchCore'
  BY CoreStep DEF BatchOp, Next, ClientStep
<1>2. ASSUME NEW b \in Batches, NEW s, MoveTo(t, b, s), Ready(t)
      PROVE  /\ \A x \in Threads : notifying[x] # NoCv => notifying'[x] = notifying[x]
             /\ \A a \in Batches : a # b => state'[a] = state[a]
             /\ notifying'[t] = cv[b]
  BY <1>0, <1>2 DEF MoveTo, Ready, TypeOK
<1>3. \A x \in Threads : notifying[x] # NoCv => notifying'[x] = notifying[x]
  <2>1. ASSUME NEW b \in Batches, DecrementProcessingCount(t, b), Ready(t)
        PROVE  \A x \in Threads : notifying[x] # NoCv => notifying'[x] = notifying[x]
    BY <1>2, <2>1 DEF DecrementProcessingCount
  <2>2. \A h \in Handles : HandleRelease(t, h) => handle[h] \in Batches
    BY <1>0 DEF HandleRelease, TypeOK
  <2> QED
    BY <1>2, <2>1, <2>2 DEF BatchOp, TryToCreateTask, TryToCancelTask, TryToLockForProcessing,
       TryToLockForInTransit, TryToReleaseInTransit, HandleRelease
<1>4. ASSUME NEW u \in Threads, NEW a \in Batches,
             u # t, movers[a] = {u}, state[a] = "in_transit"
      PROVE  movers'[a] = {u} /\ state'[a] = "in_transit"
  <2>1. ASSUME NEW b \in Batches, TryToCreateTask(t, b)
        PROVE  movers'[a] = {u} /\ state'[a] = "in_transit"
    BY <1>2, <1>4, <2>1 DEF TryToCreateTask
  <2>2. ASSUME NEW b \in Batches, TryToCancelTask(t, b)
        PROVE  movers'[a] = {u} /\ state'[a] = "in_transit"
    BY <1>2, <1>4, <2>2 DEF TryToCancelTask, CanCancelTask
  <2>3. ASSUME NEW b \in Batches, NEW s \in Spaces, NEW h \in Handles,
               TryToLockForProcessing(t, b, s, h)
        PROVE  movers'[a] = {u} /\ state'[a] = "in_transit"
    BY <1>2, <1>4, <2>3 DEF TryToLockForProcessing, CanLockForProcessing
  <2>4. ASSUME NEW b \in Batches, TryToLockForInTransit(t, b)
        PROVE  movers'[a] = {u} /\ state'[a] = "in_transit"
    <3>1. a # b
      BY <1>4, <2>4 DEF TryToLockForInTransit, CanLockForInTransit
    <3> QED
      BY <1>0, <1>2, <1>4, <2>4, <3>1 DEF TryToLockForInTransit, TypeOK
  <2>5. ASSUME NEW b \in Batches, NEW s \in BatchState, TryToReleaseInTransit(t, b, s)
        PROVE  movers'[a] = {u} /\ state'[a] = "in_transit"
    <3>1. a # b
      BY <1>4, <2>5 DEF TryToReleaseInTransit
    <3> QED
      BY <1>0, <1>2, <1>4, <2>5, <3>1 DEF TryToReleaseInTransit, TypeOK
  <2>6. ASSUME NEW h \in Handles, HandleRelease(t, h)
        PROVE  movers'[a] = {u} /\ state'[a] = "in_transit"
    <3>1. handle[h] \in Batches /\ Ready(t) /\ UNCHANGED movers /\ DecrementProcessingCount(t, handle[h])
      BY <1>0, <2>6 DEF HandleRelease, TypeOK
    <3>2. a # handle[h]
      BY <1>4, <3>1 DEF DecrementProcessingCount
    <3>3. state'[a] = state[a]
      BY <1>2, <3>1, <3>2 DEF DecrementProcessingCount
    <3> QED
      BY <1>4, <3>1, <3>3
  <2> QED
    BY <2>1, <2>2, <2>3, <2>4, <2>5, <2>6 DEF BatchOp
<1>5. UNCHANGED <<batchId, cv>>
  BY DEF BatchOp, TryToCreateTask, TryToCancelTask, TryToLockForProcessing, TryToLockForInTransit,
     TryToReleaseInTransit, HandleRelease
<1>6. ASSUME NEW a \in Batches, state'[a] # state[a] PROVE notifying'[t] = cv[a]
  <2>1. ASSUME NEW b \in Batches, NEW s, MoveTo(t, b, s), Ready(t) PROVE notifying'[t] = cv[a]
    <3>1. a = b
      BY <1>2, <1>6, <2>1
    <3> QED
      BY <1>2, <2>1, <3>1
  <2>2. ASSUME NEW h \in Handles, HandleRelease(t, h) PROVE notifying'[t] = cv[a]
    <3>1. handle[h] \in Batches /\ Ready(t) /\ DecrementProcessingCount(t, handle[h])
      BY <1>0, <2>2 DEF HandleRelease, TypeOK
    <3> QED
      BY <1>6, <2>1, <3>1 DEF DecrementProcessingCount
  <2> QED
    BY <1>6, <2>1, <2>2 DEF BatchOp, TryToCreateTask, TryToCancelTask, TryToLockForProcessing,
       TryToLockForInTransit, TryToReleaseInTransit
<1> QED
  BY <1>1, <1>3, <1>4, <1>5, <1>6

\* A change of condition variables and notifications does not concern what the
\* counters and locks of a batch rest on.
LEMMA CoreUnmoved ==
  ASSUME BatchCore,
         UNCHANGED <<live, batchId, data, state, taskCreated, processing, handle, grant, movers>>,
         cv' \in [Batches -> Repos \cup {NoCv}], notifying' \in [Threads -> Repos \cup {NoCv}]
  PROVE  BatchCore'
<1>1. TypeOK'
  BY DEF BatchCore, TypeOK
<1>2. HandlesCounted' /\ ActiveIsProcessing' /\ HandlesOnLive' /\ TransitHeld'
  BY DEF BatchCore, HandlesCounted, HandlesOn, ActiveIsProcessing, HandlesOnLive, TransitHeld
<1> QED
  BY <1>1, <1>2 DEF BatchCore

\* A step that leaves the batches alone keeps what is known of them.
LEMMA CoreSame == ASSUME BatchCore, UNCHANGED batchVars PROVE BatchCore'
  BY CoreUnmoved DEF BatchCore, TypeOK, batchVars

-----------------------------------------------------------------------------
(* The steps of a thread.                                                  *)

\* What clients do with a batch.
LEMMA ClientKeeps ==
  ASSUME RepoInv, NEW t \in Threads, BatchClient(t)
  PROVE  RepoInv' /\ Announces(t)
<1>1. BatchOp(t) /\ UNCHANGED <<parts, lock, call>> /\ At(t, "ready")
  BY DEF BatchClient, BatchOp, repoVars
<1>2. Frame(t) /\ BatchCore'
  BY <1>1, BatchOpFrame DEF RepoInv, Frame
<1>3. RepoShape'
  BY <1>1 DEF RepoInv, RepoShape, MutexHeld
<1>4. ThreadOK(t)'
  BY <1>1 DEF ThreadOK, At
<1>5. Announces(t)
  BY <1>1, <1>2, BatchOpFrame DEF RepoInv, Announces
<1> QED
  BY <1>2, <1>3, <1>4, <1>5, StepKeeps

\* notify_state_change.
LEMMA NotifyStateChangeKeeps ==
  ASSUME RepoInv, NEW t \in Threads, NEW r \in Repos, NotifyStateChange(t, r)
  PROVE  RepoInv' /\ Announces(t)
<1>1. /\ UNCHANGED <<parts, lock, call>> /\ At(t, "ready") /\ notifying[t] = NoCv
      /\ notifying' = [notifying EXCEPT ![t] = r]
      /\ UNCHANGED <<live, batchId, data, state, taskCreated, processing, cv, handle, grant, movers>>
  BY DEF NotifyStateChange, Free, Ready, repoVars
<1>0. TypeOK
  BY DEF RepoInv, BatchCore
<1>2. Frame(t)
  BY <1>0, <1>1 DEF Frame, TypeOK
<1>3. RepoShape'
  BY <1>1 DEF RepoInv, RepoShape, MutexHeld
<1>4. ThreadOK(t)'
  BY <1>1 DEF ThreadOK, At
<1>5. BatchCore'
  BY <1>0, <1>1, CoreUnmoved DEF RepoInv, TypeOK
<1>6. Announces(t)
  BY <1>1, <1>2 DEF Announces
<1> QED
  BY <1>2, <1>3, <1>4, <1>5, <1>6, StepKeeps

\* add_data_batch.
LEMMA AddKeeps ==
  ASSUME RepoInv, NEW t \in Threads, NEW b \in Batches, NEW r \in Repos,
         NEW p \in 1..MaxPartitions, AddDataBatch(t, b, r, p)
  PROVE  RepoInv' /\ Announces(t)
<1> DEFINE qs == Added(parts[r], p, b)
<1>0. TypeOK /\ parts \in [Repos -> Partitions] /\ p \in Nat \ {0}
  BY RepositoryAssumption DEF RepoInv, BatchCore, RepoShape
<1>1. /\ UNCHANGED <<lock, call>> /\ At(t, "ready") /\ notifying[t] = NoCv /\ lock[r] = NoThread
      /\ notifying' = [notifying EXCEPT ![t] = r] /\ cv' = [cv EXCEPT ![b] = r]
      /\ UNCHANGED <<live, batchId, data, state, taskCreated, processing, handle, grant, movers>>
  BY DEF AddDataBatch, Free, Ready
<1>9. parts' = [parts EXCEPT ![r] = qs]
  BY DEF AddDataBatch
<1>2. b \notin StoredIn(parts[r])
  BY DEF AddDataBatch, Stored, StoredIn
<1>3. /\ qs \in Partitions /\ DOMAIN parts[r] \subseteq DOMAIN qs
      /\ StoredIn(qs) \subseteq StoredIn(parts[r]) \cup {b}
      /\ Unique(parts[r]) => Unique(qs)
  <2>1. PICK ps, rs : ps = parts[r] /\ rs = qs
    OBVIOUS
  <2>2. ps \in Partitions /\ b \notin StoredIn(ps) /\ rs = Added(ps, p, b)
    BY <1>0, <1>2, <2>1
  <2> HIDE DEF qs
  <2> QED
    BY <1>0, <2>1, <2>2, AddedParts
<1> HIDE DEF qs
<1>4. parts'[r] = qs /\ \A s \in Repos : s # r => parts'[s] = parts[s]
  BY <1>0, <1>9
<1>5. Frame(t)
  BY <1>0, <1>1, <1>3, <1>4 DEF Frame, TypeOK
<1>6. RepoShape'
  <2>1. parts' \in [Repos -> Partitions]
    BY <1>0, <1>3, <1>9
  <2>2. \A s \in Repos : Unique(parts'[s])
    BY <1>3, <1>4 DEF RepoInv, RepoShape
  <2> QED
    BY <1>1, <2>1, <2>2 DEF RepoInv, RepoShape, MutexHeld
<1>7. ThreadOK(t)'
  BY <1>1 DEF ThreadOK, At
<1>8. BatchCore'
  BY <1>0, <1>1, CoreUnmoved DEF RepoInv, TypeOK
<1>10. Announces(t)
  <2>1. notifying'[t] = r /\ cv'[b] = r /\ \A a \in Batches : a # b => cv'[a] = cv[a]
    BY <1>0, <1>1 DEF TypeOK
  <2>2. \A s \in Repos : \A a \in StoredIn(parts'[s]) : a \in StoredIn(parts[s]) \/ cv'[a] = s
    BY <1>3, <1>4, <2>1
  <2> QED
    BY <1>1, <1>5, <2>1, <2>2 DEF Announces
<1> QED
  BY <1>5, <1>6, <1>7, <1>8, <1>10, StepKeeps

\* A step that changes no batch and no partition, and of the threads only one,
\* which is neither scanning nor about to return.
LEMMA CallKeeps ==
  ASSUME RepoInv, NEW t \in Threads, NEW c \in CallRec, UNCHANGED batchVars, UNCHANGED parts,
         lock' \in [Repos -> Threads \cup {NoThread}], MutexHeld',
         call' = [call EXCEPT ![t] = c], ThreadOK(t)'
  PROVE  RepoInv'
<1>1. Frame(t)
  BY DEF Frame, batchVars, RepoInv, RepoShape
<1>2. BatchCore'
  BY CoreSame DEF RepoInv
<1>3. RepoShape'
  BY DEF RepoInv, RepoShape
<1> QED
  BY <1>1, <1>2, <1>3, StepKeeps

\* The mutex of repository r passes from nobody to t, or back.
LEMMA MutexMoves ==
  ASSUME RepoInv, NEW t \in Threads, NEW c \in CallRec, NEW r \in Repos, c.repo = r \/ c = NoCall,
         call[t].repo = r \/ call[t].at = "ready",
         call' = [call EXCEPT ![t] = c],
         \/ /\ lock[r] = NoThread /\ lock' = [lock EXCEPT ![r] = t]
            /\ c.at \in {"scan", "block", "return"} /\ c.repo = r
         \/ /\ lock' = [lock EXCEPT ![r] = NoThread]
            /\ c.at \notin {"scan", "block", "return"}
            /\ lock[r] \in {t, NoThread}
  PROVE  lock' \in [Repos -> Threads \cup {NoThread}] /\ MutexHeld'
<1>1. lock \in [Repos -> Threads \cup {NoThread}] /\ call \in [Threads -> CallRec] /\ MutexHeld
      /\ NoThread \notin Threads
  BY RepositoryAssumption DEF RepoInv, RepoShape
<1>2. /\ call'[t] = c /\ \A u \in Threads : u # t => call'[u] = call[u]
  BY <1>1
<1>3. \A q \in Repos : q # r => lock'[q] = lock[q]
  BY <1>1
<1>4. ASSUME NEW q \in Repos, NEW u \in Threads
      PROVE  lock'[q] = u <=> call'[u].repo = q /\ call'[u].at \in {"scan", "block", "return"}
  <2>0. lock[q] = u <=> call[u].repo = q /\ call[u].at \in {"scan", "block", "return"}
    BY <1>1 DEF MutexHeld
  <2>1. CASE q # r /\ u # t
    BY <2>0, <2>1, <1>2, <1>3
  <2>2. CASE q # r /\ u = t
    <3>1. lock[q] # t
      BY <2>0, <2>2
    <3>2. ~(c.repo = q /\ c.at \in {"scan", "block", "return"})
      BY <2>2 DEF NoCall
    <3> QED
      BY <2>2, <3>1, <3>2, <1>2, <1>3
  <2>3. CASE q = r /\ u # t
    BY <2>0, <2>3, <1>1, <1>2
  <2>4. CASE q = r /\ u = t
    BY <2>0, <2>4, <1>1, <1>2
  <2> QED
    BY <2>1, <2>2, <2>3, <2>4
<1> QED
  BY <1>1, <1>4 DEF MutexHeld

\* A search that starts or starts again.
LEMMA SearchKeeps ==
  ASSUME RepoInv, NEW t \in Threads, NEW c \in CallRec, c.repo \in Repos,
         c.part \in DOMAIN parts[c.repo], Candidates(c) # {},
         call[t].repo = c.repo \/ call[t].at = "ready",
         lock[c.repo] = NoThread, lock' = [lock EXCEPT ![c.repo] = t],
         NEW d \in CallRec, d.at = "scan", d.i = First(c), d.repo = c.repo, d.part = c.part, d.op = c.op,
         call' = [call EXCEPT ![t] = d], UNCHANGED batchVars, UNCHANGED parts
  PROVE  RepoInv'
<1>1. parts \in [Repos -> Partitions] /\ call \in [Threads -> CallRec]
  BY DEF RepoInv, RepoShape
<1>2. Partition(c) \in Seq(Batches)
  BY <1>1 DEF Partition, Partitions
<1>3. /\ First(c) \in DOMAIN Partition(c)
      /\ c.op = "pop_data_batch" => \A j \in 1..(First(c) - 1) : FALSE
  BY <1>2, FirstIsCandidate
<1>4. lock' \in [Repos -> Threads \cup {NoThread}] /\ MutexHeld'
  BY MutexMoves
<1>5. call'[t] = d
  BY <1>1
<1>6. ThreadOK(t)'
  BY <1>3, <1>5 DEF ThreadOK, Partition
<1> QED
  BY <1>4, <1>6, CallKeeps

\* A call that clients make is a call record.
LEMMA SearchType ==
  ASSUME NEW op \in Op, NEW r \in Repos, NEW p \in 1..MaxPartitions, NEW target \in Targets,
         NEW id \in Batches \cup {NoBatch}
  PROVE  /\ Search(op, r, p, target, id) \in CallRec
         /\ Search(op, r, p, target, id).repo = r
<1>1. NoCall \in CallRec
  BY DEF NoCall, CallRec, Op
<1>2. p \in Nat /\ target \in {"idle", "task_created", "in_transit"}
  BY RepositoryAssumption
<1> QED
  BY <1>1, <1>2 DEF CallRec, Search

\* Entering a search.
LEMMA BeginKeeps ==
  ASSUME RepoInv, NEW t \in Threads, NEW c \in CallRec, c.repo \in Repos, BeginSearch(t, c)
  PROVE  RepoInv'
<1> DEFINE d == [c EXCEPT !.at = "scan", !.i = First(c)]
<1>1. /\ At(t, "ready") /\ lock[c.repo] = NoThread /\ c.part \in DOMAIN parts[c.repo]
      /\ Candidates(c) # {} /\ lock' = [lock EXCEPT ![c.repo] = t]
      /\ call' = [call EXCEPT ![t] = d] /\ UNCHANGED batchVars /\ UNCHANGED parts
  BY DEF BeginSearch, Free
<1>2. First(c) \in Nat
  <2>1. Partition(c) \in Seq(Batches)
    BY <1>1 DEF RepoInv, RepoShape, Partition, Partitions
  <2> QED
    BY <1>1, <2>1, FirstIsCandidate
<1>3. d \in CallRec /\ d.at = "scan" /\ d.i = First(c) /\ d.repo = c.repo /\ d.part = c.part /\ d.op = c.op
  BY <1>2 DEF CallRec
<1> HIDE DEF d
<1> QED
  BY <1>1, <1>3, SearchKeeps DEF At

\* A woken thread goes round the loop.
LEMMA RescanKeeps ==
  ASSUME RepoInv, NEW t \in Threads, Rescan(t)
  PROVE  RepoInv'
<1> DEFINE c == call[t]
           d == [c EXCEPT !.at = "scan", !.i = First(c), !.seen = {}, !.late = {}]
<1>0. c \in CallRec /\ c.at = "woken" /\ lock[c.repo] = NoThread /\ UNCHANGED batchVars /\ UNCHANGED parts
  BY DEF RepoInv, RepoShape, Rescan, At
<1>1. c.repo \in Repos /\ c.part \in DOMAIN parts[c.repo]
  BY <1>0 DEF RepoInv, ThreadOK
<1>2. CASE call' = [call EXCEPT ![t] = NoCall] /\ UNCHANGED lock
  <2>1. NoCall \in CallRec /\ NoCall.at = "ready"
    BY DEF NoCall, CallRec, Op
  <2>2. lock' = [lock EXCEPT ![c.repo] = NoThread]
    BY <1>0, <1>2 DEF RepoInv, RepoShape
  <2>3. lock' \in [Repos -> Threads \cup {NoThread}] /\ MutexHeld'
    BY <1>0, <1>1, <1>2, <2>1, <2>2, MutexMoves
  <2>4. call'[t] = NoCall
    BY <1>2 DEF RepoInv, RepoShape
  <2>5. ThreadOK(t)'
    BY <2>1, <2>4 DEF ThreadOK
  <2> QED
    BY <1>0, <1>2, <2>1, <2>3, <2>5, CallKeeps
<1>3. CASE /\ Candidates(c) # {}
           /\ lock' = [lock EXCEPT ![c.repo] = t]
           /\ call' = [call EXCEPT ![t] = d]
  <2>1. First(c) \in Nat
    <3>1. Partition(c) \in Seq(Batches)
      BY <1>1 DEF RepoInv, RepoShape, Partition, Partitions
    <3> QED
      BY <1>3, <3>1, FirstIsCandidate
  <2>2. d \in CallRec /\ d.at = "scan" /\ d.i = First(c) /\ d.repo = c.repo /\ d.part = c.part /\ d.op = c.op
    BY <1>0, <2>1 DEF CallRec
  <2> HIDE DEF d
  <2> QED
    BY <1>0, <1>1, <1>3, <2>2, SearchKeeps
<1> QED
  BY <1>2, <1>3 DEF Rescan

\* _cv.wait.
LEMMA WaitKeeps ==
  ASSUME RepoInv, NEW t \in Threads, Wait(t)
  PROVE  RepoInv'
<1> DEFINE c == call[t]
           late == {b \in Wanted(c) : Eligible(b, c.target)}
           d == [c EXCEPT !.at = "wait", !.late = late]
<1>0. /\ c \in CallRec /\ c.at = "block" /\ UNCHANGED batchVars /\ UNCHANGED parts
      /\ lock' = [lock EXCEPT ![c.repo] = NoThread] /\ call' = [call EXCEPT ![t] = d]
  BY DEF RepoInv, RepoShape, Wait, At
<1>1. c.repo \in Repos /\ c.part \in DOMAIN parts[c.repo] /\ lock[c.repo] = t
      /\ (c.op = "pop_data_batch" => Range(Partition(c)) \subseteq c.seen)
  BY <1>0 DEF RepoInv, RepoShape, MutexHeld, ThreadOK
<1>2. d \in CallRec /\ d.at = "wait" /\ d.repo = c.repo /\ d.part = c.part /\ d.op = c.op /\ d.seen = c.seen
  <2>1. Wanted(c) \subseteq Batches
    BY <1>1 DEF RepoInv, RepoShape, Wanted, Candidates, Partition, Partitions
  <2>2. late \in SUBSET Batches
    BY <2>1
  <2> HIDE DEF late
  <2> QED
    BY <1>0, <2>2 DEF CallRec
<1> HIDE DEF d
<1>3. lock' \in [Repos -> Threads \cup {NoThread}] /\ MutexHeld'
  BY <1>0, <1>1, <1>2, MutexMoves
<1>4. call'[t] = d
  BY <1>0 DEF RepoInv, RepoShape
<1>5. ThreadOK(t)'
  BY <1>0, <1>1, <1>2, <1>4 DEF ThreadOK, Partition
<1> QED
  BY <1>0, <1>2, <1>3, <1>5, CallKeeps

\* The call returns.
LEMMA ReturnKeeps ==
  ASSUME RepoInv, NEW t \in Threads, Return(t)
  PROVE  RepoInv'
<1> DEFINE c == call[t]
<1>0. /\ c \in CallRec /\ c.at = "return" /\ UNCHANGED batchVars /\ UNCHANGED parts
      /\ lock' = [lock EXCEPT ![c.repo] = NoThread] /\ call' = [call EXCEPT ![t] = NoCall]
  BY DEF RepoInv, RepoShape, Return, At
<1>1. c.repo \in Repos /\ lock[c.repo] = t
  BY <1>0 DEF RepoInv, RepoShape, MutexHeld, ThreadOK
<1>2. NoCall \in CallRec /\ NoCall.at = "ready"
  BY DEF NoCall, CallRec, Op
<1>3. lock' \in [Repos -> Threads \cup {NoThread}] /\ MutexHeld'
  BY <1>0, <1>1, <1>2, MutexMoves
<1>4. call'[t] = NoCall
  BY <1>0 DEF RepoInv, RepoShape
<1>5. ThreadOK(t)'
  BY <1>2, <1>4 DEF ThreadOK
<1> QED
  BY <1>0, <1>2, <1>3, <1>5, CallKeeps

\* pop_data_batch_by_id without a target state.
LEMMA PopNowKeeps ==
  ASSUME RepoInv, NEW t \in Threads, NEW r \in Repos, NEW p \in 1..MaxPartitions,
         NEW id \in Batches, PopByIdNow(t, r, p, id)
  PROVE  RepoInv' /\ Announces(t)
<1> DEFINE c == [NoCall EXCEPT !.op = "pop_data_batch_by_id", !.repo = r, !.part = p, !.id = id]
<1>0. c.repo = r /\ c.part = p
  BY DEF NoCall
<1>1. /\ At(t, "ready") /\ lock[r] = NoThread /\ p \in DOMAIN parts[r] /\ Candidates(c) # {}
      /\ parts' = Erased(c, First(c)) /\ UNCHANGED batchVars /\ UNCHANGED <<lock, call>>
  BY DEF PopByIdNow, Free
<1>2. parts \in [Repos -> Partitions] /\ \A s \in Repos : Unique(parts[s])
  BY DEF RepoInv, RepoShape
<1> HIDE DEF c
<1>3. PICK i : i = First(c)
  OBVIOUS
<1>4. i \in DOMAIN parts[r][p]
  <2>1. Partition(c) \in Seq(Batches)
    BY <1>0, <1>1, <1>2 DEF Partition, Partitions
  <2> QED
    BY <1>0, <1>1, <1>3, <2>1, FirstIsCandidate DEF Partition
<1>5. PICK qs : qs = [parts[r] EXCEPT ![p] = RemoveAt(@, i)]
  OBVIOUS
<1>6. parts' = [parts EXCEPT ![r] = qs]
  BY <1>0, <1>1, <1>3, <1>5 DEF Erased
<1>7. /\ qs \in Partitions /\ DOMAIN qs = DOMAIN parts[r] /\ Unique(qs)
      /\ \A k \in DOMAIN parts[r] : Range(qs[k]) \subseteq Range(parts[r][k])
  <2>1. PICK n : n = p
    OBVIOUS
  <2>2. parts[r] \in Partitions /\ n \in DOMAIN parts[r] /\ i \in DOMAIN parts[r][n] /\ Unique(parts[r])
    BY <1>1, <1>2, <1>4, <2>1
  <2>3. qs = [parts[r] EXCEPT ![n] = RemoveAt(@, i)]
    BY <1>5, <2>1
  <2> QED
    BY <2>2, <2>3, RemovedParts
<1>8. parts'[r] = qs /\ \A s \in Repos : s # r => parts'[s] = parts[s]
  BY <1>2, <1>6
<1>9. Frame(t)
  BY <1>1, <1>7, <1>8 DEF Frame, batchVars
<1>10. RepoShape'
  <2>1. parts' \in [Repos -> Partitions]
    BY <1>2, <1>6, <1>7
  <2>2. \A s \in Repos : Unique(parts'[s])
    BY <1>2, <1>7, <1>8
  <2> QED
    BY <1>1, <2>1, <2>2 DEF RepoInv, RepoShape, MutexHeld
<1>11. ThreadOK(t)'
  BY <1>1 DEF ThreadOK, At
<1>12. BatchCore'
  BY <1>1, CoreSame DEF RepoInv
<1>13. StoredIn(qs) \subseteq StoredIn(parts[r])
  BY <1>7 DEF StoredIn
<1>14. Announces(t)
  BY <1>1, <1>8, <1>9, <1>13 DEF Announces, batchVars
<1> QED
  BY <1>9, <1>10, <1>11, <1>12, <1>14, StepKeeps

\* The transition of a scan is a batch operation of the thread, and for
\* in_transit it makes the thread the only mover of the batch.
LEMMA TransitionIsOp ==
  ASSUME BatchCore, NEW t \in Threads, NEW b \in Batches, NEW target,
         TryTransitionBatchForPop(t, b, target)
  PROVE  /\ BatchOp(t)
         /\ target = "in_transit" => movers'[b] = {t} /\ state'[b] = "in_transit"
<1>1. BatchOp(t)
  BY DEF TryTransitionBatchForPop, BatchOp
<1>2. ASSUME target = "in_transit" PROVE movers'[b] = {t} /\ state'[b] = "in_transit"
  <2>1. TryToLockForInTransit(t, b)
    BY <1>2 DEF TryTransitionBatchForPop
  <2>2. movers[b] = {}
    BY <2>1 DEF TryToLockForInTransit, CanLockForInTransit, BatchCore, TransitHeld
  <2> QED
    BY <2>1, <2>2 DEF TryToLockForInTransit, MoveTo, BatchCore, TypeOK
<1> QED
  BY <1>1, <1>2

\* The batch under examination makes the transition.
LEMMA HitKeeps ==
  ASSUME RepoInv, NEW t \in Threads, ScanHit(t)
  PROVE  RepoInv' /\ Announces(t) /\ ~At(t, "wait")'
<1>0. PICK c : c = call[t]
  OBVIOUS
<1>1. PICK b : b = Partition(c)[c.i]
  OBVIOUS
<1>2. /\ c \in CallRec /\ c.at = "scan" /\ UNCHANGED lock
      /\ TryTransitionBatchForPop(t, b, c.target)
      /\ parts' = (IF c.op = "get_data_batch_by_id" THEN parts ELSE Erased(c, c.i))
      /\ call' = [call EXCEPT ![t].at = "return", ![t].got = b]
  BY <1>0, <1>1 DEF RepoInv, RepoShape, ScanHit, At
<1>3. /\ parts \in [Repos -> Partitions] /\ call \in [Threads -> CallRec] /\ MutexHeld
      /\ \A s \in Repos : Unique(parts[s])
  BY DEF RepoInv, RepoShape
<1>4. /\ c.repo \in Repos /\ c.part \in DOMAIN parts[c.repo] /\ lock[c.repo] = t
      /\ c.i \in DOMAIN parts[c.repo][c.part]
  BY <1>0, <1>2, <1>3 DEF RepoInv, ThreadOK, MutexHeld, Partition
<1>5. b \in Batches /\ b = parts[c.repo][c.part][c.i]
  BY <1>1, <1>3, <1>4 DEF Partition, Partitions
<1>6. BatchOp(t) /\ (c.target = "in_transit" => movers'[b] = {t} /\ state'[b] = "in_transit")
  BY <1>2, <1>5, TransitionIsOp DEF RepoInv
<1>7. /\ BatchCore' /\ UNCHANGED <<batchId, cv>>
      /\ \A a \in Batches : state'[a] # state[a] => notifying'[t] = cv[a]
      /\ \A x \in Threads : notifying[x] # NoCv => notifying'[x] = notifying[x]
      /\ \A u \in Threads, a \in Batches :
           u # t /\ movers[a] = {u} /\ state[a] = "in_transit" =>
             movers'[a] = {u} /\ state'[a] = "in_transit"
  BY <1>6, BatchOpFrame DEF RepoInv
<1> DEFINE d == [c EXCEPT !.at = "return", !.got = b]
<1>8. call' = [call EXCEPT ![t] = d]
  BY <1>0, <1>2, <1>3 DEF CallRec
<1>9. /\ d \in CallRec /\ d.at = "return" /\ d.got = b /\ d.repo = c.repo /\ d.part = c.part
      /\ d.op = c.op /\ d.target = c.target
  BY <1>2, <1>5 DEF CallRec
<1> HIDE DEF d
<1>10. call'[t] = d /\ call' \in [Threads -> CallRec] /\ \A u \in Threads : u # t => call'[u] = call[u]
  BY <1>3, <1>8, <1>9
<1>11. PICK qs : qs = [parts[c.repo] EXCEPT ![c.part] = RemoveAt(@, c.i)]
  OBVIOUS
<1>12. c.op # "get_data_batch_by_id" => parts' = [parts EXCEPT ![c.repo] = qs]
  BY <1>2, <1>11 DEF Erased
<1>13. /\ qs \in Partitions /\ DOMAIN qs = DOMAIN parts[c.repo] /\ Unique(qs) /\ b \notin StoredIn(qs)
       /\ \A k \in DOMAIN parts[c.repo] : Range(qs[k]) \subseteq Range(parts[c.repo][k])
  BY <1>3, <1>4, <1>5, <1>11, RemovedParts
<1>14. /\ parts' \in [Repos -> Partitions]
       /\ \A s \in Repos : s # c.repo => parts'[s] = parts[s]
       /\ parts'[c.repo] = IF c.op = "get_data_batch_by_id" THEN parts[c.repo] ELSE qs
  BY <1>2, <1>3, <1>4, <1>12, <1>13
<1>15. Frame(t)
  BY <1>4, <1>7, <1>10, <1>13, <1>14 DEF Frame
<1>16. RepoShape'
  <2>1. MutexHeld'
    BY <1>0, <1>2, <1>3, <1>9, <1>10 DEF MutexHeld
  <2>2. \A s \in Repos : Unique(parts'[s])
    BY <1>3, <1>4, <1>13, <1>14
  <2> QED
    BY <1>2, <1>10, <1>14, <2>1, <2>2 DEF RepoInv, RepoShape
<1>17. ThreadOK(t)'
  <2>1. d.part \in DOMAIN parts'[d.repo]
    BY <1>4, <1>9, <1>13, <1>14
  <2>2. d.op # "get_data_batch_by_id" => d.got \notin StoredIn(parts'[d.repo])
    BY <1>9, <1>13, <1>14
  <2> QED
    BY <1>4, <1>5, <1>6, <1>9, <1>10, <2>1, <2>2 DEF ThreadOK
<1>18. StoredIn(qs) \subseteq StoredIn(parts[c.repo])
  BY <1>13 DEF StoredIn
<1>19. Announces(t)
  BY <1>7, <1>14, <1>15, <1>18 DEF Announces
<1>20. ~At(t, "wait")'
  BY <1>9, <1>10 DEF At
<1> QED
  BY <1>7, <1>15, <1>16, <1>17, <1>19, <1>20, StepKeeps

\* It does not, and the search goes on or is about to wait.
LEMMA MissKeeps ==
  ASSUME RepoInv, NEW t \in Threads, ScanMiss(t)
  PROVE  RepoInv'
<1>0. PICK c : c = call[t]
  OBVIOUS
<1>1. PICK b : b = Partition(c)[c.i]
  OBVIOUS
<1>2. PICK later : later = {j \in Candidates(c) : j > c.i}
  OBVIOUS
<1>3. /\ parts \in [Repos -> Partitions] /\ call \in [Threads -> CallRec] /\ MutexHeld
      /\ lock \in [Repos -> Threads \cup {NoThread}]
  BY DEF RepoInv, RepoShape
<1>4. /\ c \in CallRec /\ c.at = "scan" /\ UNCHANGED batchVars /\ UNCHANGED <<lock, parts>>
      /\ call' = [call EXCEPT ![t].seen = @ \cup {b},
                              ![t].at = IF later = {} THEN "block" ELSE "scan",
                              ![t].i = IF later = {} THEN @ ELSE @ + 1]
  BY <1>0, <1>1, <1>2, <1>3 DEF ScanMiss, At
<1>5. /\ c.repo \in Repos /\ c.part \in DOMAIN parts[c.repo]
      /\ c.i \in DOMAIN Partition(c)
      /\ c.op = "pop_data_batch" => \A j \in 1..(c.i - 1) : Partition(c)[j] \in c.seen
  BY <1>0, <1>4 DEF RepoInv, ThreadOK
<1>6. Partition(c) \in Seq(Batches)
  BY <1>3, <1>5 DEF Partition, Partitions
<1>7. b \in Batches /\ DOMAIN Partition(c) = 1..Len(Partition(c)) /\ Len(Partition(c)) \in Nat
      /\ c.i \in Nat
  <2>1. c.i \in Nat
    BY <1>4 DEF CallRec
  <2>2. DOMAIN Partition(c) = 1..Len(Partition(c)) /\ Len(Partition(c)) \in Nat
    BY <1>6, LenProperties
  <2>3. b \in Batches
    BY <1>1, <1>5, <1>6, <2>2, ElementOfSeq
  <2> QED
    BY <2>1, <2>2, <2>3
<1> DEFINE w == IF later = {} THEN "block" ELSE "scan"
           k == IF later = {} THEN c.i ELSE c.i + 1
           d == [c EXCEPT !.seen = @ \cup {b}, !.at = w, !.i = k]
<1>8. call' = [call EXCEPT ![t] = d]
  BY <1>0, <1>3, <1>4 DEF CallRec
<1>9. /\ d \in CallRec /\ d.repo = c.repo /\ d.part = c.part /\ d.op = c.op /\ d.seen = c.seen \cup {b}
      /\ d.at = w /\ d.i = k
  <2>1. w \in {"block", "scan"} /\ k \in Nat
    BY <1>7
  <2> HIDE DEF w, k
  <2> QED
    BY <1>4, <1>7, <2>1 DEF CallRec
<1> HIDE DEF d
<1>17. d.at \in {"block", "scan"}
  BY <1>9
<1>10. call'[t] = d /\ \A u \in Threads : u # t => call'[u] = call[u]
  BY <1>3, <1>8
<1>11. MutexHeld'
  <2> SUFFICES ASSUME NEW r \in Repos, NEW u \in Threads
               PROVE  lock[r] = u <=> call'[u].repo = r /\ call'[u].at \in {"scan", "block", "return"}
    BY <1>4 DEF MutexHeld
  <2>1. lock[r] = u <=> call[u].repo = r /\ call[u].at \in {"scan", "block", "return"}
    BY <1>3 DEF MutexHeld
  <2>2. CASE u = t
    <3>1. call'[u].repo = call[u].repo /\ call'[u].at \in {"scan", "block", "return"}
      BY <1>0, <1>9, <1>10, <1>17, <2>2
    <3> QED
      BY <1>0, <1>4, <2>1, <2>2, <3>1
  <2>3. CASE u # t
    BY <1>10, <2>1, <2>3
  <2> QED
    BY <2>2, <2>3
<1>12. later \subseteq DOMAIN Partition(c) /\ (c.op = "pop_data_batch" => later = {j \in DOMAIN Partition(c) : j > c.i})
  BY <1>2 DEF Candidates
<1>13. later # {} => c.i + 1 \in DOMAIN Partition(c)
  BY <1>2, <1>5, <1>7, <1>12
<1>14. ASSUME c.op = "pop_data_batch", later = {} PROVE Range(Partition(c)) \subseteq d.seen
  <2>1. \A j \in DOMAIN Partition(c) : j = c.i \/ j \in 1..(c.i - 1)
    BY <1>5, <1>7, <1>12, <1>14
  <2> QED
    BY <1>1, <1>5, <1>9, <1>14, <2>1 DEF Range
<1>15. c.op = "pop_data_batch" => \A j \in 1..c.i : Partition(c)[j] \in d.seen
  BY <1>1, <1>5, <1>7, <1>9
<1>16. ThreadOK(t)'
  <2>1. PICK s : s = Partition(c)
    OBVIOUS
  <2>2. Partition(d)' = s /\ Partition(call[t])' = s
    BY <1>4, <1>9, <1>10, <2>1 DEF Partition
  <2>3. CASE later = {}
    <3>1. d.at = "block"
      BY <1>9, <2>3
    <3> QED
      BY <1>4, <1>5, <1>9, <1>10, <1>14, <2>1, <2>2, <2>3, <3>1 DEF ThreadOK
  <2>4. CASE later # {}
    <3>1. d.at = "scan" /\ d.i = c.i + 1
      BY <1>9, <2>4
    <3>2. d.i - 1 = c.i
      BY <1>7, <3>1
    <3> QED
      BY <1>4, <1>5, <1>9, <1>10, <1>13, <1>15, <2>1, <2>2, <2>4, <3>1, <3>2 DEF ThreadOK
  <2> QED
    BY <2>3, <2>4
<1> QED
  BY <1>3, <1>4, <1>8, <1>9, <1>11, <1>16, CallKeeps

\* notify_all: the threads that wait for this repository wake up, so none of
\* them depends on the notification that is gone.
LEMMA NotifyKeeps ==
  ASSUME RepoInv, NEW t \in Threads, Notify(t)
  PROVE  RepoInv'
<1>0. TypeOK /\ call \in [Threads -> CallRec] /\ MutexHeld
  BY DEF RepoInv, BatchCore, RepoShape
<1>1. /\ notifying[t] # NoCv /\ notifying' = [notifying EXCEPT ![t] = NoCv]
      /\ UNCHANGED <<live, batchId, data, state, taskCreated, processing, cv, handle, grant, movers>>
      /\ UNCHANGED <<parts, lock>>
  BY DEF Notify, NotifyAll
<1>2. BatchCore'
  BY <1>0, <1>1, CoreUnmoved DEF RepoInv, TypeOK
<1>3. ASSUME NEW u \in Threads
      PROVE  \/ /\ call'[u] = [call[u] EXCEPT !.at = "woken"]
                /\ call[u].at = "wait"
             \/ /\ call'[u] = call[u]
                /\ ~(call[u].at = "wait" /\ call[u].repo = notifying[t])
  BY DEF Notify, At
<1>4. ASSUME NEW u \in Threads
      PROVE  /\ call'[u] \in CallRec /\ call'[u].repo = call[u].repo
             /\ call'[u].part = call[u].part
             /\ call'[u].at \in {"scan", "block", "return"} <=> call[u].at \in {"scan", "block", "return"}
  BY <1>0, <1>3 DEF CallRec
<1>5. RepoShape'
  <2>1. call' \in [Threads -> CallRec]
    <3>1. call' = [u \in Threads |-> call'[u]]
      BY DEF Notify
    <3> QED
      BY <1>4, <3>1
  <2>2. MutexHeld'
    BY <1>0, <1>1, <1>4 DEF MutexHeld
  <2> QED
    BY <1>1, <2>1, <2>2 DEF RepoInv, RepoShape
<1>6. ASSUME NEW u \in Threads PROVE ThreadOK(u)'
  <2>0. ThreadOK(u) /\ call[u] \in CallRec
    BY <1>0 DEF RepoInv
  <2>1. CASE call'[u] = [call[u] EXCEPT !.at = "woken"] /\ call[u].at = "wait"
    <3>1. call'[u].at = "woken" /\ call'[u].repo = call[u].repo /\ call'[u].part = call[u].part
      BY <2>0, <2>1 DEF CallRec
    <3> QED
      BY <1>1, <2>0, <2>1, <3>1 DEF ThreadOK
  <2>2. CASE call'[u] = call[u] /\ call[u].at = "wait" /\ call[u].repo # notifying[t]
    <3>1. /\ call[u].repo \in Repos /\ call[u].part \in DOMAIN parts[call[u].repo]
          /\ Partition(call[u])' = Partition(call[u])
      BY <1>1, <2>0, <2>2 DEF ThreadOK, Partition
    <3>2. \A x \in Threads : notifying[x] = call[u].repo => notifying'[x] = call[u].repo
      BY <1>0, <1>1, <2>2 DEF TypeOK
    <3>3. call[u].op = "pop_data_batch" =>
            \/ Range(Partition(call[u])) \subseteq call[u].seen
            \/ \E x \in Threads : notifying'[x] = call[u].repo
      BY <2>0, <2>2, <3>2 DEF ThreadOK
    <3> QED
      BY <1>1, <2>2, <3>1, <3>3 DEF ThreadOK
  <2>3. CASE call'[u] = call[u] /\ call[u].at # "wait"
    <3>1. Partition(call[u])' = Partition(call[u])
      BY <1>1, <2>3 DEF Partition
    <3> QED
      BY <1>1, <2>0, <2>3, <3>1 DEF ThreadOK
  <2> QED
    BY <1>3, <2>1, <2>2, <2>3
<1> QED
  BY <1>2, <1>5, <1>6 DEF RepoInv

\* A wakeup for no reason.
LEMMA SpuriousKeeps ==
  ASSUME RepoInv, NEW t \in Threads, SpuriousWakeup(t)
  PROVE  RepoInv'
<1> DEFINE c == call[t]
           d == [c EXCEPT !.at = "woken"]
<1>0. /\ c \in CallRec /\ c.at = "wait" /\ UNCHANGED batchVars /\ UNCHANGED parts /\ UNCHANGED lock
      /\ call' = [call EXCEPT ![t] = d]
  BY DEF RepoInv, RepoShape, SpuriousWakeup, At
<1>1. c.repo \in Repos /\ c.part \in DOMAIN parts[c.repo]
  BY <1>0 DEF RepoInv, ThreadOK
<1>2. d \in CallRec /\ d.at = "woken" /\ d.repo = c.repo /\ d.part = c.part
  BY <1>0 DEF CallRec
<1> HIDE DEF d
<1>3. call'[t] = d /\ \A u \in Threads : u # t => call'[u] = call[u]
  BY <1>0 DEF RepoInv, RepoShape
<1>4. lock' \in [Repos -> Threads \cup {NoThread}] /\ MutexHeld'
  BY <1>0, <1>2, <1>3 DEF RepoInv, RepoShape, MutexHeld
<1>5. ThreadOK(t)'
  BY <1>0, <1>1, <1>2, <1>3 DEF ThreadOK
<1> QED
  BY <1>0, <1>2, <1>4, <1>5, CallKeeps

-----------------------------------------------------------------------------
(* The theorems.                                                           *)

\* At first the repositories are empty, and nobody is in a call.
LEMMA RepoInitially == RepoInit => RepoInv
<1> SUFFICES ASSUME RepoInit PROVE RepoInv
  OBVIOUS
<1>1. BatchCore
  <2>1. TypeOK
    BY DataBatchAssumption DEF RepoInit, TypeOK, BatchState
  <2>2. HandlesCounted
    <3> SUFFICES ASSUME NEW b \in Batches PROVE processing[b] = Cardinality(HandlesOn(b))
      BY DEF HandlesCounted
    <3>1. HandlesOn(b) = {}
      BY DataBatchAssumption DEF RepoInit, HandlesOn
    <3> QED
      BY <3>1, FS_EmptySet DEF RepoInit
  <2>3. ActiveIsProcessing /\ HandlesOnLive /\ TransitHeld
    BY DataBatchAssumption DEF RepoInit, ActiveIsProcessing, HandlesOnLive, TransitHeld
  <2> QED
    BY <2>1, <2>2, <2>3 DEF BatchCore
<1>2. NoCall \in CallRec /\ NoCall.at = "ready"
  BY DEF NoCall, CallRec, Op
<1>3. RepoShape
  <2>1. parts \in [Repos -> Partitions] /\ \A r \in Repos : Unique(parts[r])
    <3>1. << <<>> >> \in Partitions /\ Unique(<< <<>> >>)
      BY DEF Partitions, Unique
    <3> QED
      BY <3>1 DEF RepoInit
  <2>2. lock \in [Repos -> Threads \cup {NoThread}] /\ call \in [Threads -> CallRec]
    BY <1>2 DEF RepoInit
  <2>3. MutexHeld
    BY <1>2, RepositoryAssumption DEF RepoInit, MutexHeld
  <2> QED
    BY <2>1, <2>2, <2>3 DEF RepoShape
<1>4. \A u \in Threads : ThreadOK(u)
  BY <1>2 DEF RepoInit, ThreadOK
<1> QED
  BY <1>1, <1>3, <1>4 DEF RepoInv

\* Every step of a client, of a call under way or of the condition variable.
LEMMA RepoStep == RepoInv /\ [RepoNext]_vars => RepoInv'
<1> SUFFICES ASSUME RepoInv, [RepoNext]_vars PROVE RepoInv'
  OBVIOUS
<1>1. ASSUME NEW t \in Threads, RepoClient(t) PROVE RepoInv'
  <2>1. PICK r \in Repos, p \in 1..MaxPartitions :
          \/ NotifyStateChange(t, r)
          \/ \E b \in Batches : AddDataBatch(t, b, r, p)
          \/ \E target \in Targets :
               BeginSearch(t, Search("pop_data_batch", r, p, target, NoBatch))
          \/ \E b \in Batches : PopByIdNow(t, r, p, b)
          \/ \E b \in Batches, target \in Targets,
                op \in {"pop_data_batch_by_id", "get_data_batch_by_id"} :
               BeginSearch(t, Search(op, r, p, target, b))
    BY <1>1 DEF RepoClient
  <2>2. ASSUME NEW op \in Op, NEW target \in Targets, NEW id \in Batches \cup {NoBatch},
               BeginSearch(t, Search(op, r, p, target, id))
        PROVE  RepoInv'
    <3>1. PICK c : c = Search(op, r, p, target, id)
      OBVIOUS
    <3>2. c \in CallRec /\ c.repo \in Repos
      BY <3>1, SearchType
    <3>3. BeginSearch(t, c)
      BY <2>2, <3>1
    <3> QED
      BY <3>2, <3>3, BeginKeeps
  <2>3. CASE NotifyStateChange(t, r)
    BY <2>3, NotifyStateChangeKeeps
  <2>4. CASE \E b \in Batches : AddDataBatch(t, b, r, p)
    BY <2>4, AddKeeps
  <2>5. CASE \E b \in Batches : PopByIdNow(t, r, p, b)
    BY <2>5, PopNowKeeps
  <2>6. CASE \E target \in Targets : BeginSearch(t, Search("pop_data_batch", r, p, target, NoBatch))
    <3>1. "pop_data_batch" \in Op /\ NoBatch \in Batches \cup {NoBatch}
      BY DEF Op
    <3> QED
      BY <2>2, <2>6, <3>1
  <2>7. CASE \E b \in Batches, target \in Targets,
                op \in {"pop_data_batch_by_id", "get_data_batch_by_id"} :
               BeginSearch(t, Search(op, r, p, target, b))
    <3>1. {"pop_data_batch_by_id", "get_data_batch_by_id"} \subseteq Op
      BY DEF Op
    <3> QED
      BY <2>2, <2>7, <3>1
  <2> QED
    BY <2>1, <2>3, <2>4, <2>5, <2>6, <2>7
<1>2. ASSUME NEW t \in Threads, Progress(t) PROVE RepoInv'
  BY <1>2, HitKeeps, MissKeeps, WaitKeeps, RescanKeeps, ReturnKeeps, NotifyKeeps DEF Progress
<1>3. CASE UNCHANGED vars
  <2>1. UNCHANGED batchVars /\ UNCHANGED <<parts, lock, call>>
    BY <1>3 DEF vars, repoVars
  <2>2. BatchCore'
    BY <2>1, CoreSame DEF RepoInv
  <2>3. RepoShape'
    BY <2>1 DEF RepoInv, RepoShape, MutexHeld
  <2>4. ASSUME NEW u \in Threads PROVE ThreadOK(u)'
    BY <2>1 DEF RepoInv, ThreadOK, Partition, batchVars
  <2> QED
    BY <2>2, <2>3, <2>4 DEF RepoInv
<1> QED
  BY <1>1, <1>2, <1>3, ClientKeeps, SpuriousKeeps DEF RepoNext

\* Every batch that is stored has a condition variable.
StoredHaveCv == \A r \in Repos : \A b \in StoredIn(parts[r]) : cv[b] # NoCv

\* Nobody but the thread that takes the step changes, and it does not go to sleep:
\* the step is announced, goes to sleep, or is the announcement.
LEMMA StepAnnounces ==
  ASSUME RepoInv, RepoNext
  PROVE  \E t \in Threads : \/ Announces(t) /\ ~At(t, "wait")'
                            \/ Announces(t) /\ Wait(t)
                            \/ Notify(t)
<1>0. call \in [Threads -> CallRec]
  BY DEF RepoInv, RepoShape
<1>1. ASSUME NEW t \in Threads, NEW c, UNCHANGED batchVars, UNCHANGED parts,
             call' = [call EXCEPT ![t] = c]
      PROVE  Announces(t) /\ call'[t] = c
  BY <1>0, <1>1 DEF Announces, Frame, batchVars
<1>2. ASSUME NEW t \in Threads, BatchClient(t) PROVE Announces(t) /\ ~At(t, "wait")'
  BY <1>2, ClientKeeps DEF BatchClient, At, repoVars
<1>3. ASSUME NEW t \in Threads, NEW c, c \in CallRec, BeginSearch(t, c)
      PROVE  Announces(t) /\ ~At(t, "wait")'
  <2>1. PICK d : d = [c EXCEPT !.at = "scan", !.i = First(c)]
    OBVIOUS
  <2>2. d.at = "scan"
    BY <1>3, <2>1 DEF CallRec
  <2>3. Announces(t) /\ call'[t] = d
    BY <1>1, <1>3, <2>1 DEF BeginSearch
  <2> QED
    BY <2>2, <2>3 DEF At
<1>4. ASSUME NEW t \in Threads, RepoClient(t) PROVE Announces(t) /\ ~At(t, "wait")'
  <2>1. PICK r \in Repos, p \in 1..MaxPartitions :
          \/ NotifyStateChange(t, r)
          \/ \E b \in Batches : AddDataBatch(t, b, r, p)
          \/ \E target \in Targets :
               BeginSearch(t, Search("pop_data_batch", r, p, target, NoBatch))
          \/ \E b \in Batches : PopByIdNow(t, r, p, b)
          \/ \E b \in Batches, target \in Targets,
                op \in {"pop_data_batch_by_id", "get_data_batch_by_id"} :
               BeginSearch(t, Search(op, r, p, target, b))
    BY <1>4 DEF RepoClient
  <2>2. ASSUME NEW op \in Op, NEW target \in Targets, NEW id \in Batches \cup {NoBatch},
               BeginSearch(t, Search(op, r, p, target, id))
        PROVE  Announces(t) /\ ~At(t, "wait")'
    <3>1. PICK c : c = Search(op, r, p, target, id)
      OBVIOUS
    <3>2. c \in CallRec
      BY <3>1, SearchType
    <3> QED
      BY <1>3, <2>2, <3>1, <3>2
  <2>3. {"pop_data_batch", "pop_data_batch_by_id", "get_data_batch_by_id"} \subseteq Op
        /\ NoBatch \in Batches \cup {NoBatch}
    BY DEF Op
  <2>4. CASE NotifyStateChange(t, r)
    BY <2>4, NotifyStateChangeKeeps DEF NotifyStateChange, Free, At, repoVars
  <2>5. CASE \E b \in Batches : AddDataBatch(t, b, r, p)
    BY <2>5, AddKeeps DEF AddDataBatch, Free, At
  <2>6. CASE \E b \in Batches : PopByIdNow(t, r, p, b)
    BY <2>6, PopNowKeeps DEF PopByIdNow, Free, At
  <2> QED
    BY <2>1, <2>2, <2>3, <2>4, <2>5, <2>6
<1>5. ASSUME NEW t \in Threads, ScanMiss(t) PROVE Announces(t) /\ ~At(t, "wait")'
  <2>1. UNCHANGED batchVars /\ UNCHANGED parts /\ call'[t].at \in {"block", "scan"}
        /\ \A u \in Threads : u # t => call'[u] = call[u]
    BY <1>0, <1>5 DEF ScanMiss, CallRec
  <2> QED
    BY <2>1 DEF Announces, Frame, batchVars, At
<1>6. ASSUME NEW t \in Threads, Rescan(t) PROVE Announces(t) /\ ~At(t, "wait")'
  <2>1. PICK c, d : c = call[t] /\ d = [c EXCEPT !.at = "scan", !.i = First(c), !.seen = {}, !.late = {}]
    OBVIOUS
  <2>2. d.at = "scan" /\ NoCall.at = "ready"
    BY <1>0, <2>1 DEF CallRec, NoCall
  <2>3. /\ UNCHANGED batchVars /\ UNCHANGED parts
        /\ call' = [call EXCEPT ![t] = d] \/ call' = [call EXCEPT ![t] = NoCall]
    BY <1>6, <2>1 DEF Rescan
  <2> QED
    BY <1>1, <2>2, <2>3 DEF At
<1>7. ASSUME NEW t \in Threads, Return(t) PROVE Announces(t) /\ ~At(t, "wait")'
  <2>1. NoCall.at = "ready"
    BY DEF NoCall
  <2> QED
    BY <1>1, <1>7, <2>1 DEF Return, At
<1>8. ASSUME NEW t \in Threads, SpuriousWakeup(t) PROVE Announces(t) /\ ~At(t, "wait")'
  <2>1. UNCHANGED batchVars /\ UNCHANGED parts /\ call'[t].at = "woken"
        /\ \A u \in Threads : u # t => call'[u] = call[u]
    BY <1>0, <1>8 DEF SpuriousWakeup, CallRec
  <2> QED
    BY <2>1 DEF Announces, Frame, batchVars, At
<1>9. ASSUME NEW t \in Threads, Wait(t) PROVE Announces(t)
  <2>1. UNCHANGED batchVars /\ UNCHANGED parts /\ \A u \in Threads : u # t => call'[u] = call[u]
    BY <1>0, <1>9 DEF Wait
  <2> QED
    BY <2>1 DEF Announces, Frame, batchVars
<1> QED
  BY <1>2, <1>4, <1>5, <1>6, <1>7, <1>8, <1>9, HitKeeps DEF RepoNext, Progress

\* The batches a call wants are those of its partition, or the one it names.
LEMMA WantedMember ==
  ASSUME NEW c, NEW b
  PROVE  b \in Wanted(c) <=>
           b \in Range(parts[c.repo][c.part]) /\ (c.op = "pop_data_batch" \/ batchId[b] = c.id)
  BY DEF Wanted, Candidates, Range, Partition

\* When the state tells whether tasks are pending, a batch does not become ready
\* without a change of its state.
LEMMA ReadyByState ==
  ASSUME StateMatchesCounts, NEW b \in Batches, NEW target, state'[b] = state[b],
         Eligible(b, target)'
  PROVE  Eligible(b, target)
  BY DEF StateMatchesCounts, Eligible, CanCreateTask, CanLockForInTransit

\* What the sleepers know survives a step of another thread that is announced.
LEMMA HearsStep ==
  ASSUME RepoInv, RepoShape', StateMatchesCounts, StoredHaveCv', SleeperHears,
         NEW t \in Threads, Announces(t), NEW u \in Threads, u # t, At(u, "wait")',
         NEW b \in Wanted(call[u])', b \notin call'[u].late,
         Eligible(b, call[u].target)', cv'[b] \in {call'[u].repo, NoCv}
  PROVE  \E x \in Threads : notifying'[x] = call'[u].repo
<1> DEFINE c == call[u]
<1>0. call'[u] = c /\ c \in CallRec /\ c.at = "wait" /\ At(u, "wait")
  BY DEF Announces, Frame, At, RepoInv, RepoShape
<1>1. c.repo \in Repos /\ c.part \in DOMAIN parts[c.repo]
  BY <1>0 DEF RepoInv, ThreadOK
<1>2. /\ b \in Range(parts'[c.repo][c.part]) /\ batchId' = batchId
      /\ c.op = "pop_data_batch" \/ batchId[b] = c.id
  BY <1>0 DEF Wanted, Candidates, Range, Partition, Announces
<1>3. c.part \in DOMAIN parts'[c.repo]
  BY <1>1 DEF Announces, Frame
<1>4. b \in StoredIn(parts'[c.repo]) /\ b \in Batches
  <2>1. b \in StoredIn(parts'[c.repo])
    BY <1>2, <1>3 DEF StoredIn
  <2>2. parts'[c.repo][c.part] \in Seq(Batches)
    BY <1>1, <1>3 DEF RepoShape, Partitions
  <2>3. b \in Batches
    BY <1>2, <2>2 DEF Range
  <2> QED
    BY <2>1, <2>3
<1>5. cv'[b] = c.repo
  BY <1>0, <1>1, <1>4 DEF StoredHaveCv
<1>6. CASE cv'[b] # cv[b] \/ state'[b] # state[b]
  BY <1>0, <1>4, <1>5, <1>6 DEF Announces
<1>7. CASE ~(Range(parts'[c.repo][c.part]) \subseteq Range(parts[c.repo][c.part]))
  BY <1>0, <1>1, <1>7, SMTT(30) DEF Announces, Frame
<1>8. CASE /\ cv'[b] = cv[b] /\ state'[b] = state[b]
           /\ Range(parts'[c.repo][c.part]) \subseteq Range(parts[c.repo][c.part])
  <2>1. b \in Wanted(c) \ c.late
    BY <1>0, <1>2, <1>8, WantedMember
  <2>2. Eligible(b, c.target)
    BY <1>0, <1>4, <1>8, ReadyByState
  <2>3. PICK x \in Threads : notifying[x] = c.repo
    BY <1>0, <1>5, <1>8, <2>1, <2>2 DEF SleeperHears
  <2> QED
    BY <1>0, <1>1, <2>3, DataBatchAssumption DEF Announces, Frame
<1> QED
  BY <1>6, <1>7, <1>8

\* A step of the repositories keeps what the states say about the counters, the
\* condition variables of what is stored, and what the sleepers know.
LEMMA HearingStep ==
  ASSUME Discipline = "pending", RepoInv, RepoInv', [RepoNext]_vars,
         StateMatchesCounts, StoredHaveCv, SleeperHears
  PROVE  StateMatchesCounts' /\ StoredHaveCv' /\ SleeperHears'
<1>1. CASE UNCHANGED vars
  <2>1. UNCHANGED <<state, taskCreated, processing, cv, parts, call, notifying, batchId>>
    BY <1>1 DEF vars, batchVars, repoVars
  <2>2. StateMatchesCounts' /\ StoredHaveCv'
    BY <2>1 DEF StateMatchesCounts, StoredHaveCv
  <2>3. SleeperHears'
    BY <2>1, SMTT(30) DEF SleeperHears, At, Wanted, Candidates, Partition, Eligible, CanCreateTask,
       CanLockForInTransit
  <2> QED
    BY <2>2, <2>3
<1>2. ASSUME RepoNext PROVE StateMatchesCounts'
  <2>1. ASSUME NEW t \in Threads, BatchOp(t) PROVE StateMatchesCounts'
    <3>1. Next
      BY <2>1 DEF BatchOp, Next, ClientStep
    <3> QED
      BY <3>1, CountsStep DEF RepoInv
  <2>2. ASSUME UNCHANGED <<state, taskCreated, processing>> PROVE StateMatchesCounts'
    BY <2>2 DEF StateMatchesCounts
  <2>3. ASSUME NEW t \in Threads, ScanHit(t) PROVE BatchOp(t)
    <3>1. PICK c : c = call[t]
      OBVIOUS
    <3>2. c.at = "scan" /\ TryTransitionBatchForPop(t, Partition(c)[c.i], c.target)
      BY <2>3, <3>1 DEF ScanHit, At
    <3>3. /\ c.repo \in Repos /\ c.part \in DOMAIN parts[c.repo] /\ c.i \in DOMAIN Partition(c)
          /\ parts \in [Repos -> Partitions]
      BY <3>1, <3>2 DEF RepoInv, RepoShape, ThreadOK
    <3>4. Partition(c)[c.i] \in Batches
      BY <3>3 DEF Partition, Partitions
    <3> QED
      BY <3>2, <3>4, TransitionIsOp DEF RepoInv
  <2>4. ASSUME NEW t \in Threads, BatchClient(t) PROVE BatchOp(t)
    BY <2>4 DEF BatchClient, BatchOp
  <2>5. ASSUME NEW t \in Threads, RepoClient(t) PROVE UNCHANGED <<state, taskCreated, processing>>
    <3>1. \A c : BeginSearch(t, c) => UNCHANGED <<state, taskCreated, processing>>
      BY DEF BeginSearch, batchVars
    <3>2. \A r, p, b : PopByIdNow(t, r, p, b) => UNCHANGED <<state, taskCreated, processing>>
      BY DEF PopByIdNow, batchVars
    <3>3. \A r, p, b : AddDataBatch(t, b, r, p) => UNCHANGED <<state, taskCreated, processing>>
      BY DEF AddDataBatch
    <3>4. \A r : NotifyStateChange(t, r) => UNCHANGED <<state, taskCreated, processing>>
      BY DEF NotifyStateChange
    <3> QED
      BY <2>5, <3>1, <3>2, <3>3, <3>4, Zenon DEF RepoClient
  <2>6. ASSUME NEW t \in Threads,
               ScanMiss(t) \/ Wait(t) \/ Rescan(t) \/ Return(t) \/ Notify(t) \/ SpuriousWakeup(t)
        PROVE  UNCHANGED <<state, taskCreated, processing>>
    BY <2>6 DEF ScanMiss, Wait, Rescan, Return, Notify, NotifyAll, SpuriousWakeup, batchVars
  <2> QED
    BY <1>2, <2>1, <2>2, <2>3, <2>4, <2>5, <2>6 DEF RepoNext, Progress
<1>3. ASSUME NEW t \in Threads, Announces(t) PROVE StoredHaveCv'
  <2> SUFFICES ASSUME NEW r \in Repos, NEW b \in StoredIn(parts'[r]) PROVE cv'[b] # NoCv
    BY DEF StoredHaveCv
  <2>1. parts'[r] \in Partitions
    BY DEF RepoInv, RepoShape
  <2>2. PICK k \in DOMAIN parts'[r] : \E i \in DOMAIN parts'[r][k] : parts'[r][k][i] = b
    BY DEF StoredIn, Range
  <2>3. b \in Batches
    BY <2>1, <2>2 DEF Partitions
  <2> QED
    BY <1>3, <2>3, DataBatchAssumption DEF Announces, StoredHaveCv
<1>4. ASSUME NEW t \in Threads, Announces(t), ~At(t, "wait")' PROVE StoredHaveCv' /\ SleeperHears'
  <2>1. StoredHaveCv' /\ RepoShape'
    BY <1>3, <1>4 DEF RepoInv
  <2> SUFFICES ASSUME NEW u \in Threads, At(u, "wait")', NEW b \in Wanted(call[u])',
                      b \notin call'[u].late, Eligible(b, call[u].target)',
                      cv'[b] \in {call'[u].repo, NoCv}
               PROVE  \E x \in Threads : notifying'[x] = call'[u].repo
    BY <2>1 DEF SleeperHears
  <2>2. u # t
    BY <1>4
  <2> QED
    BY <1>4, <2>1, <2>2, HearsStep
<1>5. ASSUME NEW t \in Threads, Announces(t), Wait(t) PROVE StoredHaveCv' /\ SleeperHears'
  <2>1. StoredHaveCv' /\ RepoShape'
    BY <1>3, <1>5 DEF RepoInv
  <2> SUFFICES ASSUME NEW u \in Threads, At(u, "wait")', NEW b \in Wanted(call[u])',
                      b \notin call'[u].late, Eligible(b, call[u].target)',
                      cv'[b] \in {call'[u].repo, NoCv}
               PROVE  \E x \in Threads : notifying'[x] = call'[u].repo
    BY <2>1 DEF SleeperHears
  <2>2. CASE u # t
    BY <1>5, <2>1, <2>2, HearsStep
  <2>3. CASE u = t
    <3>0. PICK c : c = call[t]
      OBVIOUS
    <3>1. c \in CallRec /\ call \in [Threads -> CallRec]
      BY <3>0 DEF RepoInv, RepoShape
    <3>2. PICK late : late = {a \in Wanted(c) : Eligible(a, c.target)}
      OBVIOUS
    <3>3. call' = [call EXCEPT ![t].at = "wait", ![t].late = late]
      BY <1>5, <3>0, <3>2 DEF Wait
    <3>4. /\ call'[t].late = late /\ call'[t].repo = c.repo /\ call'[t].part = c.part
          /\ call'[t].op = c.op /\ call'[t].id = c.id /\ call'[t].target = c.target
      BY <3>0, <3>1, <3>3 DEF CallRec
    <3>5. UNCHANGED <<parts, batchId, state, taskCreated, processing>>
      BY <1>5 DEF Wait, batchVars
    <3>6. b \in Wanted(c)
      BY <2>3, <3>4, <3>5 DEF Wanted, Candidates, Partition
    <3>7. Eligible(b, c.target)
      BY <2>3, <3>4, <3>5 DEF Eligible, CanCreateTask, CanLockForInTransit
    <3> QED
      BY <2>3, <3>2, <3>4, <3>6, <3>7
  <2> QED
    BY <2>2, <2>3
<1>6. ASSUME NEW t \in Threads, Notify(t) PROVE StoredHaveCv' /\ SleeperHears'
  <2>1. /\ UNCHANGED <<parts, batchId, state, taskCreated, processing, cv>>
        /\ notifying' = [notifying EXCEPT ![t] = NoCv]
    BY <1>6 DEF Notify, NotifyAll
  <2>2. StoredHaveCv'
    BY <2>1 DEF StoredHaveCv
  <2> SUFFICES ASSUME NEW u \in Threads, At(u, "wait")', NEW b \in Wanted(call[u])',
                      b \notin call'[u].late, Eligible(b, call[u].target)',
                      cv'[b] \in {call'[u].repo, NoCv}
               PROVE  \E x \in Threads : notifying'[x] = call'[u].repo
    BY <2>2 DEF SleeperHears
  <2>3. call'[u] = IF At(u, "wait") /\ call[u].repo = notifying[t]
                   THEN [call[u] EXCEPT !.at = "woken"] ELSE call[u]
    BY <1>6 DEF Notify
  <2>4. call[u] \in CallRec /\ notifying \in [Threads -> Repos \cup {NoCv}]
    BY DEF RepoInv, RepoShape, BatchCore, TypeOK
  <2>5. call'[u] = call[u] /\ At(u, "wait") /\ call[u].repo # notifying[t]
    <3>1. CASE At(u, "wait") /\ call[u].repo = notifying[t]
      <4>1. call'[u].at = "woken"
        BY <2>3, <2>4, <3>1 DEF CallRec
      <4> QED
        BY <4>1 DEF At
    <3>2. CASE ~(At(u, "wait") /\ call[u].repo = notifying[t])
      BY <2>3, <3>2 DEF At
    <3> QED
      BY <3>1, <3>2
  <2>6. b \in Wanted(call[u]) /\ Eligible(b, call[u].target)
    BY <2>1, <2>5, SMTT(30) DEF Wanted, Candidates, Partition, Eligible, CanCreateTask, CanLockForInTransit
  <2>7. PICK x \in Threads : notifying[x] = call[u].repo
    BY <2>1, <2>5, <2>6 DEF SleeperHears
  <2>8. notifying'[x] = call[u].repo
    BY <2>1, <2>4, <2>5, <2>7
  <2> QED
    BY <2>5, <2>8
<1> QED
  BY <1>1, <1>2, <1>4, <1>5, <1>6, StepAnnounces

\* What every thread knows at each point of its call is so in every reachable
\* state, whatever the other threads do to the batches between two examinations
\* of a scan.
THEOREM RepoInvariant == RepoSpec => []RepoInv
  BY RepoInitially, RepoStep, PTL DEF RepoSpec

\* The variables keep their types, and the thread in the middle of a scan, about
\* to wait or about to return is the one that holds the repository's mutex.
THEOREM RepoTypeCorrect == RepoSpec => []RepoTypeOK
<1>1. RepoInv => RepoTypeOK
  <2> SUFFICES ASSUME RepoInv PROVE RepoTypeOK
    OBVIOUS
  <2>1. \A t \in Threads : call[t].at \in {"ready", "scan", "block", "wait", "woken", "return"}
    BY DEF RepoInv, RepoShape, CallRec
  <2> QED
    BY <2>1 DEF RepoInv, BatchCore, RepoShape, Partitions, MutexHeld, RepoTypeOK
<1> QED
  BY <1>1, RepoInvariant, PTL

\* No batch is stored twice, and a batch that a pop is about to return is stored
\* no more: no two pops of a repository return the same batch.
THEOREM PopsAreDisjoint == RepoSpec => []PopsDisjoint
<1>1. RepoInv => PopsDisjoint
  <2> SUFFICES ASSUME RepoInv, NEW r \in Repos
               PROVE  /\ Unique(parts[r])
                      /\ \A t \in Threads :
                           At(t, "return") /\ call[t].repo = r /\ call[t].op # "get_data_batch_by_id" =>
                             call[t].got \notin Stored(r)
    BY DEF PopsDisjoint, Unique
  <2>1. Stored(r) = StoredIn(parts[r])
    BY DEF Stored, StoredIn
  <2> QED
    BY <2>1 DEF RepoInv, RepoShape, ThreadOK, At
<1> QED
  BY <1>1, RepoInvariant, PTL

\* A pop or a get for in_transit makes its caller the only holder of the
\* in-transit lock, also when the batch is stored in several repositories.
THEOREM TransitPopsAreExclusive == RepoSpec => []TransitPopIsExclusive
<1>1. RepoInv => TransitPopIsExclusive
  BY DEF RepoInv, ThreadOK, TransitPopIsExclusive, At
<1> QED
  BY <1>1, RepoInvariant, PTL

\* A pop that sleeps has examined every batch of its partition, unless a
\* notification of its condition variable is on the way.
THEOREM AddsAreNeverMissed == RepoSpec => []AddNeverMissed
<1>1. RepoInv => AddNeverMissed
  BY DEF RepoInv, ThreadOK, AddNeverMissed, At
<1> QED
  BY <1>1, RepoInvariant, PTL

\* With clients that release a batch from in_transit to task_created exactly when
\* a task is pending, a sleeping call is told of every batch of its partition that
\* gets ready after it went to sleep, unless a later add redirected the batch.
THEOREM SleepersHear ==
  ASSUME Discipline = "pending"
  PROVE  RepoSpec => []SleeperHears
<1> DEFINE Hearing == StateMatchesCounts /\ StoredHaveCv /\ SleeperHears
<1>1. RepoInit => Hearing
  <2> SUFFICES ASSUME RepoInit PROVE Hearing
    OBVIOUS
  <2>1. StateMatchesCounts
    BY DEF RepoInit, StateMatchesCounts
  <2>2. StoredHaveCv
    <3>1. StoredIn(<< <<>> >>) = {}
      BY DEF StoredIn, Range
    <3> QED
      BY <3>1 DEF RepoInit, StoredHaveCv
  <2>3. SleeperHears
    <3>1. NoCall.at = "ready"
      BY DEF NoCall
    <3> QED
      BY <3>1 DEF RepoInit, SleeperHears, At
  <2> QED
    BY <2>1, <2>2, <2>3
<1>2. Hearing /\ RepoInv /\ RepoInv' /\ [RepoNext]_vars => Hearing'
  BY HearingStep
<1>3. Hearing => SleeperHears
  OBVIOUS
<1> HIDE DEF Hearing
<1> QED
  BY <1>1, <1>2, <1>3, RepoInvariant, PTL DEF RepoSpec

-----------------------------------------------------------------------------
(* The manager.                                                            *)

\* The repositories that are registered and those an add still has to do exist,
\* and so does the batch of an add that holds the manager's mutex.
FanOK ==
  /\ registered \subseteq Repos
  /\ fan \in [Threads -> [batch : Batches \cup {NoBatch}, ops : Seq(Repos)]]
  /\ \A t \in Threads : fan[t].ops # <<>> => fan[t].batch \in Batches

\* A list of keys is a sequence of repositories.
LEMMA OpListType ==
  ASSUME FanOK, NEW b, NEW ops \in OpLists(b)
  PROVE  ops \in Seq(Repos)
<1>1. PICK n \in 0..Cardinality(Repos) : ops \in [1..n -> {r \in registered : b \notin Stored(r)}]
  BY DEF OpLists
<1>2. ops \in [1..n -> Repos] /\ n \in Nat
  BY <1>1 DEF FanOK
<1> QED
  BY <1>2, SeqDef

\* No call of the manager makes the list of another one.
LEMMA FanStep == FanOK /\ [ManagerNext]_allVars => FanOK'
<1> SUFFICES ASSUME FanOK, [ManagerNext]_allVars PROVE FanOK'
  OBVIOUS
<1>1. CASE UNCHANGED managerVars
  BY <1>1 DEF FanOK, managerVars
<1>2. CASE UNCHANGED allVars
  BY <1>1, <1>2 DEF allVars
<1>3. ASSUME NEW t \in Threads, NEW r \in Repos, AddNewRepository(t, r) PROVE FanOK'
  BY <1>3 DEF AddNewRepository, FanOK
<1>4. ASSUME NEW t \in Threads, NEW b \in Batches, NEW ops \in OpLists(b),
             ManagerAddDataBatch(t, b, ops)
      PROVE  FanOK'
  <2>1. ops \in Seq(Repos)
    BY OpListType
  <2> QED
    BY <1>4, <2>1 DEF ManagerAddDataBatch, FanOK
<1>5. ASSUME NEW t \in Threads, AddToNext(t) PROVE FanOK'
  <2>1. PICK f : f = fan[t]
    OBVIOUS
  <2>2. f.batch \in Batches /\ f.ops \in Seq(Repos) /\ f.ops # <<>>
    BY <1>5, <2>1 DEF AddToNext, FanOK
  <2>3. Tail(f.ops) \in Seq(Repos)
    BY <2>2
  <2>4. fan' = [fan EXCEPT ![t].ops = Tail(f.ops)]
    BY <1>5, <2>1 DEF AddToNext, FanOK
  <2>5. fan' \in [Threads -> [batch : Batches \cup {NoBatch}, ops : Seq(Repos)]]
    BY <2>3, <2>4 DEF FanOK
  <2>6. ASSUME NEW u \in Threads, fan'[u].ops # <<>> PROVE fan'[u].batch \in Batches
    <3>1. CASE u = t
      BY <3>1, <2>1, <2>2, <2>4 DEF FanOK
    <3>2. CASE u # t
      BY <3>2, <2>4, <2>6 DEF FanOK
    <3> QED
      BY <3>1, <3>2
  <2>7. registered' = registered
    BY <1>5 DEF AddToNext
  <2> QED
    BY <2>5, <2>6, <2>7 DEF FanOK
<1>6. ASSUME NEW t \in Threads, AddReturns(t) PROVE FanOK'
  BY <1>6 DEF AddReturns, FanOK, NoFan
<1> QED
  BY <1>1, <1>2, <1>3, <1>4, <1>5, <1>6
     DEF ManagerNext, UseRepository, UseBatch, Advance, Spurious

\* To the repositories every step of the manager is a call of a client, a step
\* of a call under way, or nothing.
LEMMA ManagerStep == FanOK /\ [ManagerNext]_allVars => [RepoNext]_vars
<1> SUFFICES ASSUME FanOK, [ManagerNext]_allVars PROVE [RepoNext]_vars
  OBVIOUS
<1>0. 1 \in 1..MaxPartitions
  BY RepositoryAssumption
<1>1. ASSUME NEW t \in Threads, AddToNext(t) PROVE RepoNext
  <2>1. PICK f : f = fan[t]
    OBVIOUS
  <2>2. f.batch \in Batches /\ f.ops \in Seq(Repos) /\ f.ops # <<>>
    BY <1>1, <2>1 DEF AddToNext, FanOK
  <2>3. PICK r \in Repos : r = Head(f.ops)
    BY <2>2
  <2>4. AddDataBatch(t, f.batch, r, 1)
    BY <1>1, <2>1, <2>3 DEF AddToNext
  <2>5. RepoClient(t)
    BY <1>0, <2>2, <2>4 DEF RepoClient
  <2> QED
    BY <2>5 DEF RepoNext
<1>2. ASSUME NEW t \in Threads, UseRepository(t) PROVE RepoNext
  <2>1. PICK r \in registered, b \in Batches :
          \/ NotifyStateChange(t, r)
          \/ PopByIdNow(t, r, 1, b)
          \/ \E target \in Targets :
               \/ BeginSearch(t, Search("pop_data_batch", r, 1, target, NoBatch))
               \/ BeginSearch(t, Search("pop_data_batch_by_id", r, 1, target, b))
               \/ BeginSearch(t, Search("get_data_batch_by_id", r, 1, target, b))
    BY <1>2 DEF UseRepository
  <2>2. r \in Repos
    BY DEF FanOK
  <2>3. RepoClient(t)
    BY <1>0, <2>1, <2>2 DEF RepoClient
  <2> QED
    BY <2>3 DEF RepoNext
<1>3. ASSUME NEW t \in Threads,
             UseBatch(t) \/ Advance(t) \/ Spurious(t)
      PROVE  RepoNext
  BY <1>3 DEF UseBatch, Advance, Spurious, RepoNext
<1>4. CASE UNCHANGED vars
  BY <1>4
<1>5. CASE UNCHANGED allVars
  BY <1>5 DEF allVars
<1> QED
  BY <1>1, <1>2, <1>3, <1>4, <1>5
     DEF ManagerNext, AddNewRepository, ManagerAddDataBatch, AddReturns

\* Behind a manager the repositories behave as the repositories do by
\* themselves: its mutex and its loop over the keys only restrict who calls
\* them when.
THEOREM ManagerImplementsRepositories == ManagerSpec => RepoSpec
<1>1. ManagerInit => RepoInit /\ FanOK
  <2> SUFFICES ASSUME ManagerInit PROVE RepoInit /\ FanOK
    OBVIOUS
  <2>1. <<>> \in Seq(Repos)
    OBVIOUS
  <2> QED
    BY <2>1 DEF ManagerInit, FanOK, NoFan
<1> QED
  BY <1>1, FanStep, ManagerStep, PTL DEF ManagerSpec, RepoSpec

\* A batch that the manager put into several repositories is locked by one of
\* their callers at a time.
THEOREM ManagedTransitIsExclusive == ManagerSpec => []TransitPopIsExclusive
  BY ManagerImplementsRepositories, TransitPopsAreExclusive, PTL

\* The same for calls that sleep while the manager adds a batch to one repository
\* after the other: only the redirection by a later add can leave them asleep.
THEOREM ManagedSleepersHear ==
  ASSUME Discipline = "pending"
  PROVE  ManagerSpec => []SleeperHears
  BY ManagerImplementsRepositories, SleepersHear, PTL

=============================================================================
