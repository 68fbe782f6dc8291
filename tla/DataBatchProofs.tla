-------------------------- MODULE DataBatchProofs --------------------------
(***************************************************************************)
(* Proofs about DataBatch for any batches, handles, threads, spaces and    *)
(* bounds: type correctness, the accounting of processing handles and what *)
(* follows from it.                                                        *)
(***************************************************************************)
EXTENDS DataBatchMoves, FiniteSetTheorems, TLAPS

-----------------------------------------------------------------------------
(* Counting the handles of a batch in a table f of handles.                *)

On(f, b) == {h \in Handles : f[h] = b}

\* 1 if c is the batch b, and 0 otherwise.
One(c, b) == IF c = b THEN 1 ELSE 0

HandleTable == [Handles -> Batches \cup {NoBatch}]

\* The handles on a batch are finitely many.
LEMMA OnFinite ==
  ASSUME NEW f, NEW b
  PROVE  IsFiniteSet(On(f, b)) /\ Cardinality(On(f, b)) \in Nat
<1>1. On(f, b) \subseteq Handles
  BY DEF On
<1>2. IsFiniteSet(On(f, b))
  BY <1>1, FS_Subset, DataBatchAssumption
<1> QED
  BY <1>2, FS_CardinalityType

\* Filling an empty handle with a batch adds one to that batch's count only.
LEMMA OnAdd ==
  ASSUME NEW f \in HandleTable, NEW h \in Handles, NEW b \in Batches,
         f[h] = NoBatch, NEW c \in Batches
  PROVE  Cardinality(On([f EXCEPT ![h] = b], c))
           = Cardinality(On(f, c)) + One(c, b)
<1> DEFINE g == [f EXCEPT ![h] = b]
<1>1. CASE c = b
  <2>1. On(g, c) = On(f, c) \cup {h} /\ h \notin On(f, c)
    BY <1>1, DataBatchAssumption DEF On, HandleTable
  <2>2. Cardinality(On(f, c) \cup {h}) = Cardinality(On(f, c)) + 1
    BY <2>1, OnFinite, FS_AddElement
  <2> QED
    BY <1>1, <2>1, <2>2 DEF One
<1>2. CASE c # b
  <2>1. On(g, c) = On(f, c)
    BY <1>2, DataBatchAssumption DEF On, HandleTable
  <2> QED
    BY <1>2, <2>1, OnFinite DEF One
<1> QED
  BY <1>1, <1>2

\* Emptying a handle takes one from the count of the batch it held.
LEMMA OnRemove ==
  ASSUME NEW f \in HandleTable, NEW h \in Handles, f[h] \in Batches,
         NEW c \in Batches
  PROVE  Cardinality(On(f, c))
           = Cardinality(On([f EXCEPT ![h] = NoBatch], c)) + One(c, f[h])
<1> DEFINE g == [f EXCEPT ![h] = NoBatch]
<1>1. g \in HandleTable /\ g[h] = NoBatch
  BY DEF HandleTable
<1>2. f = [g EXCEPT ![h] = f[h]]
  BY DEF HandleTable
<1>3. Cardinality(On([g EXCEPT ![h] = f[h]], c))
        = Cardinality(On(g, c)) + One(c, f[h])
  <2> HIDE DEF g
  <2> QED BY <1>1, OnAdd
<1> QED
  BY <1>2, <1>3

MovedHandle(f, to, from) == [f EXCEPT ![to] = f[from], ![from] = NoBatch]

\* Moving a handle into an empty one leaves every count alone.
LEMMA OnMove ==
  ASSUME NEW f \in HandleTable, NEW to \in Handles, NEW from \in Handles,
         to # from, f[to] = NoBatch, NEW c \in Batches
  PROVE  Cardinality(On(MovedHandle(f, to, from), c)) = Cardinality(On(f, c))
<1> DEFINE r == [f EXCEPT ![from] = NoBatch]
           g == MovedHandle(f, to, from)
<1>1. CASE f[from] = NoBatch
  <2>1. g = f
    BY <1>1 DEF HandleTable, MovedHandle
  <2> QED
    BY <2>1
<1>2. CASE f[from] # NoBatch
  <2>1. f[from] \in Batches
    BY <1>2 DEF HandleTable
  <2>2. r \in HandleTable /\ r[to] = NoBatch
    BY DEF HandleTable
  <2>3. g = [r EXCEPT ![to] = f[from]]
    BY DEF HandleTable, MovedHandle
  <2>4. Cardinality(On(f, c)) = Cardinality(On(r, c)) + One(c, f[from])
    BY <2>1, OnRemove
  <2>5. Cardinality(On([r EXCEPT ![to] = f[from]], c))
          = Cardinality(On(r, c)) + One(c, f[from])
    <3> HIDE DEF r
    <3> QED BY <2>1, <2>2, OnAdd
  <2> QED
    BY <2>3, <2>4, <2>5
<1> QED
  BY <1>1, <1>2

\* Moving a handle over one that holds a batch releases that batch.
LEMMA OnMoveOver ==
  ASSUME NEW f \in HandleTable, NEW to \in Handles, NEW from \in Handles,
         to # from, f[to] \in Batches, NEW c \in Batches,
         NEW g, g = MovedHandle(f, to, from)
  PROVE  Cardinality(On(f, c)) = Cardinality(On(g, c)) + One(c, f[to])
<1> DEFINE r == [f EXCEPT ![to] = NoBatch]
<1>1. Cardinality(On(f, c)) = Cardinality(On(r, c)) + One(c, f[to])
  BY OnRemove
<1>2. r \in HandleTable /\ r[to] = NoBatch /\ r[from] = f[from]
  BY DEF HandleTable
<1>3. g = MovedHandle(r, to, from)
  BY DEF HandleTable, MovedHandle
<1>4. Cardinality(On(g, c)) = Cardinality(On(r, c))
  <2> HIDE DEF r
  <2> QED BY <1>2, <1>3, OnMove
<1> QED
  BY <1>1, <1>4

-----------------------------------------------------------------------------
(* Type correctness.                                                       *)

\* The effect of changing the state of a batch has the right types.
LEMMA MoveToType ==
  ASSUME TypeOK, NEW t \in Threads, NEW b \in Batches, NEW s \in BatchState,
         MoveTo(t, b, s)
  PROVE  /\ state' \in [Batches -> BatchState]
         /\ notifying' \in [Threads -> Repos \cup {NoCv}]
BY DEF MoveTo, TypeOK

\* decrement_processing_count keeps the types: it never goes below zero.
LEMMA DecrementType ==
  ASSUME TypeOK, NEW t \in Threads, NEW b \in Batches,
         DecrementProcessingCount(t, b)
  PROVE  /\ processing' \in [Batches -> Nat]
         /\ state' \in [Batches -> BatchState]
         /\ notifying' \in [Threads -> Repos \cup {NoCv}]
<1>1. processing' \in [Batches -> Nat]
  BY DEF DecrementProcessingCount, TypeOK
<1>2. StateAfterProcessing(b) \in BatchState
  BY DEF StateAfterProcessing, BatchState
<1>3. CASE MoveTo(t, b, StateAfterProcessing(b))
  BY <1>1, <1>2, <1>3, MoveToType
<1>4. CASE UNCHANGED <<state, notifying>>
  BY <1>1, <1>4 DEF TypeOK
<1> QED
  BY <1>3, <1>4 DEF DecrementProcessingCount

\* Every step keeps every variable in its type; no counter goes below zero.
LEMMA TypeStep == TypeOK /\ [Next]_batchVars => TypeOK'
<1> SUFFICES ASSUME TypeOK, [Next]_batchVars PROVE TypeOK'
  OBVIOUS
<1> USE DataBatchAssumption
<1>1. ASSUME NEW t \in Threads, NEW b \in Batches, NEW d \in Spaces \cup {NoData},
             Construct(t, b, d) \/ SetData(t, b, d)
      PROVE  TypeOK'
  BY <1>1 DEF Construct, SetData, TypeOK
<1>2. ASSUME NEW t \in Threads, NEW b \in Batches, NEW s \in Spaces, ConvertTo(t, b, s)
      PROVE  TypeOK'
  BY <1>2 DEF ConvertTo, TypeOK
<1>3. ASSUME NEW t \in Threads, NEW b \in Batches, TryToCreateTask(t, b)
      PROVE  TypeOK'
  <2>1. "task_created" \in BatchState
    BY DEF BatchState
  <2>2. state' \in [Batches -> BatchState] /\ notifying' \in [Threads -> Repos \cup {NoCv}]
    BY <1>3, <2>1, MoveToType DEF TryToCreateTask, TypeOK
  <2>3. taskCreated' \in [Batches -> Nat]
    BY <1>3 DEF TryToCreateTask, TypeOK
  <2> QED
    BY <1>3, <2>2, <2>3 DEF TryToCreateTask, TypeOK
<1>4. ASSUME NEW t \in Threads, NEW b \in Batches, TryToCancelTask(t, b)
      PROVE  TypeOK'
  <2>1. "idle" \in BatchState
    BY DEF BatchState
  <2>2. state' \in [Batches -> BatchState] /\ notifying' \in [Threads -> Repos \cup {NoCv}]
    BY <1>4, <2>1, MoveToType DEF TryToCancelTask, TypeOK
  <2>3. taskCreated[b] - 1 \in Nat
    BY <1>4 DEF TryToCancelTask, CanCancelTask, TypeOK
  <2>4. taskCreated' \in [Batches -> Nat]
    BY <1>4, <2>3 DEF TryToCancelTask, TypeOK
  <2> QED
    BY <1>4, <2>2, <2>4 DEF TryToCancelTask, TypeOK
<1>5. ASSUME NEW t \in Threads, NEW b \in Batches, NEW s \in Spaces, NEW h \in Handles,
             TryToLockForProcessing(t, b, s, h)
      PROVE  TypeOK'
  <2>1. "processing" \in BatchState
    BY DEF BatchState
  <2>2. state' \in [Batches -> BatchState] /\ notifying' \in [Threads -> Repos \cup {NoCv}]
    BY <1>5, <2>1, MoveToType DEF TryToLockForProcessing
  <2>3. taskCreated[b] - 1 \in Nat /\ processing[b] + 1 \in Nat
    BY <1>5 DEF TryToLockForProcessing, CanLockForProcessing, TypeOK
  <2>4. taskCreated' \in [Batches -> Nat] /\ processing' \in [Batches -> Nat]
    BY <1>5, <2>3 DEF TryToLockForProcessing, TypeOK
  <2> QED
    BY <1>5, <2>2, <2>4 DEF TryToLockForProcessing, TypeOK
<1>6. ASSUME NEW t \in Threads, NEW b \in Batches, TryToLockForInTransit(t, b)
      PROVE  TypeOK'
  <2>1. "in_transit" \in BatchState
    BY DEF BatchState
  <2>2. state' \in [Batches -> BatchState] /\ notifying' \in [Threads -> Repos \cup {NoCv}]
    BY <1>6, <2>1, MoveToType DEF TryToLockForInTransit
  <2> QED
    BY <1>6, <2>2 DEF TryToLockForInTransit, TypeOK
<1>7. ASSUME NEW t \in Threads, NEW b \in Batches, NEW s \in BatchState,
             TryToReleaseInTransit(t, b, s)
      PROVE  TypeOK'
  <2>1. state' \in [Batches -> BatchState] /\ notifying' \in [Threads -> Repos \cup {NoCv}]
    BY <1>7, MoveToType DEF TryToReleaseInTransit
  <2> QED
    BY <1>7, <2>1 DEF TryToReleaseInTransit, TypeOK
<1>8. ASSUME NEW t \in Threads, NEW h \in Handles, HandleRelease(t, h)
      PROVE  TypeOK'
  <2>1. handle[h] \in Batches
    BY <1>8 DEF HandleRelease, TypeOK
  <2>2. /\ processing' \in [Batches -> Nat]
        /\ state' \in [Batches -> BatchState]
        /\ notifying' \in [Threads -> Repos \cup {NoCv}]
    BY <1>8, <2>1, DecrementType DEF HandleRelease
  <2> QED
    BY <1>8, <2>2 DEF HandleRelease, TypeOK
<1>9. ASSUME NEW t \in Threads, NEW to \in Handles, NEW from \in Handles,
             HandleMoveInto(t, to, from)
      PROVE  TypeOK'
  BY <1>9 DEF HandleMoveInto, TypeOK
<1>10. ASSUME NEW t \in Threads, NEW to \in Handles, NEW from \in Handles,
              HandleMoveOver(t, to, from)
       PROVE  TypeOK'
  <2>1. handle[to] \in Batches
    BY <1>10 DEF HandleMoveOver, TypeOK
  <2>2. /\ processing' \in [Batches -> Nat]
        /\ state' \in [Batches -> BatchState]
        /\ notifying' \in [Threads -> Repos \cup {NoCv}]
    BY <1>10, <2>1, DecrementType DEF HandleMoveOver
  <2> QED
    BY <1>10, <2>2 DEF HandleMoveOver, TypeOK
<1>11. ASSUME NEW t \in Threads, NEW b \in Batches, NEW c \in Repos \cup {NoCv},
              SetStateChangeCv(t, b, c)
       PROVE  TypeOK'
  BY <1>11 DEF SetStateChangeCv, TypeOK
<1>12. ASSUME NEW t \in Threads, NotifyAll(t)
       PROVE  TypeOK'
  BY <1>12 DEF NotifyAll, TypeOK
<1>13. CASE UNCHANGED batchVars
  BY <1>13 DEF batchVars, TypeOK
<1> QED
  BY <1>1, <1>2, <1>3, <1>4, <1>5, <1>6, <1>7, <1>8, <1>9, <1>10, <1>11, <1>12, <1>13
     DEF Next, ClientStep

\* The initial state has the right types.
LEMMA TypeInit == Init => TypeOK
BY DataBatchAssumption DEF Init, TypeOK, BatchState

\* Every variable keeps its type; in particular the two size_t counters of a
\* batch are never decremented below zero, whatever the clients call.
THEOREM TypeCorrect == Spec => []TypeOK
<1>1. TypeOK /\ [Next]_batchVars => TypeOK'
  BY TypeStep
<1> QED
  BY TypeInit, <1>1, PTL DEF Spec

-----------------------------------------------------------------------------
(* The inductive invariant: the counts of handles, and what pins a batch.  *)

ActiveIsProcessing == \A b \in Batches : processing[b] > 0 => state[b] = "processing"

HandlesOnLive == \A h \in Handles : handle[h] # NoBatch => handle[h] \in live

TransitHeld ==
  \A b \in Batches :
    /\ \A t1, t2 \in movers[b] : t1 = t2
    /\ movers[b] # {} => state[b] = "in_transit"

BatchCore ==
  /\ TypeOK
  /\ HandlesCounted
  /\ ActiveIsProcessing
  /\ HandlesOnLive
  /\ TransitHeld

\* The data of every batch but those in M is where its handles were granted it.
PinnedBut(M) == \A h \in Handles : handle[h] \in Batches \ M => data[handle[h]] = grant[h]

BatchInv == BatchCore /\ DataPinned

\* A batch that a handle points at has a positive processing count.
LEMMA HeldIsActive ==
  ASSUME TypeOK, HandlesCounted, NEW h \in Handles, handle[h] # NoBatch
  PROVE  handle[h] \in Batches /\ processing[handle[h]] > 0
<1> DEFINE b == handle[h]
<1>1. b \in Batches
  BY DEF TypeOK
<1>2. h \in On(handle, b) /\ HandlesOn(b) = On(handle, b)
  BY DEF On, HandlesOn
<1>3. Cardinality(On(handle, b)) # 0
  BY <1>2, OnFinite, FS_EmptySet
<1> QED
  BY <1>1, <1>2, <1>3, OnFinite DEF HandlesCounted, TypeOK

\* HandlesCounted in terms of a table of handles.
LEMMA CountedOn ==
  HandlesCounted <=> \A b \in Batches : processing[b] = Cardinality(On(handle, b))
BY DEF HandlesCounted, HandlesOn, On

\* The same in the next state.
LEMMA CountedOnPrime ==
  HandlesCounted' <=> \A b \in Batches : processing'[b] = Cardinality(On(handle', b))
BY DEF HandlesCounted, HandlesOn, On

\* The processing count follows the handles through every grant, release and
\* move.
LEMMA CountStep == BatchCore /\ [Next]_batchVars => HandlesCounted'
<1> SUFFICES ASSUME BatchCore, [Next]_batchVars PROVE HandlesCounted'
  OBVIOUS
<1>a. handle \in HandleTable /\ processing \in [Batches -> Nat]
  BY DEF BatchCore, TypeOK, HandleTable
<1>b. \A c \in Batches : processing[c] = Cardinality(On(handle, c))
  BY CountedOn DEF BatchCore
<1>1. ASSUME NEW t \in Threads, NEW b \in Batches, NEW s \in Spaces, NEW h \in Handles,
             TryToLockForProcessing(t, b, s, h)
      PROVE  HandlesCounted'
  <2> SUFFICES ASSUME NEW c \in Batches
               PROVE  processing'[c] = Cardinality(On(handle', c))
    BY CountedOnPrime
  <2>1. handle[h] = NoBatch /\ handle' = [handle EXCEPT ![h] = b]
    BY <1>1 DEF TryToLockForProcessing
  <2>2. processing'[c] = processing[c] + One(c, b)
    BY <1>1, <1>a DEF TryToLockForProcessing, One
  <2>3. Cardinality(On(handle', c)) = Cardinality(On(handle, c)) + One(c, b)
    BY <2>1, <1>a, OnAdd
  <2> QED
    BY <2>2, <2>3, <1>b
<1>2. ASSUME NEW t \in Threads, NEW h \in Handles, HandleRelease(t, h)
      PROVE  HandlesCounted'
  <2> SUFFICES ASSUME NEW c \in Batches
               PROVE  processing'[c] = Cardinality(On(handle', c))
    BY CountedOnPrime
  <2>1. handle[h] \in Batches /\ handle' = [handle EXCEPT ![h] = NoBatch]
    BY <1>2, <1>a DEF HandleRelease, HandleTable
  <2>2. processing'[c] = processing[c] - One(c, handle[h])
    BY <1>2, <1>a, <2>1 DEF HandleRelease, DecrementProcessingCount, One
  <2>3. Cardinality(On(handle, c)) = Cardinality(On(handle', c)) + One(c, handle[h])
    BY <2>1, <1>a, OnRemove
  <2> QED
    BY <2>2, <2>3, <1>a, <1>b, OnFinite DEF One
<1>3. ASSUME NEW t \in Threads, NEW to \in Handles, NEW from \in Handles,
             HandleMoveInto(t, to, from)
      PROVE  HandlesCounted'
  <2> SUFFICES ASSUME NEW c \in Batches
               PROVE  processing'[c] = Cardinality(On(handle', c))
    BY CountedOnPrime
  <2>1. /\ to # from /\ handle[to] = NoBatch
        /\ handle' = [handle EXCEPT ![to] = handle[from], ![from] = NoBatch]
        /\ processing' = processing
    BY <1>3 DEF HandleMoveInto
  <2>2. handle' = MovedHandle(handle, to, from)
    BY <2>1 DEF MovedHandle
  <2>3. handle \in HandleTable /\ to # from /\ handle[to] = NoBatch
    BY <2>1, <1>a
  <2>4. Cardinality(On(MovedHandle(handle, to, from), c)) = Cardinality(On(handle, c))
    BY ONLY <2>3, OnMove, to \in Handles, from \in Handles, c \in Batches
  <2> QED
    BY <2>1, <2>2, <2>4, <1>b
<1>4. ASSUME NEW t \in Threads, NEW to \in Handles, NEW from \in Handles,
             HandleMoveOver(t, to, from)
      PROVE  HandlesCounted'
  <2> SUFFICES ASSUME NEW c \in Batches
               PROVE  processing'[c] = Cardinality(On(handle', c))
    BY CountedOnPrime
  <2>1. /\ to # from /\ handle[to] \in Batches
        /\ handle' = [handle EXCEPT ![to] = handle[from], ![from] = NoBatch]
    BY <1>4, <1>a DEF HandleMoveOver, HandleTable
  <2>2. processing'[c] = processing[c] - One(c, handle[to])
    <3>1. processing' = [processing EXCEPT ![handle[to]] = @ - 1]
      BY <1>4 DEF HandleMoveOver, DecrementProcessingCount
    <3> QED
      BY <3>1, <1>a, <2>1 DEF One
  <2>3. Cardinality(On(handle, c)) = Cardinality(On(handle', c)) + One(c, handle[to])
    BY <2>1, <1>a, OnMoveOver DEF MovedHandle
  <2> QED
    BY <2>2, <2>3, <1>a, <1>b, OnFinite DEF One
<1>5. CASE UNCHANGED <<handle, processing>>
  BY <1>5, <1>b, CountedOnPrime
<1> QED
  BY <1>1, <1>2, <1>3, <1>4, <1>5
     DEF Next, ClientStep, Construct, SetData, ConvertTo, TryToCreateTask, TryToCancelTask,
         TryToLockForInTransit, TryToReleaseInTransit, SetStateChangeCv, NotifyAll, batchVars

\* A step that lowers a count leaves processing only when the count is zero.
LEMMA DecrementActive ==
  ASSUME TypeOK, ActiveIsProcessing, NEW t \in Threads, NEW b \in Batches,
         DecrementProcessingCount(t, b)
  PROVE  ActiveIsProcessing'
<1> SUFFICES ASSUME NEW c \in Batches, processing'[c] > 0
             PROVE  state'[c] = "processing"
  BY DEF ActiveIsProcessing
<1>1. CASE c # b
  BY <1>1 DEF DecrementProcessingCount, MoveTo, ActiveIsProcessing, TypeOK
<1>2. CASE c = b
  BY <1>2 DEF DecrementProcessingCount, ActiveIsProcessing, TypeOK
<1> QED
  BY <1>1, <1>2

\* A batch with a positive processing count stays in processing.
LEMMA ActiveStep == BatchCore /\ [Next]_batchVars => ActiveIsProcessing'
<1> SUFFICES ASSUME BatchCore, [Next]_batchVars PROVE ActiveIsProcessing'
  OBVIOUS
<1> USE DEF BatchCore
<1>1. ASSUME NEW t \in Threads, NEW b \in Batches, TryToCreateTask(t, b)
      PROVE  ActiveIsProcessing'
  BY <1>1 DEF TryToCreateTask, MoveTo, ActiveIsProcessing, TypeOK
<1>2. ASSUME NEW t \in Threads, NEW b \in Batches, TryToCancelTask(t, b)
      PROVE  ActiveIsProcessing'
  BY <1>2 DEF TryToCancelTask, LastTaskGone, MoveTo, ActiveIsProcessing, TypeOK
<1>3. ASSUME NEW t \in Threads, NEW b \in Batches, NEW s \in Spaces, NEW h \in Handles,
             TryToLockForProcessing(t, b, s, h)
      PROVE  ActiveIsProcessing'
  BY <1>3 DEF TryToLockForProcessing, MoveTo, ActiveIsProcessing, TypeOK
<1>4. ASSUME NEW t \in Threads, NEW b \in Batches, TryToLockForInTransit(t, b)
      PROVE  ActiveIsProcessing'
  BY <1>4 DEF TryToLockForInTransit, CanLockForInTransit, MoveTo, ActiveIsProcessing, TypeOK
<1>5. ASSUME NEW t \in Threads, NEW b \in Batches, NEW s \in BatchState,
             TryToReleaseInTransit(t, b, s)
      PROVE  ActiveIsProcessing'
  BY <1>5 DEF TryToReleaseInTransit, MoveTo, ActiveIsProcessing, TypeOK
<1>6. ASSUME NEW t \in Threads, NEW h \in Handles, HandleRelease(t, h)
      PROVE  ActiveIsProcessing'
  BY <1>6, DecrementActive DEF HandleRelease, TypeOK
<1>7. ASSUME NEW t \in Threads, NEW to \in Handles, NEW from \in Handles,
             HandleMoveOver(t, to, from)
      PROVE  ActiveIsProcessing'
  BY <1>7, DecrementActive DEF HandleMoveOver, TypeOK
<1>8. CASE UNCHANGED <<state, processing>>
  BY <1>8 DEF ActiveIsProcessing
<1> QED
  BY <1>1, <1>2, <1>3, <1>4, <1>5, <1>6, <1>7, <1>8
     DEF Next, ClientStep, Construct, SetData, ConvertTo, HandleMoveInto,
         SetStateChangeCv, NotifyAll, batchVars

\* A handle only ever points at a constructed batch.
LEMMA LiveStep == BatchCore /\ [Next]_batchVars => HandlesOnLive'
<1> SUFFICES ASSUME BatchCore, [Next]_batchVars PROVE HandlesOnLive'
  OBVIOUS
<1>1. ASSUME NEW t \in Threads, NEW b \in Batches, NEW s \in Spaces, NEW h \in Handles,
             TryToLockForProcessing(t, b, s, h)
      PROVE  HandlesOnLive'
  BY <1>1 DEF TryToLockForProcessing, BatchCore, TypeOK, HandlesOnLive
<1>2. ASSUME NEW t \in Threads, NEW h \in Handles, HandleRelease(t, h)
      PROVE  HandlesOnLive'
  BY <1>2 DEF HandleRelease, BatchCore, TypeOK, HandlesOnLive
<1>3. ASSUME NEW t \in Threads, NEW to \in Handles, NEW from \in Handles,
             HandleMoveInto(t, to, from) \/ HandleMoveOver(t, to, from)
      PROVE  HandlesOnLive'
  <2>1. /\ handle' = [handle EXCEPT ![to] = handle[from], ![from] = NoBatch]
        /\ live' = live
    BY <1>3 DEF HandleMoveInto, HandleMoveOver
  <2> QED
    BY <2>1 DEF BatchCore, TypeOK, HandlesOnLive
<1>4. ASSUME NEW t \in Threads, NEW b \in Batches, NEW d \in Spaces \cup {NoData},
             Construct(t, b, d)
      PROVE  HandlesOnLive'
  BY <1>4 DEF Construct, BatchCore, HandlesOnLive
<1>5. CASE UNCHANGED <<handle, live>>
  BY <1>5 DEF BatchCore, HandlesOnLive
<1> QED
  BY <1>1, <1>2, <1>3, <1>4, <1>5
     DEF Next, ClientStep, SetData, ConvertTo, TryToCreateTask, TryToCancelTask,
         TryToLockForInTransit, TryToReleaseInTransit, SetStateChangeCv, NotifyAll, batchVars

\* Replacing the data of a batch that no handle points at disturbs no handle.
LEMMA ReplacePins ==
  ASSUME BatchCore, NEW M, PinnedBut(M), NEW b \in Batches, NEW d,
         \A h \in Handles : handle[h] # b,
         data' = [data EXCEPT ![b] = d], handle' = handle, grant' = grant
  PROVE  PinnedBut(M)'
BY DEF BatchCore, TypeOK, PinnedBut

\* The data a handle was granted for stays where it is as long as the handle
\* is live.
LEMMA PinnedStep ==
  ASSUME BatchCore, NEW M, PinnedBut(M), [Next]_batchVars
  PROVE  PinnedBut(M)'
<1>1. ASSUME NEW t \in Threads, NEW b \in Batches, NEW d \in Spaces \cup {NoData},
             Construct(t, b, d)
      PROVE  PinnedBut(M)'
  <2>1. \A h \in Handles : handle[h] # b
    BY <1>1, DataBatchAssumption DEF Construct, BatchCore, HandlesOnLive
  <2> QED
    BY <1>1, <2>1, ReplacePins DEF Construct
<1>2. ASSUME NEW t \in Threads, NEW b \in Batches, NEW d \in Spaces \cup {NoData},
             SetData(t, b, d) \/ ConvertTo(t, b, d)
      PROVE  PinnedBut(M)'
  <2>1. processing[b] = 0
    BY <1>2 DEF SetData, ConvertTo, CanReplaceData
  <2>2. \A h \in Handles : handle[h] # b
    BY <2>1, HeldIsActive, DataBatchAssumption DEF BatchCore
  <2> QED
    BY <1>2, <2>2, ReplacePins DEF SetData, ConvertTo
<1>3. ASSUME NEW t \in Threads, NEW b \in Batches, NEW s \in Spaces, NEW h \in Handles,
             TryToLockForProcessing(t, b, s, h)
      PROVE  PinnedBut(M)'
  BY <1>3 DEF TryToLockForProcessing, CanLockForProcessing, BatchCore, TypeOK, PinnedBut
<1>4. ASSUME NEW t \in Threads, NEW h \in Handles, HandleRelease(t, h)
      PROVE  PinnedBut(M)'
  BY <1>4, DataBatchAssumption DEF HandleRelease, BatchCore, TypeOK, PinnedBut
<1>5. ASSUME NEW t \in Threads, NEW to \in Handles, NEW from \in Handles,
             HandleMoveInto(t, to, from) \/ HandleMoveOver(t, to, from)
      PROVE  PinnedBut(M)'
  <2>1. /\ handle' = [handle EXCEPT ![to] = handle[from], ![from] = NoBatch]
        /\ grant' = [grant EXCEPT ![to] = grant[from], ![from] = NoData]
        /\ data' = data
    BY <1>5 DEF HandleMoveInto, HandleMoveOver
  <2> QED
    BY <2>1, DataBatchAssumption DEF BatchCore, TypeOK, PinnedBut
<1>6. CASE UNCHANGED <<handle, data, grant>>
  BY <1>6 DEF BatchCore, PinnedBut
<1> QED
  BY <1>1, <1>2, <1>3, <1>4, <1>5, <1>6
     DEF Next, ClientStep, TryToCreateTask, TryToCancelTask,
         TryToLockForInTransit, TryToReleaseInTransit, SetStateChangeCv, NotifyAll, batchVars

\* A step that changes the state of a batch nobody holds in transit, to a
\* state of its own, disturbs no in-transit lock.
LEMMA MoveHeld ==
  ASSUME BatchCore, NEW t \in Threads, NEW b \in Batches, NEW s \in BatchState,
         state[b] # "in_transit", MoveTo(t, b, s), movers' = movers
  PROVE  TransitHeld'
BY DEF BatchCore, TypeOK, TransitHeld, MoveTo

\* Releasing a handle disturbs no in-transit lock.
LEMMA DecrementHeld ==
  ASSUME BatchCore, NEW t \in Threads, NEW b \in Batches,
         DecrementProcessingCount(t, b), movers' = movers
  PROVE  TransitHeld'
<1>1. StateAfterProcessing(b) \in BatchState
  BY DEF StateAfterProcessing, BatchState
<1>2. CASE MoveTo(t, b, StateAfterProcessing(b))
  BY <1>1, <1>2, MoveHeld DEF DecrementProcessingCount
<1>3. CASE UNCHANGED <<state, notifying>>
  BY <1>3 DEF BatchCore, TransitHeld
<1> QED
  BY <1>2, <1>3 DEF DecrementProcessingCount

\* The in-transit lock has one holder, while the batch is in_transit.
LEMMA TransitStep == BatchCore /\ [Next]_batchVars => TransitHeld'
<1> SUFFICES ASSUME BatchCore, [Next]_batchVars PROVE TransitHeld'
  OBVIOUS
<1>0. \A s \in {"idle", "task_created", "processing"} : s \in BatchState
  BY DEF BatchState
<1>1. ASSUME NEW t \in Threads, NEW b \in Batches, TryToCreateTask(t, b)
      PROVE  TransitHeld'
  BY <1>0, <1>1, MoveHeld DEF TryToCreateTask, BatchCore, TransitHeld
<1>2. ASSUME NEW t \in Threads, NEW b \in Batches, TryToCancelTask(t, b)
      PROVE  TransitHeld'
  BY <1>0, <1>2, MoveHeld DEF TryToCancelTask, CanCancelTask, BatchCore, TransitHeld
<1>3. ASSUME NEW t \in Threads, NEW b \in Batches, NEW s \in Spaces, NEW h \in Handles,
             TryToLockForProcessing(t, b, s, h)
      PROVE  TransitHeld'
  BY <1>0, <1>3, MoveHeld DEF TryToLockForProcessing, CanLockForProcessing
<1>4. ASSUME NEW t \in Threads, NEW b \in Batches, TryToLockForInTransit(t, b)
      PROVE  TransitHeld'
  <2>1. state[b] # "in_transit"
    BY <1>4 DEF TryToLockForInTransit, CanLockForInTransit
  <2>2. movers[b] = {}
    BY <2>1 DEF BatchCore, TransitHeld
  <2> QED
    BY <1>4, <2>2 DEF TryToLockForInTransit, MoveTo, BatchCore, TypeOK, TransitHeld
<1>5. ASSUME NEW t \in Threads, NEW b \in Batches, NEW s \in BatchState,
             TryToReleaseInTransit(t, b, s)
      PROVE  TransitHeld'
  <2>1. movers[b] \ {t} = {}
    BY <1>5 DEF TryToReleaseInTransit, BatchCore, TransitHeld
  <2> QED
    BY <1>5, <2>1 DEF TryToReleaseInTransit, MoveTo, BatchCore, TypeOK, TransitHeld
<1>6. ASSUME NEW t \in Threads, NEW h \in Handles, HandleRelease(t, h)
      PROVE  TransitHeld'
  BY <1>6, DecrementHeld DEF HandleRelease, BatchCore, TypeOK
<1>7. ASSUME NEW t \in Threads, NEW to \in Handles, NEW from \in Handles,
             HandleMoveOver(t, to, from)
      PROVE  TransitHeld'
  BY <1>7, DecrementHeld DEF HandleMoveOver, BatchCore, TypeOK
<1>8. CASE UNCHANGED <<state, movers>>
  BY <1>8 DEF BatchCore, TransitHeld
<1> QED
  BY <1>1, <1>2, <1>3, <1>4, <1>5, <1>6, <1>7, <1>8
     DEF Next, ClientStep, Construct, SetData, ConvertTo, HandleMoveInto,
         SetStateChangeCv, NotifyAll, batchVars

\* All of this is kept together.
LEMMA CoreStep == BatchCore /\ [Next]_batchVars => BatchCore'
  BY TypeStep, CountStep, ActiveStep, LiveStep, TransitStep DEF BatchCore

\* The initial state satisfies the invariant: there are no handles.
LEMMA BatchInvInit == Init => BatchInv
<1> SUFFICES ASSUME Init PROVE BatchInv
  OBVIOUS
<1>1. HandlesCounted
  <2> SUFFICES ASSUME NEW b \in Batches PROVE processing[b] = Cardinality(HandlesOn(b))
    BY DEF HandlesCounted
  <2>1. HandlesOn(b) = {}
    BY DataBatchAssumption DEF Init, HandlesOn
  <2> QED
    BY <2>1, FS_EmptySet DEF Init
<1> QED
  BY <1>1, TypeInit
     DEF BatchInv, BatchCore, Init, ActiveIsProcessing, HandlesOnLive, DataPinned, TransitHeld

\* The invariant holds in every reachable state.
THEOREM BatchInvariant == Spec => []BatchInv
<1>1. BatchInv /\ [Next]_batchVars => BatchInv'
  <2> SUFFICES ASSUME BatchInv, [Next]_batchVars PROVE BatchInv'
    OBVIOUS
  <2>1. BatchCore' /\ TypeOK'
    BY CoreStep DEF BatchInv, BatchCore
  <2>2. PinnedBut({})
    BY DataBatchAssumption DEF BatchInv, BatchCore, DataPinned, PinnedBut
  <2>3. PinnedBut({})'
    BY <2>2, PinnedStep DEF BatchInv, BatchCore
  <2>4. DataPinned'
    BY <2>1, <2>3, DataBatchAssumption DEF PinnedBut, DataPinned, TypeOK
  <2> QED
    BY <2>1, <2>4 DEF BatchInv, BatchCore
<1> QED
  BY BatchInvInit, <1>1, PTL DEF Spec

\* The processing count of a batch is the number of handles pointing at it.
THEOREM HandlesAreCounted == Spec => []HandlesCounted
<1>1. BatchInv => HandlesCounted
  BY DEF BatchInv, BatchCore
<1> QED
  BY <1>1, BatchInvariant, PTL

LEMMA CoreReleases == BatchCore => ReleaseNeverThrows
  BY HeldIsActive DEF BatchCore, ActiveIsProcessing, ReleaseNeverThrows

\* Releasing or destroying a live handle never throws, so the destructor of a
\* handle never terminates the program.
THEOREM ReleaseIsSafe == Spec => []ReleaseNeverThrows
<1>1. BatchInv => ReleaseNeverThrows
  BY CoreReleases DEF BatchInv
<1> QED
  BY <1>1, BatchInvariant, PTL

\* A live handle pins the data it was granted for.
THEOREM HandlesPinData == Spec => []DataPinned
<1>1. BatchInv => DataPinned
  BY DEF BatchInv, BatchCore
<1> QED
  BY <1>1, BatchInvariant, PTL

LEMMA CoreExcludes == BatchCore => TransitExclusive
<1> SUFFICES ASSUME BatchCore, NEW b \in Batches, state[b] = "in_transit"
             PROVE  HandlesOn(b) = {}
  BY DEF BatchCore, TransitHeld, TransitExclusive
<1>1. ~(processing[b] > 0)
  BY DEF BatchCore, ActiveIsProcessing
<1> QED
  BY <1>1, HeldIsActive, DataBatchAssumption DEF BatchCore, HandlesOn

\* The in-transit lock excludes other movers and every processing handle.
THEOREM TransitIsExclusive == Spec => []TransitExclusive
<1>1. BatchInv => TransitExclusive
  BY CoreExcludes DEF BatchInv
<1> QED
  BY <1>1, BatchInvariant, PTL

-----------------------------------------------------------------------------
(* The documented meaning of the states.  It needs clients that return a   *)
(* batch from in_transit to task_created exactly when a task is pending.   *)

\* Nothing but the batch whose state or counters a step changes is concerned.
LEMMA CountsStep ==
  ASSUME Discipline = "pending"
  PROVE  BatchCore /\ StateMatchesCounts /\ [Next]_batchVars => StateMatchesCounts'
<1> SUFFICES ASSUME BatchCore, StateMatchesCounts, [Next]_batchVars
             PROVE  StateMatchesCounts'
  OBVIOUS
<1> USE DEF BatchCore, TypeOK
<1>1. ASSUME NEW t \in Threads, NEW b \in Batches, TryToCreateTask(t, b)
      PROVE  StateMatchesCounts'
  BY <1>1 DEF TryToCreateTask, CanCreateTask, MoveTo, StateMatchesCounts
<1>2. ASSUME NEW t \in Threads, NEW b \in Batches, TryToCancelTask(t, b)
      PROVE  StateMatchesCounts'
  BY <1>2 DEF TryToCancelTask, CanCancelTask, LastTaskGone, MoveTo, StateMatchesCounts
<1>3. ASSUME NEW t \in Threads, NEW b \in Batches, NEW s \in Spaces, NEW h \in Handles,
             TryToLockForProcessing(t, b, s, h)
      PROVE  StateMatchesCounts'
  BY <1>3 DEF TryToLockForProcessing, CanLockForProcessing, MoveTo, StateMatchesCounts
<1>4. ASSUME NEW t \in Threads, NEW b \in Batches, TryToLockForInTransit(t, b)
      PROVE  StateMatchesCounts'
  BY <1>4 DEF TryToLockForInTransit, CanLockForInTransit, MoveTo, StateMatchesCounts
<1>5. ASSUME NEW t \in Threads, NEW b \in Batches, NEW s \in BatchState,
             TryToReleaseInTransit(t, b, s)
      PROVE  StateMatchesCounts'
  <2>1. s = IF taskCreated[b] > 0 THEN "task_created" ELSE "idle"
    BY <1>5 DEF TryToReleaseInTransit, ReleaseTargets
  <2> QED
    BY <1>5, <2>1 DEF TryToReleaseInTransit, MoveTo, StateMatchesCounts
<1>6. ASSUME NEW t \in Threads, NEW b \in Batches, DecrementProcessingCount(t, b),
             taskCreated' = taskCreated
      PROVE  StateMatchesCounts'
  BY <1>6 DEF DecrementProcessingCount, StateAfterProcessing, MoveTo, StateMatchesCounts
<1>7. ASSUME NEW t \in Threads, NEW h \in Handles, HandleRelease(t, h)
      PROVE  StateMatchesCounts'
  BY <1>6, <1>7 DEF HandleRelease
<1>8. ASSUME NEW t \in Threads, NEW to \in Handles, NEW from \in Handles,
             HandleMoveOver(t, to, from)
      PROVE  StateMatchesCounts'
  BY <1>6, <1>8 DEF HandleMoveOver
<1>9. CASE UNCHANGED <<state, taskCreated, processing>>
  BY <1>9 DEF StateMatchesCounts
<1> QED
  BY <1>1, <1>2, <1>3, <1>4, <1>5, <1>7, <1>8, <1>9
     DEF Next, ClientStep, Construct, SetData, ConvertTo, HandleMoveInto,
         SetStateChangeCv, NotifyAll, batchVars

\* When clients return a batch from in_transit to task_created exactly when a
\* task is pending, each state says about the counters what the document on
\* state transitions says it does.
THEOREM StatesMeanWhatTheySay ==
  ASSUME Discipline = "pending"
  PROVE  Spec => []StateMatchesCounts
<1>1. Init => StateMatchesCounts
  BY DEF Init, StateMatchesCounts
<1>2. BatchInv /\ StateMatchesCounts /\ [Next]_batchVars => StateMatchesCounts'
  BY CountsStep DEF BatchInv
<1> QED
  BY <1>1, <1>2, BatchInvariant, PTL DEF Spec

-----------------------------------------------------------------------------
(* What a step does to states: at most one batch changes, under a thread   *)
(* that owes nothing yet and owes the notification afterwards.             *)

\* A ready thread moves a batch to another state.
StateMove ==
  \E t \in Threads, b \in Batches, s \in BatchState :
    Ready(t) /\ MoveTo(t, b, s)

\* Every step leaves the states alone or is such a move.
LEMMA StepMoves == TypeOK /\ [Next]_batchVars => UNCHANGED state \/ StateMove
<1> SUFFICES ASSUME TypeOK, [Next]_batchVars PROVE UNCHANGED state \/ StateMove
  OBVIOUS
<1> USE DEF TypeOK, BatchState
<1>1. ASSUME NEW t \in Threads, NEW b \in Batches, TryToCreateTask(t, b)
      PROVE  UNCHANGED state \/ StateMove
  BY <1>1 DEF TryToCreateTask, StateMove
<1>2. ASSUME NEW t \in Threads, NEW b \in Batches, TryToCancelTask(t, b)
      PROVE  UNCHANGED state \/ StateMove
  BY <1>2 DEF TryToCancelTask, CanCancelTask, StateMove
<1>3. ASSUME NEW t \in Threads, NEW b \in Batches, NEW s \in Spaces, NEW h \in Handles,
             TryToLockForProcessing(t, b, s, h)
      PROVE  UNCHANGED state \/ StateMove
  BY <1>3 DEF TryToLockForProcessing, CanLockForProcessing, StateMove
<1>4. ASSUME NEW t \in Threads, NEW b \in Batches, TryToLockForInTransit(t, b)
      PROVE  UNCHANGED state \/ StateMove
  BY <1>4 DEF TryToLockForInTransit, CanLockForInTransit, StateMove
<1>5. ASSUME NEW t \in Threads, NEW b \in Batches, NEW s \in BatchState,
             TryToReleaseInTransit(t, b, s)
      PROVE  UNCHANGED state \/ StateMove
  BY <1>5 DEF TryToReleaseInTransit, StateMove
<1>6. ASSUME NEW t \in Threads, NEW b \in Batches, Ready(t), DecrementProcessingCount(t, b)
      PROVE  UNCHANGED state \/ StateMove
  BY <1>6 DEF DecrementProcessingCount, StateAfterProcessing, StateMove
<1>7. ASSUME NEW t \in Threads, NEW h \in Handles, HandleRelease(t, h)
      PROVE  UNCHANGED state \/ StateMove
  BY <1>6, <1>7 DEF HandleRelease
<1>8. ASSUME NEW t \in Threads, NEW to \in Handles, NEW from \in Handles,
             HandleMoveOver(t, to, from)
      PROVE  UNCHANGED state \/ StateMove
  BY <1>6, <1>8 DEF HandleMoveOver
<1> QED
  BY <1>1, <1>2, <1>3, <1>4, <1>5, <1>7, <1>8
     DEF Next, ClientStep, Construct, SetData, ConvertTo, HandleMoveInto,
         SetStateChangeCv, NotifyAll, batchVars

LEMMA NotifiedStep == TypeOK /\ [Next]_batchVars => ChangeOwesNotification
<1> SUFFICES ASSUME TypeOK, [Next]_batchVars, NEW b \in Batches,
                    state'[b] # state[b], cv[b] # NoCv
             PROVE  \E t \in Threads : notifying[t] = NoCv /\ notifying'[t] = cv[b]
  BY DEF ChangeOwesNotification
<1>1. PICK t \in Threads, c \in Batches, s \in BatchState : Ready(t) /\ MoveTo(t, c, s)
  BY StepMoves DEF StateMove
<1>2. b = c
  BY <1>1 DEF MoveTo, TypeOK
<1> QED
  BY <1>1, <1>2 DEF Ready, MoveTo, TypeOK

\* Whatever thread changes the state of a batch that has a condition variable,
\* in any operation, goes on to notify that variable: the calls that pops of a
\* repository wait for are never silent.
THEOREM ChangesAreNotified == Spec => StateChangeNotifies
  BY NotifiedStep, TypeCorrect, PTL DEF Spec, StateChangeNotifies

-----------------------------------------------------------------------------
(* DataBatch implements PinLock.                                           *)

\* Every step of a batch is a step of the abstract pin lock, or leaves pins
\* and movers alone.
LEMMA PinStep == BatchCore /\ [Next]_batchVars => [Pins!PinNext]_(Pins!pinVars)
<1> SUFFICES ASSUME BatchCore, [Next]_batchVars
             PROVE  Pins!PinNext \/ UNCHANGED Pins!pinVars
  OBVIOUS
<1>1. ASSUME NEW t \in Threads, NEW b \in Batches, NEW s \in Spaces, NEW h \in Handles,
             TryToLockForProcessing(t, b, s, h)
      PROVE  Pins!PinNext
  <2>1. movers[b] = {}
    BY <1>1 DEF TryToLockForProcessing, CanLockForProcessing, BatchCore, TransitHeld
  <2>2. Pins!Pin(h, b)
    BY <1>1, <2>1 DEF TryToLockForProcessing, Pins!Pin
  <2> QED
    BY <2>2 DEF Pins!PinNext
<1>2. ASSUME NEW t \in Threads, NEW h \in Handles, HandleRelease(t, h)
      PROVE  Pins!PinNext
  <2>1. Pins!Unpin(h)
    BY <1>2 DEF HandleRelease, Pins!Unpin
  <2> QED
    BY <2>1 DEF Pins!PinNext
<1>3. ASSUME NEW t \in Threads, NEW to \in Handles, NEW from \in Handles,
             HandleMoveInto(t, to, from) \/ HandleMoveOver(t, to, from)
      PROVE  Pins!PinNext
  <2>1. Pins!PassPin(to, from)
    BY <1>3 DEF HandleMoveInto, HandleMoveOver, Pins!PassPin
  <2> QED
    BY <2>1 DEF Pins!PinNext
<1>4. ASSUME NEW t \in Threads, NEW b \in Batches, TryToLockForInTransit(t, b)
      PROVE  Pins!PinNext
  <2>1. movers[b] = {}
    BY <1>4 DEF TryToLockForInTransit, CanLockForInTransit, BatchCore, TransitHeld
  <2>2. processing[b] = 0
    BY <1>4 DEF TryToLockForInTransit, CanLockForInTransit
  <2>3. ~Pins!Pinned(b)
    BY <2>2, HeldIsActive, DataBatchAssumption DEF BatchCore, Pins!Pinned
  <2>4. movers' = [movers EXCEPT ![b] = {t}] /\ handle' = handle
    BY <1>4, <2>1 DEF TryToLockForInTransit
  <2>5. Pins!StartMove(t, b)
    BY <2>1, <2>3, <2>4 DEF Pins!StartMove
  <2> QED
    BY <2>5 DEF Pins!PinNext
<1>5. ASSUME NEW t \in Threads, NEW b \in Batches, NEW s \in BatchState,
             TryToReleaseInTransit(t, b, s)
      PROVE  Pins!PinNext
  <2>1. movers[b] = {t}
    BY <1>5 DEF TryToReleaseInTransit, BatchCore, TransitHeld
  <2>2. movers' = [movers EXCEPT ![b] = {}] /\ handle' = handle
    BY <1>5, <2>1 DEF TryToReleaseInTransit
  <2>3. Pins!EndMove(t, b)
    BY <2>1, <2>2 DEF Pins!EndMove
  <2> QED
    BY <2>3 DEF Pins!PinNext
<1>6. CASE UNCHANGED <<handle, movers>>
  BY <1>6 DEF Pins!pinVars
<1> QED
  BY <1>1, <1>2, <1>3, <1>4, <1>5, <1>6
     DEF Next, ClientStep, Construct, SetData, ConvertTo, TryToCreateTask, TryToCancelTask,
         SetStateChangeCv, NotifyAll, batchVars

\* The state machine, counters and handles of data_batch implement a pin that
\* excludes movers and a mover that excludes pins.
THEOREM BatchImplementsPinLock == Spec => ImplementsPinLock
<1>1. Init => Pins!PinInit
  BY DEF Init, Pins!PinInit
<1>2. BatchInv /\ [Next]_batchVars => [Pins!PinNext]_(Pins!pinVars)
  BY PinStep DEF BatchInv
<1> QED
  BY <1>1, <1>2, BatchInvariant, PTL DEF Spec, ImplementsPinLock, Pins!PinSpec

-----------------------------------------------------------------------------
(* Batches that are moved.                                                 *)

MovesInv == BatchCore /\ PinnedUntilMoved

\* A move takes the data of two batches, and nothing that handles, counters
\* and locks rest on.
LEMMA MoveStep ==
  ASSUME BatchCore, NEW t \in Threads, NEW from \in Batches, NEW to \in Batches,
         MoveConstruct(t, from, to) \/ MoveAssign(t, from, to)
  PROVE  /\ BatchCore'
         /\ \A b \in Batches \ {from, to} : data'[b] = data[b]
         /\ UNCHANGED <<handle, grant>>
<1>1. /\ UNCHANGED <<state, taskCreated, processing, cv, handle, notifying, grant, movers>>
      /\ live' \in SUBSET Batches /\ live \subseteq live'
      /\ batchId' \in [Batches -> Batches \cup {NoBatch}]
      /\ data' \in [Batches -> Spaces \cup {NoData}]
  BY DEF MoveConstruct, MoveAssign, BatchCore, TypeOK
<1>2. \A b \in Batches \ {from, to} : data'[b] = data[b]
  BY DEF MoveConstruct, MoveAssign, BatchCore, TypeOK
<1>3. TypeOK'
  BY <1>1 DEF BatchCore, TypeOK
<1>4. HandlesCounted' /\ ActiveIsProcessing' /\ HandlesOnLive' /\ TransitHeld'
  BY <1>1 DEF BatchCore, HandlesCounted, HandlesOn, ActiveIsProcessing, HandlesOnLive, TransitHeld
<1> QED
  BY <1>1, <1>2, <1>3, <1>4 DEF BatchCore

\* Moves of batch objects leave handles, counters and locks in order.
THEOREM MovesInvariant == MovesSpec => []MovesInv
<1>1. MovesInit => MovesInv
  BY BatchInvInit, DataBatchAssumption DEF MovesInit, MovesInv, BatchInv, Init, PinnedUntilMoved
<1>2. MovesInv /\ [MovesNext]_movesVars => MovesInv'
  <2> SUFFICES ASSUME MovesInv, [MovesNext]_movesVars PROVE MovesInv'
    OBVIOUS
  <2>1. CASE (Next /\ UNCHANGED moved) \/ UNCHANGED movesVars
    <3>1. PICK M : M = moved
      OBVIOUS
    <3>2. [Next]_batchVars /\ moved' = M
      BY <2>1, <3>1 DEF movesVars
    <3>3. BatchCore /\ PinnedBut(M)
      BY <3>1 DEF MovesInv, PinnedUntilMoved, PinnedBut
    <3>4. BatchCore'
      BY <3>2, <3>3, CoreStep
    <3>5. PinnedBut(M)'
      BY <3>2, <3>3, PinnedStep
    <3> QED
      BY <3>2, <3>4, <3>5 DEF MovesInv, PinnedUntilMoved, PinnedBut
  <2>2. ASSUME NEW t \in Threads, NEW from \in Batches, NEW to \in Batches,
               Moving(t, from, to)
        PROVE  MovesInv'
    <3>1. moved' = moved \cup {from, to}
      BY <2>2 DEF Moving
    <3>2. /\ BatchCore'
          /\ \A b \in Batches \ {from, to} : data'[b] = data[b]
          /\ UNCHANGED <<handle, grant>>
      BY <2>2, MoveStep DEF Moving, MovesInv
    <3> QED
      BY <3>1, <3>2 DEF MovesInv, PinnedUntilMoved
  <2> QED
    BY <2>1, <2>2 DEF MovesNext, Stay
<1> QED
  BY <1>1, <1>2, PTL DEF MovesSpec

\* The move constructor and the move assignment of data_batch take the data
\* from under the handles of the two batches they are called on, and of no
\* other: every other live handle still pins what it was granted.
THEOREM MovesSpareOthers == MovesSpec => []PinnedUntilMoved
<1>1. MovesInv => PinnedUntilMoved
  BY DEF MovesInv
<1> QED
  BY <1>1, MovesInvariant, PTL

\* With moves as well, the handles of a batch are counted, releasing one never
\* throws, and the in-transit lock excludes other movers and handles.
THEOREM MovesKeepLocks ==
  MovesSpec => [](TypeOK /\ HandlesCounted /\ ReleaseNeverThrows /\ TransitExclusive)
<1>1. MovesInv => TypeOK /\ HandlesCounted /\ ReleaseNeverThrows /\ TransitExclusive
  BY CoreReleases, CoreExcludes DEF MovesInv, BatchCore
<1> QED
  BY <1>1, MovesInvariant, PTL

\* A step with moves is a step without, or leaves everything but data and ids.
LEMMA MovesStep ==
  ASSUME [MovesNext]_movesVars
  PROVE  [Next]_batchVars \/ UNCHANGED <<state, taskCreated, processing, cv, handle, notifying, movers>>
  BY DEF MovesNext, Stay, Moving, MoveConstruct, MoveAssign, movesVars

\* Moving a batch object changes no state and owes no notification; all other
\* steps notify what they change.
THEOREM MovesNotify == MovesSpec => StateChangeNotifies
<1>1. MovesInv /\ [MovesNext]_movesVars => ChangeOwesNotification
  <2> SUFFICES ASSUME MovesInv, [MovesNext]_movesVars PROVE ChangeOwesNotification
    OBVIOUS
  <2>1. CASE [Next]_batchVars
    BY <2>1, NotifiedStep DEF MovesInv, BatchCore
  <2>2. CASE UNCHANGED state
    BY <2>2 DEF ChangeOwesNotification
  <2> QED
    BY <2>1, <2>2, MovesStep
<1> QED
  BY <1>1, MovesInvariant, PTL DEF MovesSpec, StateChangeNotifies

\* With clients that return a batch from in_transit to task_created exactly
\* when a task is pending, moves do not falsify what a state says about the
\* counters: it is the batch object that keeps them, not the data it loses.
THEOREM MovesKeepStates ==
  ASSUME Discipline = "pending"
  PROVE  MovesSpec => []StateMatchesCounts
<1>1. MovesInit => StateMatchesCounts
  BY DEF MovesInit, Init, StateMatchesCounts
<1>2. MovesInv /\ StateMatchesCounts /\ [MovesNext]_movesVars => StateMatchesCounts'
  <2> SUFFICES ASSUME MovesInv, StateMatchesCounts, [MovesNext]_movesVars
               PROVE  StateMatchesCounts'
    OBVIOUS
  <2>1. CASE [Next]_batchVars
    BY <2>1, CountsStep DEF MovesInv
  <2>2. CASE UNCHANGED <<state, taskCreated, processing>>
    BY <2>2 DEF StateMatchesCounts
  <2> QED
    BY <2>1, <2>2, MovesStep
<1> QED
  BY <1>1, <1>2, MovesInvariant, PTL DEF MovesSpec

\* With moves as well, data_batch implements the abstract pin lock.
THEOREM MovesImplementPinLock == MovesSpec => ImplementsPinLock
<1>1. MovesInit => Pins!PinInit
  BY DEF MovesInit, Init, Pins!PinInit
<1>2. MovesInv /\ [MovesNext]_movesVars => [Pins!PinNext]_(Pins!pinVars)
  <2> SUFFICES ASSUME MovesInv, [MovesNext]_movesVars PROVE [Pins!PinNext]_(Pins!pinVars)
    OBVIOUS
  <2>1. CASE [Next]_batchVars
    BY <2>1, PinStep DEF MovesInv
  <2>2. CASE UNCHANGED <<handle, movers>>
    BY <2>2 DEF Pins!pinVars
  <2> QED
    BY <2>1, <2>2, MovesStep
<1> QED
  BY <1>1, <1>2, MovesInvariant, PTL DEF MovesSpec, ImplementsPinLock, Pins!PinSpec

=============================================================================
