----------------------------- MODULE DataBatch -----------------------------
(***************************************************************************)
(* The data_batch class (src/data/data_batch.cpp,                          *)
(* include/data/data_batch.hpp): the lifecycle state machine of a batch,   *)
(* its two counters, the RAII processing handles that pin its data, and    *)
(* the condition variable it notifies.                                     *)
(*                                                                         *)
(* Every operation of the class runs under the batch's _mutex, so it is    *)
(* one step; the notify_all that follows the unlock is a step of its own   *)
(* (NotifyAll), owed by the calling thread through "notifying".  A call    *)
(* that returns false, returns a failure status or throws changes nothing, *)
(* so it is no step here; the one exception, the throwing move             *)
(* constructor, is a step (MoveConstruct).                                 *)
(*                                                                         *)
(* A representation is abstracted to the memory space it lives in.         *)
(***************************************************************************)
EXTENDS Integers, FiniteSets

CONSTANTS
  Batches,     \* data_batch objects; also their identifiers (see batchId)
  Handles,     \* data_batch_processing_handle variables of the clients
  Threads,     \* calling threads
  Spaces,      \* memory_space ids
  Repos,       \* the condition variables: one per repository
  NoBatch, NoData, NoCv,
  MaxTasks,    \* bound on _task_created_count (a size_t in the code)
  Discipline   \* which target states clients pass to try_to_release_in_transit

ASSUME DataBatchAssumption ==
  /\ NoBatch \notin Batches
  /\ NoData \notin Spaces
  /\ NoCv \notin Repos
  /\ IsFiniteSet(Handles)
  /\ MaxTasks \in Nat
  /\ Discipline \in {"any", "default", "pending"}

VARIABLES
  live,        \* constructed batches
  batchId,     \* _batch_id; NoBatch stands for 0
  data,        \* the space of _data, or NoData for nullptr
  state,       \* _state
  taskCreated, \* _task_created_count
  processing,  \* _processing_count
  cv,          \* _state_change_cv
  handle,      \* _batch of every handle
  notifying,   \* the cv a thread still has to notify after unlocking
  grant,       \* history: the space a live handle was granted for
  movers       \* history: threads that were told they hold the in-transit lock

batchVars == <<live, batchId, data, state, taskCreated, processing, cv,
               handle, notifying, grant, movers>>

BatchState == {"idle", "task_created", "processing", "in_transit"}

Init ==
  /\ live = {}
  /\ batchId = [b \in Batches |-> NoBatch]
  /\ data = [b \in Batches |-> NoData]
  /\ state = [b \in Batches |-> "idle"]
  /\ taskCreated = [b \in Batches |-> 0]
  /\ processing = [b \in Batches |-> 0]
  /\ cv = [b \in Batches |-> NoCv]
  /\ handle = [h \in Handles |-> NoBatch]
  /\ notifying = [t \in Threads |-> NoCv]
  /\ grant = [h \in Handles |-> NoData]
  /\ movers = [b \in Batches |-> {}]

-----------------------------------------------------------------------------
(* Conditions and results of the operations, one operator per idea.        *)

\* A thread starts a call only when its previous call has returned.
Ready(t) == notifying[t] = NoCv

\* Changing the state from inside a call owes a notification of the batch's cv.
MoveTo(t, b, s) ==
  /\ state' = [state EXCEPT ![b] = s]
  /\ notifying' = [notifying EXCEPT ![t] = cv[b]]

CanCreateTask(b) == state[b] \in {"idle", "task_created", "processing"}

CanCancelTask_NoCount(b) == state[b] \in {"task_created", "processing"}

CanCancelTask(b) ==
  /\ state[b] \in {"task_created", "processing"}
  /\ taskCreated[b] > 0

\* Cancelling the last task ends task_created, unless handles are still live.
LastTaskGone_IgnoreProcessing(b) == taskCreated[b] = 1

LastTaskGone(b) == taskCreated[b] = 1 /\ processing[b] = 0

CanLockForProcessing_NoState(b, s) ==
  /\ data[b] # NoData
  /\ data[b] = s
  /\ taskCreated[b] > 0

CanLockForProcessing(b, s) ==
  /\ data[b] # NoData
  /\ data[b] = s
  /\ taskCreated[b] > 0
  /\ state[b] \in {"task_created", "processing"}

CanLockForInTransit_NoState(b) == processing[b] = 0

CanLockForInTransit(b) ==
  /\ processing[b] = 0
  /\ \/ state[b] = "idle"
     \/ state[b] = "task_created" /\ taskCreated[b] > 0

\* The state a batch returns to when its last handle is released.
StateAfterProcessing_Idle(b) == "idle"

StateAfterProcessing(b) == IF taskCreated[b] > 0 THEN "task_created" ELSE "idle"

\* What clients pass as target_state: anything, nothing (the default, idle),
\* or task_created exactly when a task is pending.
ReleaseTargets(b) ==
  CASE Discipline = "any"     -> BatchState
    [] Discipline = "default" -> {"idle"}
    [] Discipline = "pending" -> {IF taskCreated[b] > 0 THEN "task_created" ELSE "idle"}

\* set_data and convert_to refuse while the batch is being processed.
CanReplaceData_Always(b) == TRUE

CanReplaceData(b) == processing[b] = 0

-----------------------------------------------------------------------------
(* The operations.                                                         *)

Construct(t, b, d) ==
  /\ Ready(t)
  /\ b \notin live
  /\ live' = live \cup {b}
  /\ batchId' = [batchId EXCEPT ![b] = b]
  /\ data' = [data EXCEPT ![b] = d]
  /\ UNCHANGED <<state, taskCreated, processing, cv, handle, notifying, grant, movers>>

SetStateChangeCv(t, b, c) ==
  /\ Ready(t)
  /\ b \in live
  /\ cv' = [cv EXCEPT ![b] = c]
  /\ UNCHANGED <<live, batchId, data, state, taskCreated, processing, handle,
                 notifying, grant, movers>>

SetData(t, b, d) ==
  /\ Ready(t)
  /\ b \in live
  /\ CanReplaceData(b)
  /\ data' = [data EXCEPT ![b] = d]
  /\ UNCHANGED <<live, batchId, state, taskCreated, processing, cv, handle,
                 notifying, grant, movers>>

\* Dereferences _data, so clients call it only on a batch that has data.  A
\* converter that is missing or throws leaves _data alone.
ConvertTo(t, b, s) ==
  /\ Ready(t)
  /\ b \in live
  /\ CanReplaceData(b)
  /\ data[b] # NoData
  /\ data' = [data EXCEPT ![b] = s]
  /\ UNCHANGED <<live, batchId, state, taskCreated, processing, cv, handle,
                 notifying, grant, movers>>

TryToCreateTask(t, b) ==
  /\ Ready(t)
  /\ b \in live
  /\ CanCreateTask(b)
  /\ taskCreated[b] < MaxTasks
  /\ taskCreated' = [taskCreated EXCEPT ![b] = @ + 1]
  /\ \/ state[b] = "idle" /\ MoveTo(t, b, "task_created")
     \/ state[b] # "idle" /\ UNCHANGED <<state, notifying>>
  /\ UNCHANGED <<live, batchId, data, processing, cv, handle, grant, movers>>

TryToCancelTask(t, b) ==
  /\ Ready(t)
  /\ b \in live
  /\ CanCancelTask(b)
  /\ taskCreated' = [taskCreated EXCEPT ![b] = @ - 1]
  /\ \/ LastTaskGone(b) /\ MoveTo(t, b, "idle")
     \/ ~LastTaskGone(b) /\ UNCHANGED <<state, notifying>>
  /\ UNCHANGED <<live, batchId, data, processing, cv, handle, grant, movers>>

\* The handle of the result ends up in the client's empty handle h.
TryToLockForProcessing(t, b, s, h) ==
  /\ Ready(t)
  /\ b \in live
  /\ handle[h] = NoBatch
  /\ CanLockForProcessing(b, s)
  /\ taskCreated' = [taskCreated EXCEPT ![b] = @ - 1]
  /\ processing' = [processing EXCEPT ![b] = @ + 1]
  /\ MoveTo(t, b, "processing")
  /\ handle' = [handle EXCEPT ![h] = b]
  /\ grant' = [grant EXCEPT ![h] = s]
  /\ UNCHANGED <<live, batchId, data, cv, movers>>

TryToLockForInTransit(t, b) ==
  /\ Ready(t)
  /\ b \in live
  /\ CanLockForInTransit(b)
  /\ MoveTo(t, b, "in_transit")
  /\ movers' = [movers EXCEPT ![b] = @ \cup {t}]
  /\ UNCHANGED <<live, batchId, data, taskCreated, processing, cv, handle, grant>>

\* Only a thread that was given the in-transit lock releases it (clients'
\* discipline: the code keeps no owner).
TryToReleaseInTransit(t, b, target) ==
  /\ Ready(t)
  /\ b \in live
  /\ t \in movers[b]
  /\ state[b] = "in_transit"
  /\ target \in ReleaseTargets(b)
  /\ MoveTo(t, b, target)
  /\ movers' = [movers EXCEPT ![b] = @ \ {t}]
  /\ UNCHANGED <<live, batchId, data, taskCreated, processing, cv, handle, grant>>

\* The state moves on only when the last handle goes.
DecrementProcessingCount_Quiet(t, b) ==
  /\ state[b] = "processing"
  /\ processing[b] > 0
  /\ processing' = [processing EXCEPT ![b] = @ - 1]
  /\ state' = [state EXCEPT ![b] = IF processing[b] = 1 THEN StateAfterProcessing(b) ELSE @]
  /\ UNCHANGED notifying

DecrementProcessingCount(t, b) ==
  /\ state[b] = "processing"
  /\ processing[b] > 0
  /\ processing' = [processing EXCEPT ![b] = @ - 1]
  /\ \/ processing[b] = 1 /\ MoveTo(t, b, StateAfterProcessing(b))
     \/ processing[b] # 1 /\ UNCHANGED <<state, notifying>>

\* release(), or the destructor of a handle that still has a batch.
HandleRelease(t, h) ==
  /\ Ready(t)
  /\ handle[h] # NoBatch
  /\ DecrementProcessingCount(t, handle[h])
  /\ handle' = [handle EXCEPT ![h] = NoBatch]
  /\ grant' = [grant EXCEPT ![h] = NoData]
  /\ UNCHANGED <<live, batchId, data, taskCreated, cv, movers>>

\* Moving a handle into an empty one (construction, or assignment).
HandleMoveInto_Copy(t, to, from) ==
  /\ Ready(t)
  /\ handle[to] = NoBatch
  /\ handle[from] # NoBatch
  /\ handle' = [handle EXCEPT ![to] = handle[from]]
  /\ grant' = [grant EXCEPT ![to] = grant[from]]
  /\ UNCHANGED <<live, batchId, data, state, taskCreated, processing, cv,
                 notifying, movers>>

HandleMoveInto(t, to, from) ==
  /\ Ready(t)
  /\ to # from
  /\ handle[to] = NoBatch
  /\ handle' = [handle EXCEPT ![to] = handle[from], ![from] = NoBatch]
  /\ grant' = [grant EXCEPT ![to] = grant[from], ![from] = NoData]
  /\ UNCHANGED <<live, batchId, data, state, taskCreated, processing, cv,
                 notifying, movers>>

\* Move assignment over a handle that has a batch releases that batch first.
HandleMoveOver(t, to, from) ==
  /\ Ready(t)
  /\ to # from
  /\ handle[to] # NoBatch
  /\ DecrementProcessingCount(t, handle[to])
  /\ handle' = [handle EXCEPT ![to] = handle[from], ![from] = NoBatch]
  /\ grant' = [grant EXCEPT ![to] = grant[from], ![from] = NoData]
  /\ UNCHANGED <<live, batchId, data, taskCreated, cv, movers>>

\* notify_all on the copied cv pointer, after the batch mutex was released.
NotifyAll(t) ==
  /\ notifying[t] # NoCv
  /\ notifying' = [notifying EXCEPT ![t] = NoCv]
  /\ UNCHANGED <<live, batchId, data, state, taskCreated, processing, cv,
                 handle, grant, movers>>

\* The move constructor takes _batch_id and _data before it looks at the
\* count: when it then throws, the data is destroyed with the half-built
\* object and the source keeps only its identifier.
MoveConstruct(t, from, to) ==
  /\ Ready(t)
  /\ from \in live /\ to \notin live
  /\ data' = IF processing[from] # 0
             THEN [data EXCEPT ![from] = NoData]
             ELSE [data EXCEPT ![from] = NoData, ![to] = data[from]]
  /\ batchId' = IF processing[from] # 0
                THEN batchId
                ELSE [batchId EXCEPT ![from] = NoBatch, ![to] = batchId[from]]
  /\ live' = IF processing[from] # 0 THEN live ELSE live \cup {to}
  /\ UNCHANGED <<state, taskCreated, processing, cv, handle, notifying, grant, movers>>

\* The move assignment checks the source only; the target keeps its own
\* state, counters and condition variable.
MoveAssign(t, from, to) ==
  /\ Ready(t)
  /\ from \in live /\ to \in live /\ from # to
  /\ processing[from] = 0
  /\ batchId' = [batchId EXCEPT ![from] = NoBatch, ![to] = batchId[from]]
  /\ data' = [data EXCEPT ![from] = NoData, ![to] = data[from]]
  /\ UNCHANGED <<live, state, taskCreated, processing, cv, handle, notifying, grant, movers>>

-----------------------------------------------------------------------------
(* What one thread can call.  Batches live behind smart pointers, and no   *)
(* code of the library moves one: the moves are in DataBatchMoves only.    *)

ClientStep(t) ==
  \/ \E b \in Batches :
       \/ \E d \in Spaces \cup {NoData} : Construct(t, b, d)
       \/ \E d \in Spaces \cup {NoData} : SetData(t, b, d)
       \/ \E s \in Spaces : ConvertTo(t, b, s)
       \/ TryToCreateTask(t, b)
       \/ TryToCancelTask(t, b)
       \/ \E s \in Spaces, h \in Handles : TryToLockForProcessing(t, b, s, h)
       \/ TryToLockForInTransit(t, b)
       \/ \E s \in BatchState : TryToReleaseInTransit(t, b, s)
  \/ \E h \in Handles : HandleRelease(t, h)
  \/ \E to \in Handles, from \in Handles :
       HandleMoveInto(t, to, from) \/ HandleMoveOver(t, to, from)

Next ==
  \E t \in Threads :
    \/ ClientStep(t)
    \/ \E b \in Batches, c \in Repos \cup {NoCv} : SetStateChangeCv(t, b, c)
    \/ NotifyAll(t)

Spec == Init /\ [][Next]_batchVars

-----------------------------------------------------------------------------
(* Properties.                                                             *)

HandlesOn(b) == {h \in Handles : handle[h] = b}

\* Every variable has its type; in particular no counter is ever decremented
\* below zero (they are size_t in the code and would wrap).
TypeOK ==
  /\ live \in SUBSET Batches
  /\ batchId \in [Batches -> Batches \cup {NoBatch}]
  /\ data \in [Batches -> Spaces \cup {NoData}]
  /\ state \in [Batches -> BatchState]
  /\ taskCreated \in [Batches -> Nat]
  /\ processing \in [Batches -> Nat]
  /\ cv \in [Batches -> Repos \cup {NoCv}]
  /\ handle \in [Handles -> Batches \cup {NoBatch}]
  /\ notifying \in [Threads -> Repos \cup {NoCv}]
  /\ grant \in [Handles -> Spaces \cup {NoData}]
  /\ movers \in [Batches -> SUBSET Threads]

\* The processing count is the number of handles that point at the batch,
\* through every grant, release and move of a handle.
HandlesCounted == \A b \in Batches : processing[b] = Cardinality(HandlesOn(b))

\* decrement_processing_count throws unless the batch is processing with a
\* positive count, and it is called from the destructor of a handle, where an
\* exception terminates the program: no live handle is ever in that position.
ReleaseNeverThrows ==
  \A h \in Handles : handle[h] # NoBatch =>
    state[handle[h]] = "processing" /\ processing[handle[h]] > 0

\* The in-transit lock is exclusive: one holder at most, only while the batch
\* is in_transit, and never while a processing handle points at the batch.
TransitExclusive ==
  \A b \in Batches :
    /\ \A t1, t2 \in movers[b] : t1 = t2
    /\ movers[b] # {} => state[b] = "in_transit"
    /\ state[b] = "in_transit" => HandlesOn(b) = {}

\* As long as a handle is live, the batch's data stays in the memory space
\* the handle was granted for: neither set_data nor convert_to may take the
\* data away from under it.
DataPinned ==
  \A h \in Handles : handle[h] # NoBatch => data[handle[h]] = grant[h]

\* The state machine provides a pin that excludes the mover: what DataBatch
\* does to handles and in-transit locks is what PinLock allows.
Pins == INSTANCE PinLock WITH pin <- handle, mover <- movers

ImplementsPinLock == Pins!PinSpec

\* docs/data_batch_state_transitions.md, "States": what each state says
\* about the counters.
StateMatchesCounts ==
  \A b \in Batches :
    /\ state[b] = "idle" => taskCreated[b] = 0 /\ processing[b] = 0
    /\ state[b] = "task_created" => taskCreated[b] > 0 /\ processing[b] = 0
    /\ state[b] = "processing" => processing[b] > 0
    /\ state[b] = "in_transit" => processing[b] = 0

ChangeOwesNotification ==
  \A b \in Batches : state'[b] # state[b] /\ cv[b] # NoCv =>
    \E t \in Threads : notifying[t] = NoCv /\ notifying'[t] = cv[b]

\* docs/data_batch_state_transitions.md, "Notifications": a call that changes
\* the state of a batch with a condition variable goes on to notify it.
StateChangeNotifies == [][ChangeOwesNotification]_batchVars

=============================================================================
