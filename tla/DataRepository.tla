--------------------------- MODULE DataRepository ---------------------------
(***************************************************************************)
(* idata_repository (include/data/data_repository.hpp,                     *)
(* src/data/data_repository.cpp) composed with the batches it stores.      *)
(*                                                                         *)
(* A repository is identified with its condition variable _cv.  Its _mutex *)
(* is held over a whole scan, and every batch is examined under the        *)
(* batch's own mutex, so a scan is one step per batch: between two of them *)
(* other threads change the state of batches.  The decision to wait and    *)
(* _cv.wait are two steps for the same reason.  A call that returns        *)
(* nullptr or throws without having waited changes nothing and is no step. *)
(***************************************************************************)
EXTENDS DataBatch, Sequences, SequencesExt

CONSTANTS
  MaxPartitions, \* bound on the number of partitions
  Targets,       \* target states that clients pass to the pops
  NoThread

ASSUME RepositoryAssumption ==
  /\ MaxPartitions \in Nat \ {0}
  /\ Targets \subseteq {"idle", "task_created", "in_transit"}
  /\ NoThread \notin Threads

VARIABLES
  parts,  \* _data_batches: per repository, a sequence of partitions
  lock,   \* the thread that holds _mutex of a repository, or NoThread
  call    \* the repository call every thread is in

repoVars == <<parts, lock, call>>
vars == <<batchVars, repoVars>>

Op == {"pop_data_batch", "pop_data_batch_by_id", "get_data_batch_by_id"}

\* at: where the call is; i: the batch under examination; got: the batch the
\* call returns.  History: seen, the batches this pass has examined; late, the
\* batches that were ready again by the time it went to sleep.
NoCall == [at |-> "ready", op |-> "pop_data_batch", repo |-> NoCv, part |-> 1,
           target |-> "idle", id |-> NoBatch, i |-> 1, got |-> NoBatch,
           seen |-> {}, late |-> {}]

\* Batches are constructed with data before they reach a repository, and the
\* default constructor of a repository makes one empty partition.
RepoInit ==
  /\ live = Batches
  /\ batchId = [b \in Batches |-> b]
  /\ data \in [Batches -> Spaces]
  /\ state = [b \in Batches |-> "idle"]
  /\ taskCreated = [b \in Batches |-> 0]
  /\ processing = [b \in Batches |-> 0]
  /\ cv = [b \in Batches |-> NoCv]
  /\ handle = [h \in Handles |-> NoBatch]
  /\ notifying = [t \in Threads |-> NoCv]
  /\ grant = [h \in Handles |-> NoData]
  /\ movers = [b \in Batches |-> {}]
  /\ parts = [r \in Repos |-> << <<>> >>]
  /\ lock = [r \in Repos |-> NoThread]
  /\ call = [t \in Threads |-> NoCall]

-----------------------------------------------------------------------------
At(t, where) == call[t].at = where

Free(t) == At(t, "ready") /\ Ready(t)

Partition(c) == parts[c.repo][c.part]

\* The positions that the search of a call looks at.
Candidates(c) ==
  {i \in DOMAIN Partition(c) : c.op = "pop_data_batch" \/ batchId[Partition(c)[i]] = c.id}

\* The batches at these positions.
Wanted(c) == {Partition(c)[i] : i \in Candidates(c)}

First(c) == CHOOSE i \in Candidates(c) : \A j \in Candidates(c) : i <= j

\* Whether try_transition_batch_for_pop would succeed.
Eligible(b, target) ==
  \/ target = "task_created" /\ CanCreateTask(b)
  \/ target = "in_transit" /\ CanLockForInTransit(b)

TryTransitionBatchForPop(t, b, target) ==
  \/ target = "task_created" /\ TryToCreateTask(t, b)
  \/ target = "in_transit" /\ TryToLockForInTransit(t, b)

\* Bound: every call under way that creates a task still finds room for it.
RoomForTask ==
  \A b \in Batches :
    taskCreated[b] + Cardinality({t \in Threads : ~At(t, "ready") /\ call[t].target = "task_created"})
      < MaxTasks

Stored(r) == UNION {Range(parts[r][p]) : p \in DOMAIN parts[r]}

Erased(c, i) == [parts EXCEPT ![c.repo][c.part] = RemoveAt(@, i)]

-----------------------------------------------------------------------------
\* The vector is resized to hold the partition.
Resized(ps, p) == [q \in 1..(IF p > Len(ps) THEN p ELSE Len(ps)) |->
                     IF q <= Len(ps) THEN ps[q] ELSE <<>>]

Added(ps, p, b) == [Resized(ps, p) EXCEPT ![p] = Append(@, b)]

\* Bound: a batch is stored at most once in a repository (it may be stored in
\* several).
AddDataBatch_Quiet(t, b, r, p) ==
  /\ Free(t)
  /\ lock[r] = NoThread
  /\ b \notin Stored(r)
  /\ cv' = [cv EXCEPT ![b] = r]
  /\ parts' = [parts EXCEPT ![r] = Added(@, p, b)]
  /\ UNCHANGED <<live, batchId, data, state, taskCreated, processing, handle,
                 notifying, grant, movers, lock, call>>

AddDataBatch_NoCv(t, b, r, p) ==
  /\ Free(t)
  /\ lock[r] = NoThread
  /\ b \notin Stored(r)
  /\ parts' = [parts EXCEPT ![r] = Added(@, p, b)]
  /\ notifying' = [notifying EXCEPT ![t] = r]
  /\ UNCHANGED <<live, batchId, data, state, taskCreated, processing, cv, handle,
                 grant, movers, lock, call>>

AddDataBatch(t, b, r, p) ==
  /\ Free(t)
  /\ lock[r] = NoThread
  /\ b \notin Stored(r)
  /\ cv' = [cv EXCEPT ![b] = r]
  /\ parts' = [parts EXCEPT ![r] = Added(@, p, b)]
  /\ notifying' = [notifying EXCEPT ![t] = r]
  /\ UNCHANGED <<live, batchId, data, state, taskCreated, processing, handle,
                 grant, movers, lock, call>>

NotifyStateChange(t, r) ==
  /\ Free(t)
  /\ notifying' = [notifying EXCEPT ![t] = r]
  /\ UNCHANGED <<live, batchId, data, state, taskCreated, processing, cv, handle,
                 grant, movers, repoVars>>

\* Entering a search: the mutex is taken, the partition exists, and there is
\* something to examine.
BeginSearch(t, c) ==
  /\ Free(t)
  /\ lock[c.repo] = NoThread
  /\ c.part \in DOMAIN parts[c.repo]
  /\ Candidates(c) # {}
  /\ c.target = "task_created" => RoomForTask
  /\ lock' = [lock EXCEPT ![c.repo] = t]
  /\ call' = [call EXCEPT ![t] = [c EXCEPT !.at = "scan", !.i = First(c)]]
  /\ UNCHANGED <<batchVars, parts>>

\* pop_data_batch_by_id without a target state.
PopByIdNow(t, r, p, id) ==
  LET c == [NoCall EXCEPT !.op = "pop_data_batch_by_id", !.repo = r, !.part = p, !.id = id]
  IN  /\ Free(t)
      /\ lock[r] = NoThread
      /\ p \in DOMAIN parts[r]
      /\ Candidates(c) # {}
      /\ parts' = Erased(c, First(c))
      /\ UNCHANGED <<batchVars, lock, call>>

\* The batch under examination makes the transition: a pop erases it, a get
\* copies the pointer.
ScanHit_WrongIndex(t) ==
  LET c == call[t]
      b == Partition(c)[c.i]
  IN  /\ At(t, "scan")
      /\ TryTransitionBatchForPop(t, b, c.target)
      /\ parts' = IF c.op = "get_data_batch_by_id" THEN parts ELSE Erased(c, 1)
      /\ call' = [call EXCEPT ![t].at = "return", ![t].got = b]
      /\ UNCHANGED lock

ScanHit_NoTransition(t) ==
  LET c == call[t]
      b == Partition(c)[c.i]
  IN  /\ At(t, "scan")
      /\ Eligible(b, c.target)
      /\ parts' = IF c.op = "get_data_batch_by_id" THEN parts ELSE Erased(c, c.i)
      /\ call' = [call EXCEPT ![t].at = "return", ![t].got = b]
      /\ UNCHANGED <<batchVars, lock>>

ScanHit(t) ==
  LET c == call[t]
      b == Partition(c)[c.i]
  IN  /\ At(t, "scan")
      /\ TryTransitionBatchForPop(t, b, c.target)
      /\ parts' = IF c.op = "get_data_batch_by_id" THEN parts ELSE Erased(c, c.i)
      /\ call' = [call EXCEPT ![t].at = "return", ![t].got = b]
      /\ UNCHANGED lock

\* It does not: the search goes on, or makes up its mind to wait.
ScanMiss(t) ==
  LET c == call[t]
      b == Partition(c)[c.i]
      later == {j \in Candidates(c) : j > c.i}
  IN  /\ At(t, "scan")
      /\ ~Eligible(b, c.target)
      /\ call' = [call EXCEPT ![t].seen = @ \cup {b},
                              ![t].at = IF later = {} THEN "block" ELSE "scan",
                              ![t].i = IF later = {} THEN @ ELSE @ + 1]
      /\ UNCHANGED <<batchVars, lock, parts>>

\* _cv.wait: releases the mutex and goes to sleep in one step.
Wait(t) ==
  /\ At(t, "block")
  /\ lock' = [lock EXCEPT ![call[t].repo] = NoThread]
  /\ call' = [call EXCEPT ![t].at = "wait",
                          ![t].late = {b \in Wanted(call[t]) : Eligible(b, call[t].target)}]
  /\ UNCHANGED <<batchVars, parts>>

\* A woken thread takes the mutex again and goes round the loop: with nothing
\* left to examine it returns nullptr.
Rescan(t) ==
  LET c == call[t]
  IN  /\ At(t, "woken")
      /\ lock[c.repo] = NoThread
      /\ \/ /\ Candidates(c) = {}
            /\ call' = [call EXCEPT ![t] = NoCall]
            /\ UNCHANGED lock
         \/ /\ Candidates(c) # {}
            /\ lock' = [lock EXCEPT ![c.repo] = t]
            /\ call' = [call EXCEPT ![t] = [c EXCEPT !.at = "scan", !.i = First(c),
                                                      !.seen = {}, !.late = {}]]
      /\ UNCHANGED <<batchVars, parts>>

\* The batch operation has sent its notification (still under the mutex); the
\* call erases, unlocks and returns.
Return_KeepLock(t) ==
  /\ At(t, "return")
  /\ Ready(t)
  /\ call' = [call EXCEPT ![t] = NoCall]
  /\ UNCHANGED <<batchVars, lock, parts>>

Return(t) ==
  /\ At(t, "return")
  /\ Ready(t)
  /\ lock' = [lock EXCEPT ![call[t].repo] = NoThread]
  /\ call' = [call EXCEPT ![t] = NoCall]
  /\ UNCHANGED <<batchVars, parts>>

\* notify_all wakes the threads that wait at this moment, and no other.
Notify(t) ==
  /\ NotifyAll(t)
  /\ call' = [w \in Threads |->
                IF At(w, "wait") /\ call[w].repo = notifying[t]
                THEN [call[w] EXCEPT !.at = "woken"] ELSE call[w]]
  /\ UNCHANGED <<parts, lock>>

\* A condition variable may also wake a thread for no reason.
SpuriousWakeup(t) ==
  /\ At(t, "wait")
  /\ call' = [call EXCEPT ![t].at = "woken"]
  /\ UNCHANGED <<batchVars, parts, lock>>

-----------------------------------------------------------------------------
(* What clients do with a batch they have a pointer to.  Replacing the     *)
(* data of a batch concerns no repository and is left to DataBatch.        *)
BatchClient(t) ==
  /\ At(t, "ready")
  /\ UNCHANGED repoVars
  /\ \/ \E b \in Batches :
          \/ RoomForTask /\ TryToCreateTask(t, b)
          \/ TryToCancelTask(t, b)
          \/ \E s \in Spaces, h \in Handles : TryToLockForProcessing(t, b, s, h)
          \/ TryToLockForInTransit(t, b)
          \/ \E s \in BatchState : TryToReleaseInTransit(t, b, s)
     \/ \E h \in Handles : HandleRelease(t, h)

Search(op, r, p, target, id) ==
  [NoCall EXCEPT !.op = op, !.repo = r, !.part = p, !.target = target, !.id = id]

RepoClient(t) ==
  \E r \in Repos, p \in 1..MaxPartitions :
    \/ NotifyStateChange(t, r)
    \/ \E b \in Batches : AddDataBatch(t, b, r, p)
    \/ \E target \in Targets :
         BeginSearch(t, Search("pop_data_batch", r, p, target, NoBatch))
    \/ \E b \in Batches : PopByIdNow(t, r, p, b)
    \/ \E b \in Batches, target \in Targets,
          op \in {"pop_data_batch_by_id", "get_data_batch_by_id"} :
         BeginSearch(t, Search(op, r, p, target, b))

\* The steps a call takes by itself once it is under way.
Progress(t) == ScanHit(t) \/ ScanMiss(t) \/ Wait(t) \/ Rescan(t) \/ Return(t) \/ Notify(t)

RepoNext ==
  \E t \in Threads : BatchClient(t) \/ RepoClient(t) \/ Progress(t) \/ SpuriousWakeup(t)

RepoSpec == RepoInit /\ [][RepoNext]_vars

\* A thread that is not blocked goes on running.
FairRepoSpec == RepoSpec /\ \A t \in Threads : WF_vars(Progress(t))

-----------------------------------------------------------------------------
(* Properties.                                                             *)

\* Types of the repository's variables; a thread that scans or is about to
\* wait or return is the holder of the mutex, and nobody else is.
RepoTypeOK ==
  /\ TypeOK
  /\ parts \in [Repos -> Seq(Seq(Batches))]
  /\ lock \in [Repos -> Threads \cup {NoThread}]
  /\ \A t \in Threads : call[t].at \in {"ready", "scan", "block", "wait", "woken", "return"}
  /\ \A r \in Repos, t \in Threads :
       lock[r] = t <=> call[t].repo = r /\ call[t].at \in {"scan", "block", "return"}

\* A batch is never stored twice, and a batch that a pop is about to return is
\* no longer stored: no two pops of a repository return the same batch.
PopsDisjoint ==
  \A r \in Repos :
    /\ \A p, q \in DOMAIN parts[r] : \A i \in DOMAIN parts[r][p], j \in DOMAIN parts[r][q] :
         parts[r][p][i] = parts[r][q][j] => p = q /\ i = j
    /\ \A t \in Threads :
         At(t, "return") /\ call[t].repo = r /\ call[t].op # "get_data_batch_by_id" =>
           call[t].got \notin Stored(r)

\* A call that returns a batch for in_transit gives its caller the exclusive
\* in-transit lock, even when the batch is shared by several repositories.
TransitPopIsExclusive ==
  \A t \in Threads :
    At(t, "return") /\ call[t].target = "in_transit" =>
      movers[call[t].got] = {t} /\ state[call[t].got] = "in_transit"

\* A batch added while a pop scans or sleeps is never missed: a sleeping pop
\* has examined every batch of its partition, unless a notification of its
\* condition variable is on the way.
AddNeverMissed ==
  \A t \in Threads :
    At(t, "wait") /\ call[t].op = "pop_data_batch" =>
      \/ Range(Partition(call[t])) \subseteq call[t].seen
      \/ \E x \in Threads : notifying[x] = call[t].repo

\* The mutex of a repository is always released again, however batches change
\* while it is held.
MutexReleased ==
  \A t \in Threads, r \in Repos : lock[r] = t ~> lock[r] # t

\* A sleeping call is told of a batch that it could take: whatever makes a batch
\* of its partition ready after it went to sleep (a release, a cancelled task, the
\* end of a transit, an add) is followed by a notification of its condition
\* variable.  A call is left asleep only over a batch that got ready in the window
\* between its examination and the sleep (late), or one whose notifications a
\* later add sends to another repository.
SleeperHears ==
  \A t \in Threads : At(t, "wait") =>
    \A b \in Wanted(call[t]) \ call[t].late :
      Eligible(b, call[t].target) /\ cv[b] \in {call[t].repo, NoCv} =>
        \E x \in Threads : notifying[x] = call[t].repo

\* include/data/data_repository.hpp, lines 171 and 172: a pop by id "blocks
\* until either" the batch "can successfully transition to the target state".
PopByIdUnblocks ==
  \A t \in Threads, b \in Batches :
    LET blocked == /\ At(t, "wait")
                   /\ call[t].op = "pop_data_batch_by_id" /\ call[t].id = b
                   /\ Candidates(call[t]) # {}
                   /\ Eligible(b, call[t].target)
    IN  blocked ~> ~blocked

=============================================================================
