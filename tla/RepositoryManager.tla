-------------------------- MODULE RepositoryManager --------------------------
(***************************************************************************)
(* data_repository_manager (include/data/data_repository_manager.hpp) over *)
(* the repositories it owns.  A repository is identified with the          *)
(* operator-port key it is registered under: a key gets one repository,    *)
(* and a second registration throws.  add_data_batch holds the manager's   *)
(* _mutex while it adds the batch to one repository after the other, each  *)
(* under that repository's own mutex.  For unique_ptr batches the list has *)
(* exactly one key (anything else throws); for shared_ptr it is any list.  *)
(*                                                                         *)
(* In this composition batches reach repositories only through the         *)
(* manager.  get_repository reads the map without the mutex: clients       *)
(* register a repository before any thread looks it up.                    *)
(***************************************************************************)
EXTENDS DataRepository

VARIABLES
  registered,  \* the keys of _repositories
  mlock,       \* the thread that holds the manager's _mutex, or NoThread
  fan          \* per thread: the batch it is adding and the keys still to do

managerVars == <<registered, mlock, fan>>
allVars == <<vars, managerVars>>

NoFan == [batch |-> NoBatch, ops |-> <<>>]

ManagerInit ==
  /\ RepoInit
  /\ registered = {}
  /\ mlock = NoThread
  /\ fan = [t \in Threads |-> NoFan]

-----------------------------------------------------------------------------
Adding(t) == mlock = t

\* Bound: a batch is stored at most once in a repository, so it is not added
\* twice by one call, nor to a repository that has it.
OpLists(b) ==
  {ops \in UNION {[1..n -> {r \in registered : b \notin Stored(r)}] : n \in 0..Cardinality(Repos)} :
     IsInjective(ops)}

AddNewRepository(t, r) ==
  /\ Free(t)
  /\ mlock = NoThread
  /\ r \notin registered
  /\ registered' = registered \cup {r}
  /\ UNCHANGED <<vars, mlock, fan>>

ManagerAddDataBatch(t, b, ops) ==
  /\ Free(t)
  /\ mlock = NoThread
  /\ mlock' = t
  /\ fan' = [fan EXCEPT ![t] = [batch |-> b, ops |-> ops]]
  /\ UNCHANGED <<vars, registered>>

\* One turn of the loop of add_data_batch_impl, to the first partition.
AddToNext(t) ==
  /\ Adding(t)
  /\ fan[t].ops # <<>>
  /\ AddDataBatch(t, fan[t].batch, Head(fan[t].ops), 1)
  /\ fan' = [fan EXCEPT ![t].ops = Tail(@)]
  /\ UNCHANGED <<registered, mlock>>

AddReturns_KeepLock(t) ==
  /\ Adding(t)
  /\ Ready(t)
  /\ fan[t].ops = <<>>
  /\ fan' = [fan EXCEPT ![t] = NoFan]
  /\ UNCHANGED <<vars, registered, mlock>>

AddReturns(t) ==
  /\ Adding(t)
  /\ Ready(t)
  /\ fan[t].ops = <<>>
  /\ mlock' = NoThread
  /\ fan' = [fan EXCEPT ![t] = NoFan]
  /\ UNCHANGED <<vars, registered>>

\* get_repository, and one call of the repository it returns.
UseRepository(t) ==
  /\ ~Adding(t)
  /\ UNCHANGED managerVars
  /\ \E r \in registered, b \in Batches :
       \/ NotifyStateChange(t, r)
       \/ PopByIdNow(t, r, 1, b)
       \/ \E target \in Targets :
            \/ BeginSearch(t, Search("pop_data_batch", r, 1, target, NoBatch))
            \/ BeginSearch(t, Search("pop_data_batch_by_id", r, 1, target, b))
            \/ BeginSearch(t, Search("get_data_batch_by_id", r, 1, target, b))

UseBatch(t) == ~Adding(t) /\ BatchClient(t) /\ UNCHANGED managerVars

Advance(t) == Progress(t) /\ UNCHANGED managerVars

Spurious(t) == SpuriousWakeup(t) /\ UNCHANGED managerVars

ManagerNext ==
  \E t \in Threads :
    \/ \E r \in Repos : ~Adding(t) /\ AddNewRepository(t, r)
    \/ \E b \in Batches : \E ops \in OpLists(b) : ManagerAddDataBatch(t, b, ops)
    \/ AddToNext(t) \/ AddReturns(t)
    \/ UseRepository(t) \/ UseBatch(t)
    \/ Advance(t) \/ Spurious(t)

\* A thread that is not blocked goes on running.
ManagerSpec ==
  /\ ManagerInit /\ [][ManagerNext]_allVars
  /\ \A t \in Threads : WF_allVars(Advance(t)) /\ WF_allVars(AddToNext(t) \/ AddReturns(t))

-----------------------------------------------------------------------------
(* Properties.                                                             *)

\* add_data_batch of the manager takes a repository's mutex while it holds its
\* own.  Unless searches take repository mutexes for ever (no mutex promises
\* to be fair), it ends and lets the next add in: no search ever waits for the
\* manager, or sleeps with the mutex of its repository held.
AddReturnsUnlessStarved ==
  <>[][\A r \in Repos : ~(lock[r] = NoThread /\ lock'[r] # NoThread)]_allVars
    => \A t \in Threads : mlock = t ~> mlock # t

=============================================================================
