------------------------------ MODULE PinLock ------------------------------
(***************************************************************************)
(* What the state machine of a data_batch promises its clients: a pin held *)
(* by processing handles and an exclusive lock held by a mover, which      *)
(* exclude each other.  States, counters, tasks and notifications are how  *)
(* data_batch provides it (module DataBatch).                              *)
(***************************************************************************)
CONSTANTS Batches, Handles, Threads, NoBatch

VARIABLES
  pin,    \* the batch every handle pins, or NoBatch
  mover   \* the threads that move a batch: none or one

pinVars == <<pin, mover>>

PinInit ==
  /\ pin = [h \in Handles |-> NoBatch]
  /\ mover = [b \in Batches |-> {}]

Pinned(b) == \E h \in Handles : pin[h] = b

\* A batch is pinned only while nobody moves it.
Pin(h, b) ==
  /\ pin[h] = NoBatch
  /\ mover[b] = {}
  /\ pin' = [pin EXCEPT ![h] = b]
  /\ UNCHANGED mover

\* A pin passes to another handle, which gives up the pin it had.
PassPin(to, from) ==
  /\ to # from
  /\ pin' = [pin EXCEPT ![to] = pin[from], ![from] = NoBatch]
  /\ UNCHANGED mover

Unpin(h) ==
  /\ pin[h] # NoBatch
  /\ pin' = [pin EXCEPT ![h] = NoBatch]
  /\ UNCHANGED mover

\* A mover takes a batch that nobody pins and nobody moves.
StartMove(t, b) ==
  /\ mover[b] = {}
  /\ ~Pinned(b)
  /\ mover' = [mover EXCEPT ![b] = {t}]
  /\ UNCHANGED pin

EndMove(t, b) ==
  /\ mover[b] = {t}
  /\ mover' = [mover EXCEPT ![b] = {}]
  /\ UNCHANGED pin

PinNext ==
  \/ \E h \in Handles, b \in Batches : Pin(h, b)
  \/ \E to \in Handles, from \in Handles : PassPin(to, from)
  \/ \E h \in Handles : Unpin(h)
  \/ \E t \in Threads, b \in Batches : StartMove(t, b) \/ EndMove(t, b)

PinSpec == PinInit /\ [][PinNext]_pinVars

=============================================================================
