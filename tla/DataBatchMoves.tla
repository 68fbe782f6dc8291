--------------------------- MODULE DataBatchMoves ---------------------------
(***************************************************************************)
(* DataBatch with its moves: the move constructor and the move assignment  *)
(* of data_batch, which the interface leaves public although no code of    *)
(* the library calls them on a shared batch.  The history variable "moved" *)
(* remembers the batches that took part in a move, from the first one on.  *)
(***************************************************************************)
EXTENDS DataBatch

VARIABLE moved

movesVars == <<batchVars, moved>>

MovesInit == Init /\ moved = {}

Stay == Next /\ UNCHANGED moved

Moving(t, from, to) ==
  /\ MoveConstruct(t, from, to) \/ MoveAssign(t, from, to)
  /\ moved' = moved \cup {from, to}

MovesNext ==
  \/ Stay
  \/ \E t \in Threads, from \in Batches, to \in Batches : Moving(t, from, to)

MovesSpec == MovesInit /\ [][MovesNext]_movesVars

-----------------------------------------------------------------------------
\* The data a live handle was granted stays where it was granted for as long
\* as its batch is not moved.  The exception is needed: the throwing move
\* constructor has already taken the data away from the handles it found, and
\* the move assignment replaces the data of its target without a look at the
\* target's handles.
PinnedUntilMoved ==
  \A h \in Handles : handle[h] \in Batches \ moved => data[handle[h]] = grant[h]

=============================================================================
