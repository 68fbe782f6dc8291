----------------------------- MODULE Conversion -----------------------------
(***************************************************************************)
(* representation_converter_registry and the built-in converters           *)
(* (src/data/representation_converter.cpp), on the spaces that Startup     *)
(* made: a table moves between GPU memory, where it is packed into one     *)
(* buffer, and the fixed-size blocks of host memory.                       *)
(*                                                                         *)
(* convert_to runs a conversion under the mutex of the batch, so one       *)
(* thread converts; others change the registry meanwhile.  A table of n    *)
(* bytes is the bytes 1..n; a byte that was never written is 0.  cudf's    *)
(* pack and unpack are taken to be inverse.  A conversion whose allocation *)
(* throws ends there.  A device is its number, as set by cudaSetDevice.    *)
(***************************************************************************)
EXTENDS Startup

CONSTANTS
  TableSizes,  \* sizes of packed tables
  ClientKeys   \* the keys that clients register and unregister one by one

ASSUME ConversionAssumption == TableSizes \subseteq Nat

VARIABLES
  converters,  \* the keys of _converters
  rep,         \* the representation the client has: space, size, its blocks
  conv,        \* the conversion under way
  device       \* the current CUDA device of the converting thread

convVars == <<converters, rep, conv, device>>
allVars == <<startVars, convVars>>

Type(i) == configs[i].tier

\* register_builtin_converters, in its order.
Builtin == << <<"GPU", "GPU">>, <<"GPU", "HOST">>, <<"HOST", "GPU">>, <<"HOST", "HOST">> >>

NoRep == [space |-> NoSpace, size |-> 0, block |-> 0, blocks |-> <<>>]
Idle == [at |-> "idle", dst |-> NoRep, caller |-> 0, copied |-> 0,
         srcBlock |-> 1, srcOff |-> 0, dstBlock |-> 1, dstOff |-> 0]

ConvInit ==
  /\ StartInit
  /\ converters = {}
  /\ rep = NoRep
  /\ conv = Idle
  /\ device = 0

-----------------------------------------------------------------------------
\* Blocks of the size b for n bytes, none for an empty table, with some bytes
\* written from the start.
Blocks(n, b, bytes) ==
  LET count == IF n = 0 THEN 0 ELSE (n + b - 1) \div b
      At(k) == IF k <= Len(bytes) THEN bytes[k] ELSE 0
  IN  [k \in 1..count |-> [o \in 1..b |-> At((k - 1) * b + o)]]

\* The block size of a representation in space i: a GPU buffer is one block.
BlockSize(i, n) == IF Type(i) = "GPU" THEN n ELSE configs[i].block_size

\* allocate_multiple_blocks, or a device buffer.
Allocated(i, n) ==
  [space |-> i, size |-> n, block |-> BlockSize(i, n), blocks |-> Blocks(n, BlockSize(i, n), <<>>)]

Written(r, block, off, bytes) ==
  LET old == r.blocks[block]
  IN  [r EXCEPT !.blocks[block] = [o \in DOMAIN old |->
         IF o \in (off + 1)..(off + Len(bytes)) THEN bytes[o - off] ELSE old[o]]]

\* The bytes of a table, block by block.
Content(r) == [k \in 1..r.size |-> r.blocks[((k - 1) \div r.block) + 1][((k - 1) % r.block) + 1]]

Smallest(S) == CHOOSE m \in S : \A k \in S : m <= k

\* Where an offset goes once it has reached the end of a block.
NextBlock_Stay(block, off, size) == block

NextBlock(block, off, size) == IF off = size THEN block + 1 ELSE block

NextOff(off, size) == IF off = size THEN 0 ELSE off

-----------------------------------------------------------------------------
(* The registry.  The client fills it once its manager runs.               *)

RegisterConverter(k) ==
  /\ phase = "running"
  /\ k \notin converters
  /\ converters' = converters \cup {k}
  /\ UNCHANGED <<startVars, rep, conv, device>>

\* The first key that is there already throws; the ones before it stay.
RegisterBuiltin ==
  LET fresh == {n \in 0..4 : \A i \in 1..n : Builtin[i] \notin converters}
      n == CHOOSE m \in fresh : \A k \in fresh : k <= m
  IN  /\ phase = "running"
      /\ n > 0
      /\ converters' = converters \cup {Builtin[i] : i \in 1..n}
      /\ UNCHANGED <<startVars, rep, conv, device>>

UnregisterConverter(k) ==
  /\ k \in converters
  /\ converters' = converters \ {k}
  /\ UNCHANGED <<startVars, rep, conv, device>>

Clear ==
  /\ converters # {}
  /\ converters' = {}
  /\ UNCHANGED <<startVars, rep, conv, device>>

-----------------------------------------------------------------------------
(* Conversions.                                                            *)

\* A table that the client made on space i.
NewTable(i, n) ==
  /\ phase = "running"
  /\ rep = NoRep
  /\ Type(i) \in {"GPU", "HOST"}
  /\ rep' = [Allocated(i, n) EXCEPT !.blocks = Blocks(n, BlockSize(i, n), [k \in 1..n |-> k])]
  /\ UNCHANGED <<startVars, converters, conv, device>>

\* The client switches devices between its calls.
UseDevice(d) ==
  /\ conv.at = "idle" /\ rep # NoRep
  /\ device' = d
  /\ UNCHANGED <<startVars, converters, rep, conv>>

\* convert: the converter is copied out of the registry and then runs.  Both
\* same-type converters assert that the device ids differ.  The converters to
\* a GPU allocate with the device of the target current.
Convert(i) ==
  /\ conv.at = "idle" /\ rep # NoRep
  /\ Type(i) \in {"GPU", "HOST"}
  /\ <<Type(rep.space), Type(i)>> \in converters
  /\ Type(i) = Type(rep.space) => configs[i].id # configs[rep.space].id
  /\ conv' = [Idle EXCEPT !.at = "allocate", !.dst = [NoRep EXCEPT !.space = i], !.caller = device]
  /\ device' = IF Type(i) = "GPU" THEN configs[i].id ELSE device
  /\ UNCHANGED <<startVars, converters, rep>>

\* A converter to a GPU allocates the buffer, and after the copy the table that
\* is unpacked from it.  When either throws, nothing restores the device.
AllocationThrows ==
  /\ \/ conv.at = "allocate"
     \/ conv.at = "copy" /\ conv.copied = rep.size /\ Type(conv.dst.space) = "GPU"
  /\ conv' = Idle
  /\ UNCHANGED <<startVars, converters, rep, device>>

AllocationSucceeds ==
  /\ conv.at = "allocate"
  /\ conv' = [conv EXCEPT !.at = "copy", !.dst = Allocated(conv.dst.space, rep.size)]
  /\ UNCHANGED <<startVars, converters, rep, device>>

Copying(source, target) ==
  /\ conv.at = "copy"
  /\ Type(rep.space) = source /\ Type(conv.dst.space) = target
  /\ conv.copied < rep.size

\* One turn of a copy loop: as much as is left of the table, of the source
\* block and of the target block.
CopyTurn ==
  LET n == Smallest({rep.size - conv.copied, rep.block - conv.srcOff, conv.dst.block - conv.dstOff})
      bytes == SubSeq(rep.blocks[conv.srcBlock], conv.srcOff + 1, conv.srcOff + n)
  IN  /\ conv' = [conv EXCEPT
           !.dst = Written(conv.dst, conv.dstBlock, conv.dstOff, bytes),
           !.copied = conv.copied + n,
           !.srcBlock = NextBlock(conv.srcBlock, conv.srcOff + n, rep.block),
           !.srcOff = NextOff(conv.srcOff + n, rep.block),
           !.dstBlock = NextBlock(conv.dstBlock, conv.dstOff + n, conv.dst.block),
           !.dstOff = NextOff(conv.dstOff + n, conv.dst.block)]
      /\ UNCHANGED <<startVars, converters, rep, device>>

ConvertGpuToHost == Copying("GPU", "HOST") /\ CopyTurn

ConvertHostToGpu == Copying("HOST", "GPU") /\ CopyTurn

ConvertHostToHost == Copying("HOST", "HOST") /\ CopyTurn

\* A single peer copy.  The device of the source is current meanwhile, and that
\* of the target again afterwards.
ConvertGpuToGpu ==
  /\ Copying("GPU", "GPU")
  /\ conv' = [conv EXCEPT !.dst.blocks = rep.blocks, !.copied = rep.size]
  /\ UNCHANGED <<startVars, converters, rep, device>>

\* The device a converter leaves behind: its caller's, but the source's after
\* a copy between GPUs.
RestoredDevice_Never(source, target) == device

RestoredDevice(source, target) ==
  CASE target = "HOST" -> device
    [] source = "HOST" -> conv.caller
    [] OTHER           -> configs[rep.space].id

\* convert_to replaces the representation of the batch.
ConversionReturns ==
  /\ conv.at = "copy"
  /\ conv.copied = rep.size
  /\ rep' = conv.dst
  /\ device' = RestoredDevice(Type(rep.space), Type(conv.dst.space))
  /\ conv' = Idle
  /\ UNCHANGED <<startVars, converters>>

ConvNext ==
  \/ \E k \in ClientKeys : RegisterConverter(k) \/ UnregisterConverter(k)
  \/ RegisterBuiltin
  \/ Clear
  \/ \E i \in DOMAIN configs : (\E n \in TableSizes : NewTable(i, n)) \/ Convert(i)
  \/ \E d \in 0..1 : UseDevice(d)
  \/ AllocationThrows \/ AllocationSucceeds
  \/ ConvertGpuToHost \/ ConvertHostToGpu \/ ConvertHostToHost \/ ConvertGpuToGpu
  \/ ConversionReturns

Next == (StartNext /\ UNCHANGED convVars) \/ ConvNext

Spec == ConvInit /\ [][Next]_allVars

-----------------------------------------------------------------------------
(* Properties.                                                             *)

\* Whatever conversions a table goes through, between whatever block sizes and
\* with whatever failures on the way, its bytes stay what they were.
TableUnchanged == Content(rep) = [k \in 1..rep.size |-> k]

\* A conversion that succeeds leaves the caller's device current.  A copy between
\* GPUs leaves the device of the source, whatever the caller's was; the comment on
\* it, "Restore previous device" (representation_converter.cpp, line 157), is true
\* only for callers that were on that device.
DeviceRestored ==
  [][rep # NoRep /\ rep' # rep =>
       \/ device' = conv.caller
       \/ /\ Type(rep.space) = "GPU" /\ Type(rep'.space) = "GPU"
          /\ device' = configs[rep.space].id /\ device' # conv.caller]_allVars

=============================================================================
