---------------------------- MODULE MCConversion ----------------------------
(* A small instance of Startup and Conversion for TLC. *)
EXTENDS Conversion

Gpu(numa, pci) ==
  [handle |-> TRUE, pciInfo |-> TRUE, numa |-> numa, pci |-> pci, cpus |-> <<<<0, 2>>, <<4, 4>>>>,
   memory |-> 8]

\* Healthy GPUs, GPUs without NUMA information, and GPUs that NVML hides.
MCGpus ==
  {Gpu(0, 1), Gpu(1, 20), Gpu(NoFile, NoBus), Gpu(Garbage, 1),
   [Gpu(0, 1) EXCEPT !.handle = FALSE], [Gpu(0, 1) EXCEPT !.pciInfo = FALSE]}

MCNics ==
  {[numa |-> 0, pci |-> 2], [numa |-> 0, pci |-> 8], [numa |-> 1, pci |-> 3], [numa |-> 1, pci |-> 40],
   [numa |-> NoFile, pci |-> NoPci], [numa |-> -1, pci |-> NoBus], [numa |-> Garbage, pci |-> 2]}

MCPartners == {[numa |-> 0, pci |-> 8], [numa |-> 1, pci |-> 3]}

MCMachine(nvml, gpus, nics) ==
  [nvml |-> nvml, gpus |-> gpus, nics |-> nics, drives |-> nics, nodes |-> <<TRUE, FALSE, TRUE>>]

TwoGpus == <<Gpu(0, 1), Gpu(1, 20)>>
SameNode == <<Gpu(0, 1), Gpu(0, 20)>>

MCMachines ==
  {MCMachine("ok", <<g>>, nics) : g \in MCGpus, nics \in {<<n, o>> : n \in MCNics, o \in MCPartners}}
    \cup {MCMachine("ok", gpus, nics) :
            gpus \in {TwoGpus, SameNode, <<Gpu(NoFile, 1), Gpu(0, 2)>>,
                      <<[Gpu(0, 1) EXCEPT !.handle = FALSE], Gpu(1, 20)>>},
            nics \in {<<>>} \cup {<<n>> : n \in MCPartners}}
    \cup {MCMachine(nvml, TwoGpus, <<>>) : nvml \in {"missing", "init_fails", "count_fails"}}

Half == Fraction(1, 2)

MCBuilder ==
  [num_gpus |-> 1, gpu_capacity |-> Bytes(4), gpu_reservation |-> Fraction(3, 4),
   gpu_downgrade |-> [start |-> Fraction(3, 4), stop |-> Half],
   host_policy |-> "numa", host_capacity |-> 8, per_space |-> TRUE,
   cpu_reservation |-> Fraction(3, 4), host_downgrade |-> [start |-> Fraction(3, 4), stop |-> Half],
   chunk_size |-> 2, disks |-> <<>>]

MCUsages == {Half}
MCGpuReservations == {Bytes(2)}
MCHostReservations == {Bytes(3)}
MCKeys == {<<"GPU", "HOST">>, <<"HOST", "HOST">>}
MCDowngrades == {<<Half, Fraction(1, 4)>>}
=============================================================================
