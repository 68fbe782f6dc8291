---------------------------- MODULE Configurator ----------------------------
(***************************************************************************)
(* reservation_manager_configurator                                        *)
(* (src/memory/reservation_manager_configurator.cpp) and the memory space  *)
(* configurations it makes (include/memory/config.hpp).                    *)
(*                                                                         *)
(* A builder is a record of the settings.  A double is an exact fraction   *)
(* [n, d]: the rounding of floating point is left out, the truncation to   *)
(* size_t is kept.  The asserts of the setters and of fraction_or_size are *)
(* what clients promise: a builder that breaks one is not built.           *)
(* A factory is the device it makes its resource on.                       *)
(***************************************************************************)
EXTENDS Topology

\* fraction_or_size: a fraction, or a number of bytes.
Fraction(n, d) == [kind |-> "fraction", n |-> n, d |-> d]
Bytes(n) == [kind |-> "bytes", n |-> n, d |-> 1]

\* static_cast<size_t>(size * fraction).
Times(size, f) == (size * f.n) \div f.d

GetFraction(v, total) == IF v.kind = "fraction" THEN v ELSE Fraction(v.n, total)

GetCapacity(v, total) == IF v.kind = "fraction" THEN Times(total, v) ELSE v.n

\* The asserts of get_fraction and get_capacity.
Sound(v, total) == v.kind = "bytes" => v.n <= total /\ total > 0

-----------------------------------------------------------------------------
(* The setters.                                                            *)

SetNumberOfGpus(b, n) == [b EXCEPT !.num_gpus = n]

\* set_gpu_usage_limit and set_usage_limit_ratio_per_gpu.
SetGpuUsage(b, v) == [b EXCEPT !.gpu_capacity = v]

\* set_reservation_limit_per_gpu and set_reservation_fraction_per_gpu.
SetGpuReservation(b, v) == [b EXCEPT !.gpu_reservation = v]

SetDowngradePerGpu(b, start, end) == [b EXCEPT !.gpu_downgrade = [start |-> start, stop |-> end]]

\* use_host_per_gpu ("gpu") and use_host_per_numa ("numa").
UseHostPer(b, what) == [b EXCEPT !.host_policy = what]

SetTotalHostCapacity(b, n) == [b EXCEPT !.host_capacity = n, !.per_space = FALSE]

SetPerHostCapacity(b, n) == [b EXCEPT !.host_capacity = n, !.per_space = TRUE]

SetHostReservation(b, v) == [b EXCEPT !.cpu_reservation = v]

SetDowngradePerHost(b, start, end) == [b EXCEPT !.host_downgrade = [start |-> start, stop |-> end]]

SetHostPoolFeatures(b, chunk) == [b EXCEPT !.chunk_size = chunk]

SetDiskMountingPoint(b, uuid, n) == [b EXCEPT !.disks = Append(@, [id |-> uuid, capacity |-> n])]

-----------------------------------------------------------------------------
(* build().                                                                *)

\* The GPUs of a topology by device id, with the memory the runtime reports.
GpuIds(topology) == {g.id : g \in Range(topology.gpus)}

GpuOf(topology, id) == CHOOSE g \in Range(topology.gpus) : g.id = id

RequestedGpus(b, topology) ==
  IF b.num_gpus = 0 THEN Len(topology.gpus) ELSE b.num_gpus

\* Devices 0, 1, ... are wanted, whatever ids the topology has.
ExtractThrows(b, topology) ==
  \/ b.num_gpus > Len(topology.gpus)
  \/ \E id \in 0..(RequestedGpus(b, topology) - 1) : id \notin GpuIds(topology)

ExtractGpuIds(b, topology, memory) ==
  [k \in 1..RequestedGpus(b, topology) |->
     [space_id |-> k - 1, gpu_capacity |-> memory[k], numa_id |-> GpuOf(topology, k - 1).numa_node]]

\* One host per GPU, or one per NUMA node in the order its first GPU appears.
ExtractHostIds_PerGpu(b, gpus) ==
  [k \in DOMAIN gpus |-> [space_id |-> gpus[k].numa_id, numa_id |-> gpus[k].numa_id]]

ExtractHostIds(b, gpus) ==
  IF b.host_policy = "gpu"
  THEN [k \in DOMAIN gpus |-> [space_id |-> gpus[k].space_id, numa_id |-> gpus[k].numa_id]]
  ELSE LET firsts == {k \in DOMAIN gpus : \A j \in 1..(k - 1) : gpus[j].numa_id # gpus[k].numa_id}
           order == Ascending(firsts)
       IN  [i \in DOMAIN order |->
              [space_id |-> gpus[order[i]].numa_id, numa_id |-> gpus[order[i]].numa_id]]

PerHostCapacity_Whole(b, hosts) == b.host_capacity

PerHostCapacity(b, hosts) ==
  IF Len(hosts) <= 1 \/ b.per_space THEN b.host_capacity ELSE b.host_capacity \div Len(hosts)

GpuConfig(b, info) ==
  LET capacity == GetCapacity(b.gpu_capacity, info.gpu_capacity)
  IN  [tier |-> "GPU", id |-> info.space_id, device |-> info.space_id,
       capacity |-> capacity,
       limit |-> Times(capacity, GetFraction(b.gpu_reservation, info.gpu_capacity)),
       start |-> Times(capacity, b.gpu_downgrade.start),
       stop |-> Times(capacity, b.gpu_downgrade.stop),
       block_size |-> 0]

HostConfig(b, capacity, info) ==
  [tier |-> "HOST", id |-> info.space_id, device |-> info.numa_id,
   capacity |-> capacity,
   limit |-> Times(capacity, GetFraction(b.cpu_reservation, capacity)),
   start |-> Times(capacity, b.host_downgrade.start),
   stop |-> Times(capacity, b.host_downgrade.stop),
   block_size |-> b.chunk_size]

\* The limit and the trigger of a disk are its capacity.
DiskConfig(disk) ==
  [tier |-> "DISK", id |-> disk.id, device |-> disk.id,
   capacity |-> disk.capacity, limit |-> disk.capacity, start |-> disk.capacity,
   stop |-> Times(disk.capacity, Fraction(99, 100)),
   block_size |-> 0]

Build(b, topology, memory) ==
  LET gpus == ExtractGpuIds(b, topology, memory)
      hosts == ExtractHostIds(b, gpus)
      capacity == PerHostCapacity(b, hosts)
  IN  [k \in DOMAIN gpus |-> GpuConfig(b, gpus[k])]
        \o [k \in DOMAIN hosts |-> HostConfig(b, capacity, hosts[k])]
        \o [k \in DOMAIN b.disks |-> DiskConfig(b.disks[k])]

\* Whether the asserts on the way hold.
BuildSound(b, topology, memory) ==
  LET gpus == ExtractGpuIds(b, topology, memory)
      capacity == PerHostCapacity(b, ExtractHostIds(b, gpus))
  IN  /\ \A k \in DOMAIN gpus :
           Sound(b.gpu_capacity, memory[k]) /\ Sound(b.gpu_reservation, memory[k])
      /\ gpus # <<>> => Sound(b.cpu_reservation, capacity)

=============================================================================
