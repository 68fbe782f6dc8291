------------------------------ MODULE Startup ------------------------------
(***************************************************************************)
(* From a machine to a working memory_reservation_manager: the client sets *)
(* up a configurator, build() discovers the topology and turns both into   *)
(* configurations, and the manager makes its spaces and tables from them.  *)
(* Everything here is one thread.  The discovery and the configurator are  *)
(* gone once the manager runs.                                             *)
(***************************************************************************)
EXTENDS Configurator, Strategies, Sums

CONSTANTS
  Machines,     \* machines the program may run on
  DefaultBuilder,
  GpuUsages, GpuReservations, HostCapacities, HostReservations,
  Downgrades,   \* pairs of fractions
  ChunkSizes,   \* block sizes of host memory
  DiskSizes,
  MaxCalls      \* bound on the calls of setters

Amounts ==
  {v \in [kind : {"fraction", "bytes"}, n : Nat, d : Nat \ {0}] : v.kind = "fraction" => v.n <= v.d}
Fractions == {v \in Amounts : v.kind = "fraction"}
Triggers == [start : Fractions, stop : Fractions]
Gpus ==
  [handle : BOOLEAN, pciInfo : BOOLEAN, numa : Int, pci : Int, cpus : Seq(Nat \X Nat), memory : Nat]
Disks == [id : Nat, capacity : Nat]

\* The settings of a configurator; the fractions are at most 1, as asserted.
Builders ==
  [num_gpus : Nat, gpu_capacity : Amounts, gpu_reservation : Amounts, gpu_downgrade : Triggers,
   host_policy : {"gpu", "numa"}, host_capacity : Nat, per_space : BOOLEAN,
   cpu_reservation : Amounts, host_downgrade : Triggers, chunk_size : Nat \ {0}, disks : Seq(Disks)]

ASSUME StartupAssumption ==
  /\ DefaultBuilder \in Builders /\ DefaultBuilder.disks = <<>>
  /\ GpuUsages \subseteq Amounts /\ GpuReservations \subseteq Amounts
  /\ HostReservations \subseteq Amounts
  /\ Downgrades \subseteq Fractions \X Fractions
  /\ HostCapacities \subseteq Nat /\ DiskSizes \subseteq Nat
  /\ ChunkSizes \subseteq Nat \ {0}
  /\ \A m \in Machines :
       /\ m.gpus \in Seq(Gpus)
       /\ m.nics \in Seq([numa : Int, pci : Int])

NoMachine == [nvml |-> "missing", gpus |-> <<>>, nics |-> <<>>, drives |-> <<>>, nodes |-> <<>>]
NoTopology == [threw |-> FALSE, num_gpus |-> 0, num_numa_nodes |-> 0, network_devices |-> <<>>,
               storage_devices |-> <<>>, gpus |-> <<>>]

VARIABLES
  phase,     \* "setting", "discovered", "built", "running" or "threw"
  calls,     \* setters called
  builder,   \* the configurator
  machine,   \* what discover() looked at
  topology,  \* get_topology()
  configs    \* the configurations; later _memory_spaces of the manager

startVars == <<phase, calls, builder, machine, topology, configs>>

StartInit ==
  /\ phase = "setting"
  /\ calls = 0
  /\ builder = DefaultBuilder
  /\ machine = NoMachine
  /\ topology = NoTopology
  /\ configs = <<>>

-----------------------------------------------------------------------------
Setters(b) ==
  {SetNumberOfGpus(b, n) : n \in 1..2}
    \cup {SetGpuUsage(b, v) : v \in GpuUsages}
    \cup {SetGpuReservation(b, v) : v \in GpuReservations}
    \cup {SetDowngradePerGpu(b, p[1], p[2]) : p \in Downgrades}
    \cup {UseHostPer(b, what) : what \in {"gpu", "numa"}}
    \cup {SetTotalHostCapacity(b, n) : n \in HostCapacities}
    \cup {SetPerHostCapacity(b, n) : n \in HostCapacities}
    \cup {SetHostReservation(b, v) : v \in HostReservations}
    \cup {SetDowngradePerHost(b, p[1], p[2]) : p \in Downgrades}
    \cup {SetHostPoolFeatures(b, n) : n \in ChunkSizes}
    \cup {SetDiskMountingPoint(b, Len(b.disks), n) : n \in DiskSizes}

CallSetter ==
  /\ phase = "setting"
  /\ calls < MaxCalls
  /\ calls' = calls + 1
  /\ builder' \in Setters(builder)
  /\ UNCHANGED <<phase, machine, topology, configs>>

\* build() begins with a discovery; a discovery that throws ends it.
RunDiscovery(m) ==
  /\ phase = "setting"
  /\ machine' = m
  /\ topology' = Discover(m)
  /\ phase' = IF topology'.threw THEN "threw" ELSE "discovered"
  /\ UNCHANGED <<calls, builder, configs>>

RunBuild ==
  LET memory == [k \in DOMAIN machine.gpus |-> machine.gpus[k].memory]
      throws == ExtractThrows(builder, topology)
  IN  /\ phase = "discovered"
      /\ ~throws => BuildSound(builder, topology, memory)
      /\ phase' = IF throws THEN "threw" ELSE "built"
      /\ configs' = IF throws THEN <<>> ELSE Build(builder, topology, memory)
      /\ UNCHANGED <<calls, builder, machine, topology>>

\* Configurations are plain structs: a client may give its hosts different
\* block sizes.
TuneBlockSize(i, n) ==
  /\ phase = "built"
  /\ configs[i].tier = "HOST"
  /\ configs' = [configs EXCEPT ![i].block_size = n]
  /\ UNCHANGED <<phase, calls, builder, machine, topology>>

\* The constructor of the manager: no configuration is an error.
StartManager ==
  /\ phase = "built"
  /\ phase' = IF configs = <<>> THEN "threw" ELSE "running"
  /\ calls' = 0
  /\ builder' = DefaultBuilder
  /\ machine' = NoMachine
  /\ topology' = NoTopology
  /\ UNCHANGED configs

StartNext ==
  \/ CallSetter
  \/ \E m \in Machines : RunDiscovery(m)
  \/ RunBuild
  \/ \E i \in DOMAIN configs, n \in ChunkSizes : TuneBlockSize(i, n)
  \/ StartManager

-----------------------------------------------------------------------------
(* Properties.                                                             *)

\* A NIC that sits on another NUMA node is mapped to a GPU only when no NIC
\* with PCI information sits on the GPU's own node, and a GPU gets a NIC
\* whenever there is one with PCI information.
MappedNicsAreLocal ==
  phase = "discovered" =>
    \A g \in Range(topology.gpus) :
      LET usable == {d \in Range(topology.network_devices) : d.pci # NoPci}
          mapped == Range(g.network_devices)
          Remote(d) == d.numa_node >= 0 /\ g.numa_node >= 0 /\ d.numa_node # g.numa_node
      IN  /\ mapped \subseteq usable
          /\ usable # {} => mapped # {}
          /\ (\E d \in mapped : Remote(d)) => \A d \in usable : Remote(d)

\* Spaces are found by tier and id: no two of them share both, and each one
\* promises no more than its limit, its limit no more than its capacity, and
\* a GPU no more than the device has.  Host memory is made on the NUMA node of
\* a GPU that is used.
SpacesFitMachine ==
  phase = "built" =>
    /\ \A i, j \in DOMAIN configs :
         configs[i].tier = configs[j].tier /\ configs[i].id = configs[j].id => i = j
    /\ \A i \in DOMAIN configs :
         LET c == configs[i]
         IN  /\ c.limit <= c.capacity /\ c.start <= c.capacity
             /\ c.tier = "GPU" => c.capacity <= machine.gpus[c.device + 1].memory
             /\ c.tier = "HOST" =>
                  \E j \in DOMAIN configs : /\ configs[j].tier = "GPU"
                                            /\ NumaNodeFromSys(machine.gpus[configs[j].device + 1].numa) = c.device

HostCapacity == SumOver({i \in DOMAIN configs : configs[i].tier = "HOST"}, LAMBDA i : configs[i].capacity)

\* A total host capacity is shared out among the hosts however many there are:
\* never exceeded, and never missed by a whole unit per host.
TotalHostCapacityKept ==
  LET hosts == {i \in DOMAIN configs : configs[i].tier = "HOST"}
  IN  phase = "built" /\ ~builder.per_space /\ hosts # {} =>
        /\ HostCapacity <= builder.host_capacity
        /\ HostCapacity + Cardinality(hosts) > builder.host_capacity

Tiers == {"GPU", "HOST", "DISK"}

RightCandidates ==
  \A tier \in Tiers, device \in -1..2 :
    LET ofTier == {i \in DOMAIN configs : configs[i].tier = tier}
        preferred == GetCandidates(configs, AnyMemorySpaceInTierWithPreference(tier, device))
        exact == GetCandidates(configs, SpecificMemorySpace(tier, device))
        First(q) == \A i, j \in DOMAIN q : i < j /\ configs[q[j]].id = device => configs[q[i]].id = device
    IN  /\ Range(preferred) = ofTier /\ IsInjective(preferred)
        /\ First(preferred)
        /\ Range(exact) = {i \in ofTier : configs[i].id = device}
        /\ \A other \in Tiers \ {tier} :
             LET both == GetCandidates(configs, AnyMemorySpaceInTiers(<<tier, other>>))
             IN  /\ Range(both) = {i \in DOMAIN configs : configs[i].tier \in {tier, other}}
                 /\ \A i, j \in DOMAIN both :
                      configs[both[i]].tier = tier /\ configs[both[j]].tier = other => i < j

\* The candidates that the tables of a new manager give a request: a
\* preference orders the spaces of the tier and excludes none, a list of tiers
\* is tried tier by tier, and the space asked for by tier and id is the only
\* one that has them.
CandidatesRight == [][phase' = "running" /\ phase # "running" => RightCandidates']_startVars

=============================================================================
