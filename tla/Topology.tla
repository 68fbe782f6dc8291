------------------------------ MODULE Topology ------------------------------
(***************************************************************************)
(* topology_discovery (src/memory/topology_discovery.cpp): what discover() *)
(* makes of a machine.  A machine is what the code asks NVML and /sys for: *)
(*                                                                         *)
(*   nvml     "missing", "init_fails", "count_fails" or "ok"               *)
(*   gpus     per index: handle and pciInfo (do the NVML queries succeed), *)
(*            numa (its numa_node file), pci, cpus, memory                 *)
(*   nics     the directories of /sys/class/infiniband: numa, pci          *)
(*   drives   the directories of /sys/class/nvme: numa, pci                *)
(*   nodes    the entries of /sys/devices/system/node: is it a node*       *)
(*                                                                         *)
(* A device is its index, and pci is its bus number: names, UUIDs and the  *)
(* spelling of PCI identifiers are left out.                               *)
(***************************************************************************)
EXTENDS Integers, FiniteSets, Sequences, SequencesExt, Orders

\* Contents of a numa_node file that are no node number.  The kernel itself
\* writes -1 for "no node".
NoFile == -3
Garbage == -4

UnknownNode == -1

\* A device without a PCI identifier, and one whose identifier has no bus.
NoPci == -2
NoBus == -1

-----------------------------------------------------------------------------
\* A list of ranges <<first, last>>, a single core being <<c, c>>.
ParseCpuList(list) ==
  FlattenSeq([i \in DOMAIN list |->
                [k \in 1..(list[i][2] - list[i][1] + 1) |-> list[i][1] + k - 1]])

\* get_numa_node_from_sys: nothing that is wrong with the file is an error.
NumaNodeFromSys(file) == IF file \in {NoFile, Garbage} THEN UnknownNode ELSE file

\* What the other readers make of the file: std::stoi throws on garbage.
StoiNuma(file) == IF file = NoFile THEN UnknownNode ELSE file

\* The scan of a directory ends at the first exception; the devices found so
\* far are kept.
DiscoverDevices(dir) ==
  LET readable == {n \in 0..Len(dir) : \A i \in 1..n : dir[i].numa # Garbage}
      n == CHOOSE m \in readable : \A k \in readable : k <= m
  IN  [i \in 1..n |-> [name |-> i, numa_node |-> StoiNuma(dir[i].numa), pci |-> dir[i].pci]]

DiscoverNetworkDevices(machine) == DiscoverDevices(machine.nics)

DiscoverStorageDevices(machine) == DiscoverDevices(machine.drives)

\* PciePathType, best first.
PIX == 0
PHB == 2
NODE == 3
SYS == 4

Distance(a, b) == IF a > b THEN a - b ELSE b - a

PciePathType(gpuNuma, gpuBus, nicNuma, nicBus) ==
  CASE gpuNuma # nicNuma /\ gpuNuma >= 0 /\ nicNuma >= 0 -> SYS
    [] OTHER ->
         CASE gpuBus < 0 \/ nicBus < 0      -> PHB
           [] Distance(gpuBus, nicBus) <= 2 -> PIX
           [] Distance(gpuBus, nicBus) \in 3..10 -> PHB
           [] OTHER                         -> NODE

\* The devices with the best path among those that have a PCI identifier; none
\* when no device has one (the fallbacks behind that return are never reached).
MapNetworkDevicesToGpu_Worst(gpu, nics) ==
  LET path(i) == PciePathType(StoiNuma(gpu.numa), gpu.pci, nics[i].numa_node, nics[i].pci)
      withPath == {i \in DOMAIN nics : nics[i].pci # NoPci}
  IN  Picked(nics, {i \in withPath : \A j \in withPath : path(i) >= path(j)})

MapNetworkDevicesToGpu(gpu, nics) ==
  LET path(i) == PciePathType(StoiNuma(gpu.numa), gpu.pci, nics[i].numa_node, nics[i].pci)
      withPath == {i \in DOMAIN nics : nics[i].pci # NoPci}
  IN  Picked(nics, {i \in withPath : \A j \in withPath : path(i) <= path(j)})

\* The numa_node file of a GPU is read once more for the path to a NIC, this
\* time without a handler: discover() lets the exception through.
MappingThrows(gpu, nics) == gpu.numa = Garbage /\ \E d \in Range(nics) : d.pci # NoPci

\* NvmlLoader: the library under either name, with every function in it.
NvmlLoaded(machine) == machine.nvml # "missing"

\* There are GPUs only when loading, initialization and the count all work.
DeviceCount(machine) ==
  IF NvmlLoaded(machine) /\ machine.nvml \notin {"init_fails", "count_fails"}
  THEN Len(machine.gpus) ELSE 0

CountNumaNodes(machine) == Cardinality({i \in DOMAIN machine.nodes : machine.nodes[i]})

GpuTopology(id, gpu, nics) ==
  [id |-> id,
   numa_node |-> NumaNodeFromSys(gpu.numa),
   cpu_cores |-> ParseCpuList(gpu.cpus),
   network_devices |-> MapNetworkDevicesToGpu(gpu, nics)]

\* GPUs whose handle or PCI information NVML does not give are skipped, and
\* keep their index.
Discover(machine) ==
  LET nics == DiscoverNetworkDevices(machine)
      count == DeviceCount(machine)
      found == {i \in 1..count : machine.gpus[i].handle /\ machine.gpus[i].pciInfo}
  IN  [threw |-> \E i \in found : MappingThrows(machine.gpus[i], nics),
       num_gpus |-> count,
       num_numa_nodes |-> CountNumaNodes(machine),
       network_devices |-> nics,
       storage_devices |-> DiscoverStorageDevices(machine),
       gpus |-> LET ids == Ascending(found)
                IN  [k \in DOMAIN ids |-> GpuTopology(ids[k] - 1, machine.gpus[ids[k]], nics)]]

=============================================================================
