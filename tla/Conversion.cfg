SPECIFICATION Spec
CONSTANTS
  Machines <- MCMachines
  DefaultBuilder <- MCBuilder
  GpuUsages <- MCUsages
  GpuReservations <- MCGpuReservations
  HostReservations <- MCHostReservations
  Downgrades <- MCDowngrades
  ClientKeys <- MCKeys
  HostCapacities = {7}
  ChunkSizes = {2, 3}
  DiskSizes = {5}
  MaxCalls = 2
  TableSizes = {0, 5}
INVARIANTS MappedNicsAreLocal SpacesFitMachine TotalHostCapacityKept TableUnchanged
PROPERTIES CandidatesRight DeviceRestored
CHECK_DEADLOCK FALSE
