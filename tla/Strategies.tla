----------------------------- MODULE Strategies -----------------------------
(***************************************************************************)
(* The tables of memory_reservation_manager and the candidates of its      *)
(* request strategies (src/memory/memory_reservation_manager.cpp).         *)
(*                                                                         *)
(* The manager's _memory_spaces are a sequence of configurations, and a    *)
(* memory space is its position in it.  A request is a record: kind, and   *)
(* the tier, device or list of tiers that the kind has.                    *)
(***************************************************************************)
EXTENDS Integers, Sequences, SequencesExt, Orders

NoSpace == 0
NoPreference == -2

\* The requests.  What a downgrade or an upgrade is from and to, nobody reads.
AnyMemorySpaceInTierWithPreference(tier, device) ==
  [kind |-> "with_preference", tier |-> tier, device |-> device]
AnyMemorySpaceInTier(tier) == [kind |-> "in_tier", tier |-> tier]
AnyMemorySpaceInTiers(tiers) == [kind |-> "in_tiers", tiers |-> tiers]
SpecificMemorySpace(tier, device) == [kind |-> "specific", tier |-> tier, device |-> device]
AnyMemorySpaceToDowngrade == [kind |-> "to_downgrade"]
AnyMemorySpaceToUpgrade == [kind |-> "to_upgrade"]

\* _memory_space_views, and _tier_to_memory_spaces (in the order of creation).
AllSpaces(configs) == [i \in DOMAIN configs |-> i]

SpacesForTier(configs, tier) ==
  Picked(AllSpaces(configs), {i \in DOMAIN configs : configs[i].tier = tier})

\* _memory_space_lookup: a later space with the same id replaces an earlier one.
GetMemorySpace(configs, tier, device) ==
  LET found == {i \in DOMAIN configs : configs[i].tier = tier /\ configs[i].id = device}
  IN  IF found = {} THEN NoSpace ELSE CHOOSE i \in found : \A j \in found : j <= i

\* stable_partition on the preferred device.
Preferring_Only(configs, spaces, device) ==
  Picked(spaces, {k \in DOMAIN spaces : configs[spaces[k]].id = device})

Preferring(configs, spaces, device) ==
  LET fits == {k \in DOMAIN spaces : configs[spaces[k]].id = device}
  IN  IF device = NoPreference THEN spaces
      ELSE Picked(spaces, fits) \o Picked(spaces, DOMAIN spaces \ fits)

GetCandidates(configs, request) ==
  CASE request.kind = "in_tier" -> SpacesForTier(configs, request.tier)
    [] request.kind = "with_preference" ->
         Preferring(configs, SpacesForTier(configs, request.tier), request.device)
    [] request.kind = "in_tiers" ->
         FlattenSeq([k \in DOMAIN request.tiers |-> SpacesForTier(configs, request.tiers[k])])
    [] request.kind = "specific" ->
         LET s == GetMemorySpace(configs, request.tier, request.device)
         IN  IF s = NoSpace THEN <<>> ELSE <<s>>
    [] request.kind \in {"to_downgrade", "to_upgrade"} -> <<>>

=============================================================================
