SPECIFICATION Spec
CONSTANTS
  k1 = k1
  k2 = k2
  k3 = k3
  CPUs = {c1, c2}
  Keys = {k1, k3}
  HashOf <- MCHashOf
  KeyLen <- MCKeyLen
  Cut <- MCCut
  BMC_MAX_KEY_LENGTH = 230
  PrefixOf <- MCPrefixOf
  BMC_CACHE_ENTRY_COUNT = 1
  ShortKeys = {}
  NoCPU = NoCPU
  NoData = NoData
  BMC_MAX_KEY_IN_PACKET = 1
  MaxGets = 1
  MaxSets = 1
  MaxResponses = 1
SYMMETRY Symmetry
INVARIANT
  KeptEntryUpToDate
