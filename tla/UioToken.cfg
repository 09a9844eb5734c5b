\* Two devices, two regions, a five-block heap, parent chains of two.
CONSTANTS
  d1 = d1
  d2 = d2
  Devices <- MC_Devices
  Regions = {1, 2}
  MaxCells = 5
  MaxDepth = 2

SYMMETRY MC_Symmetry

SPECIFICATION Spec

INVARIANT UniqueRegion
INVARIANT NoLostToken
INVARIANT ClonesDisjoint

\* Once every device's list is freed and no clone is held, no helper has
\* anything left to act on: the plugin has been torn down.
CHECK_DEADLOCK FALSE
PROPERTY ImplementsTokenTable
