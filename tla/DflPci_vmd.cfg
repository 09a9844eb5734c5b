\* Violation: a VMD domain (five hex digits) in the name.
CONSTANTS
  Segments <- MC_Segments_VMD
  Buses <- MC_Buses
  Devices <- MC_Devices
  Functions <- MC_Functions

SPECIFICATION Spec

INVARIANT PciAddrOfName
