\* parse_pcie_addr on the names of devices in domains below 0x10000.
CONSTANTS
  Segments <- MC_Segments
  Buses <- MC_Buses
  Devices <- MC_Devices
  Functions <- MC_Functions

SPECIFICATION Spec

INVARIANT PciAddrOfName
