---------------------------- MODULE MCDflDevice ----------------------------
(***************************************************************************)
(* A registry like the test fixture n3000-x2: two cards behind one PCIe    *)
(* bridge.  Each card is a dfl-pci device with its fpga_region (region0)  *)
(* holding the FME and one port; the FME's dfl-fme-region child holds the *)
(* PR region (region1) that carries compat_id.  A stray dfl-port.9 with no *)
(* driver bound sits directly under card A's PCI device, so that          *)
(* dfl_device_new on its path meets a missing region.                     *)
(* MC_Guids_NoPR drops card B's PR region: its FME has no compat_id.      *)
(***************************************************************************)
EXTENDS DflDevice

E(leaf) == [dir |-> "errors", leaf |-> leaf]
A(leaf) == [dir |-> "", leaf |-> leaf]

FmeAttrs  == <<E("catfatal"), E("clear"), E("nonfatal"), E("revision"), A("ports_num")>>
PortAttrs == <<A("afu_id"), E("errors"), E("first_error"), A("power")>>
PciAttrs  == <<A("vendor"), A("device")>>

MC_Nodes == {"bridge", "pciA", "strayA", "regA0", "fmeA", "fmeRegA", "regA1", "portA",
             "pciB", "regB0", "fmeB", "fmeRegB", "regB1", "portB"}

MC_RegOrder == <<"bridge", "pciA", "strayA", "regA0", "fmeA", "fmeRegA", "regA1", "portA",
                 "pciB", "regB0", "fmeB", "fmeRegB", "regB1", "portB">>

MC_ParentOf ==
  [n \in MC_Nodes |->
     CASE n = "bridge"                 -> "null"
       [] n \in {"pciA", "pciB"}       -> "bridge"
       [] n \in {"strayA", "regA0"}    -> "pciA"
       [] n \in {"fmeA", "portA"}      -> "regA0"
       [] n = "fmeRegA"                -> "fmeA"
       [] n = "regA1"                  -> "fmeRegA"
       [] n = "regB0"                  -> "pciB"
       [] n \in {"fmeB", "portB"}      -> "regB0"
       [] n = "fmeRegB"                -> "fmeB"
       [] n = "regB1"                  -> "fmeRegB"]

MC_Subsystem ==
  [n \in MC_Nodes |->
     CASE n \in {"bridge", "pciA", "pciB"}             -> "pci"
       [] n \in {"regA0", "regA1", "regB0", "regB1"}   -> "fpga_region"
       [] n \in {"fmeRegA", "fmeRegB"}                 -> "platform"
       [] OTHER                                        -> "dfl"]

MC_Driver ==
  [n \in MC_Nodes |->
     CASE n = "bridge"                 -> "pcieport"
       [] n \in {"pciA", "pciB"}       -> "dfl-pci"
       [] n \in {"fmeA", "fmeB"}       -> "dfl-fme"
       [] n \in {"portA", "portB"}     -> "dfl-port"
       [] n \in {"fmeRegA", "fmeRegB"} -> "dfl-fme-region"
       [] OTHER                        -> "none"]

\* dfl-fme-region.1 does not match "dfl-fme.*": the pattern needs the dot.
MC_SysnameKind ==
  [n \in MC_Nodes |->
     CASE n \in {"fmeA", "fmeB"}                -> "dfl-fme"
       [] n \in {"portA", "portB", "strayA"}    -> "dfl-port"
       [] OTHER                                 -> "other"]

MC_SysAttrs ==
  [n \in MC_Nodes |->
     CASE n \in {"fmeA", "fmeB"}                -> FmeAttrs
       [] n \in {"portA", "portB", "strayA"}    -> PortAttrs
       [] OTHER                                 -> PciAttrs]

MC_Guids == {"g1", "g2"}

MC_CompatId ==
  [n \in MC_Nodes |-> CASE n = "regA1" -> "g1" [] n = "regB1" -> "g2" [] OTHER -> "absent"]

MC_AfuId ==
  [n \in MC_Nodes |-> CASE n = "portA" -> "g2" [] n = "portB" -> "malformed"
                        [] OTHER -> "absent"]

(* The registry without card B's PR region. *)
MC_Nodes_NoPR == MC_Nodes \ {"fmeRegB", "regB1"}
MC_RegOrder_NoPR == SelectSeq(MC_RegOrder, LAMBDA n : n \in MC_Nodes_NoPR)
NoPR(f) == [n \in MC_Nodes_NoPR |-> f[n]]
MC_ParentOf_NoPR == NoPR(MC_ParentOf)
MC_Subsystem_NoPR == NoPR(MC_Subsystem)
MC_Driver_NoPR == NoPR(MC_Driver)
MC_SysnameKind_NoPR == NoPR(MC_SysnameKind)
MC_SysAttrs_NoPR == NoPR(MC_SysAttrs)
MC_CompatId_NoPR == NoPR(MC_CompatId)
MC_AfuId_NoPR == NoPR(MC_AfuId)

(* The registry with a port (portA1) below card A's PR region: its        *)
(* ancestors are regA1, fmeRegA, fmeA, regA0, pciA.                      *)
MC_Nodes_Nested == MC_Nodes \cup {"portA1"}
MC_RegOrder_Nested == MC_RegOrder \o <<"portA1">>
Nested(f, v) == [n \in MC_Nodes_Nested |-> IF n = "portA1" THEN v ELSE f[n]]
MC_ParentOf_Nested == Nested(MC_ParentOf, "regA1")
MC_Subsystem_Nested == Nested(MC_Subsystem, "dfl")
MC_Driver_Nested == Nested(MC_Driver, "dfl-port")
MC_SysnameKind_Nested == Nested(MC_SysnameKind, "dfl-port")
MC_SysAttrs_Nested == Nested(MC_SysAttrs, PortAttrs)
MC_CompatId_Nested == Nested(MC_CompatId, "absent")
MC_AfuId_Nested == Nested(MC_AfuId, "g1")

=============================================================================
