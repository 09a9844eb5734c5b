------------------------------ MODULE DflPci ------------------------------
(***************************************************************************)
(* parse_pcie_addr of libdfl (src/libdfl/opae_dfl.c): the segment, bus,   *)
(* device and function of a record are taken from its PCI device's        *)
(* sysname by an unanchored regex and strtoul on each group.              *)
(***************************************************************************)
EXTENDS Integers, Sequences, SequencesExt, CLib

CONSTANTS Segments, Buses, Devices, Functions  \* the addresses sysnames carry

VARIABLES
  name,  \* the address of the PCI device whose sysname was parsed last
  bdf    \* parse_pcie_addr's result

vars == <<name, bdf>>

-----------------------------------------------------------------------------
(* parse_pcie_addr *)

Addrs == [seg : Segments, bus : Buses, dev : Devices, fn : Functions]
NoAddr == [seg |-> 0, bus |-> 0, dev |-> 0, fn |-> 0]

\* The kernel's name of a PCI device: "%04x:%02x:%02x.%d" of domain, bus,
\* slot and function.
PciName(a) ==
  HexPad(a.seg, 4) \o <<":">> \o HexPad(a.bus, 2) \o <<":">> \o HexPad(a.dev, 2)
  \o <<".">> \o Dec(a.fn)

\* PCIE_PATH_PATTERN matches s at position i:
\* ([0-9a-fA-F]{4}):([0-9a-fA-F]{2}):([0-9a-fA-F]{2})\.([0-9])
PatternAt(s, i) ==
  /\ i + 11 <= Len(s)
  /\ \A k \in {0, 1, 2, 3, 5, 6, 8, 9} : DigitValue(s[i + k]) < 16
  /\ s[i + 4] = ":" /\ s[i + 7] = ":" /\ s[i + 10] = "."
  /\ DigitValue(s[i + 11]) < 10

\* Mutant: the bus and device groups are taken in the wrong order.
PciAddrBusDevSwapped(s) ==
  LET m == SelectInSeq([i \in 1..Len(s) |-> i], LAMBDA i : PatternAt(s, i))
  IN IF m = 0 THEN [ok |-> FALSE, addr |-> NoAddr]
     ELSE [ok |-> TRUE,
           addr |-> [seg |-> StrtoulAt(s, m, 16).val, bus |-> StrtoulAt(s, m + 8, 16).val,
                     dev |-> StrtoulAt(s, m + 5, 16).val, fn |-> StrtoulAt(s, m + 11, 10).val]]

\* parse_pcie_addr: regexec finds the leftmost match (the pattern is not
\* anchored); each group is converted by strtoul from the group's start,
\* 16 for the first three, 10 for the function.
parse_pcie_addr(s) ==
  LET m == SelectInSeq([i \in 1..Len(s) |-> i], LAMBDA i : PatternAt(s, i))
  IN IF m = 0 THEN [ok |-> FALSE, addr |-> NoAddr]
     ELSE [ok |-> TRUE,
           addr |-> [seg |-> StrtoulAt(s, m, 16).val, bus |-> StrtoulAt(s, m + 5, 16).val,
                     dev |-> StrtoulAt(s, m + 8, 16).val, fn |-> StrtoulAt(s, m + 11, 10).val]]

-----------------------------------------------------------------------------
(* The calls *)

Init ==
  /\ name \in Addrs
  /\ bdf = parse_pcie_addr(PciName(name))

\* parse_pcie_addr, called by dfl_device_new on the sysname of the record's
\* PCI device with address a.
ParsePci ==
  \E a \in Addrs :
    /\ name' = a
    /\ bdf' = parse_pcie_addr(PciName(a))

Next == ParsePci

Spec == Init /\ [][Next]_vars

-----------------------------------------------------------------------------
(* Properties *)

\* Spec 4.2 step 4: the PCI name is parsed against XXXX:XX:XX.X, so the
\* parse of a device's name yields that device's address when the
\* segment fits the four digits, and a parse error otherwise.
PciAddrOfName ==
  IF name.seg < 65536
  THEN bdf.ok /\ bdf.addr = name
  ELSE ~bdf.ok

====
